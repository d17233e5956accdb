---------------------------- MODULE MCImapClient ----------------------------
(* Instance for TLC: two accounts; one has three mails, the latest of      *)
(* which cannot be fetched.                                                *)
EXTENDS ImapClient
CONSTANTS a, b
MCBoxes == {a, b}
MCFirstAccounts == <<a, b>>
MCMails == 1..3
MCBoxOf == <<a, a, a>>
MCUnreadable == {3}
=============================================================================
