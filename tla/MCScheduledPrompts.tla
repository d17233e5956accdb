------------------------- MODULE MCScheduledPrompts -------------------------
(* Instance for TLC: three prompts, the first without a model, so that     *)
(* there is none to ask for it until a default model is set.               *)
EXTENDS ScheduledPrompts
MCConfig ==
  [enabled |-> TRUE, notify_failures |-> TRUE, api_key |-> TRUE, default_model |-> FALSE,
   prompts |-> << [slot |-> 0, model |-> FALSE, enabled |-> TRUE],
                  [slot |-> 0, model |-> TRUE, enabled |-> TRUE],
                  [slot |-> 1, model |-> TRUE, enabled |-> TRUE] >>]
MCForms == { [slot |-> s, model |-> s = 0, enabled |-> s = 1] : s \in 0..1 }
=============================================================================
