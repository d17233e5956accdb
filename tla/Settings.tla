------------------------------ MODULE Settings ------------------------------
(***************************************************************************)
(* The persistent settings (storage.cpp) and the handlers that change      *)
(* them: the calibration of the radio in NVS, the settings and the stored  *)
(* networks in /settings.json, the certificates and the prompts in files   *)
(* of their own.                                                           *)
(*                                                                         *)
(* Everything runs on Core 1.  An operation is walked step by step, one    *)
(* write to flash a step, because the device may crash before each: a file *)
(* opened for writing is empty until it is written.  Every group of        *)
(* settings that is only copied is one field, data; the frequency          *)
(* correction and the power are kept apart because NVS and setup change    *)
(* them.  SPIFFS and NVS may fail, a save may be cut short without being   *)
(* noticed, and the flash guard may not be had while the radio transmits.  *)
(***************************************************************************)
EXTENDS Naturals, FiniteSets

CONSTANTS
  MAX_WIFI_NETWORKS,      \* 10
  Ssids, Ppms,            \* Ppms: the corrections a user may set, 0 among them
  Data, Default,          \* the values of the copied settings, as shipped first
  Backup,                 \* the backup a user restores: [ppm, power, data, nets]
  NoFile, Broken,         \* /settings.json missing; empty, cut off or too
                          \* large for the document it is parsed into
  Invalid, NoNet,         \* no entry of this version in NVS; no network
  MaxMishaps              \* bound: resets, new firmware and failed writes

ASSUME SettingsAssumption ==
  /\ MAX_WIFI_NETWORKS \in Nat \ {0} /\ IsFiniteSet(Ssids)
  /\ Invalid \notin Ppms /\ NoNet \notin Ssids /\ NoFile # Broken
  /\ 0 \in Ppms /\ Default \in Data
  /\ Backup.ppm \in Ppms /\ Backup.data \in Data /\ Backup.power \in {"low", "usual"}
  /\ Backup.nets \subseteq Ssids /\ Cardinality(Backup.nets) <= MAX_WIFI_NETWORKS
  /\ MaxMishaps \in Nat

VARIABLES
  nvs,                 \* the calibration stored in NVS, or Invalid
  file,                \* /settings.json: NoFile, Broken or what it holds
  others,              \* the certificates and the prompts, alike: "none",
                       \* "broken", "user" or "backup"
  core,                \* core_config.frequency_correction_ppm
  settings, nets,      \* settings, and the names in stored_networks
  boot,                \* how far setup has come
  pc,                  \* the next write of the running operation
  then, answer,        \* what follows it; what the last caller was told
  due,                 \* a restored backup waits for its restart
  asked,               \* the network the last caller asked for, or NoNet
  mishaps,             \* bounded
  behind,              \* history: the last write to NVS failed
  short,               \* history: the last save was reported as done, and is
                       \* not whole
  wiped                \* history: no command has saved since a factory reset

ramVars   == <<core, settings, nets>>
flashVars == <<nvs, file, others>>
callVars  == <<then, answer, asked, short>>
vars == <<ramVars, flashVars, callVars, due, boot, pc, mishaps, behind, wiped>>

Powers == {"low", "usual"}           \* "low": below 2 dBm
Settings == [ppm : Ppms, power : Powers, data : Data]
Images == {[set |-> s, nets |-> n] : s \in Settings, n \in SUBSET Ssids}
ASSUME ImagesAssumption == NoFile \notin Images /\ Broken \notin Images

Readable == file \notin {NoFile, Broken}
Image == [set |-> settings, nets |-> nets]
Phases == {"core", "settings", "radio", "recovered", "run", "panic"}
Writes == {"idle", "others", "contents", "assign", "open", "nvs", "json", "reset"}

\* A settings record is cleared by the reset, like every global.
Cleared == [ppm |-> 0, power |-> "low", data |-> Default]

Init ==
  /\ nvs = Invalid /\ file = NoFile /\ others = "none"
  /\ core = 0 /\ settings = Cleared /\ nets = {}
  /\ boot = "core" /\ pc = "idle" /\ then = "boot" /\ answer = "none" /\ asked = NoNet
  /\ due = FALSE /\ mishaps = 0 /\ behind = FALSE /\ short = FALSE /\ wiped = FALSE

-----------------------------------------------------------------------------
(*                            Writing to flash                             *)

Idle == pc = "idle"
NoFault == UNCHANGED mishaps
Mishap == mishaps < MaxMishaps /\ mishaps' = mishaps + 1
Fault == Mishap                      \* SPIFFS, NVS or the radio fails

(* save_runtime_settings begins, or the flash guard is not had in time;    *)
(* next is what its caller does after a save that succeeds.                *)
Begin(next) == pc' = "open" /\ then' = next /\ answer' = "none"
Refused(next) == pc' = "idle" /\ then' = "serve"
                 /\ answer' = IF next = "said ok" THEN "ok" ELSE "error"
Save(next) == Begin(next) \/ (boot = "run" /\ Refused(next))

(* What a finished save leads to: the AT commands that change one setting  *)
(* do not look at the result.                                              *)
Ends(ok) ==
  /\ pc' = IF ok /\ then = "restart" THEN "reset" ELSE "idle"
  /\ then' = "serve"
  /\ due' = (due \/ (ok /\ then = "restore"))
  /\ answer' = IF then = "boot" THEN IF ok THEN "booted" ELSE "none"
               ELSE IF then = "said ok" THEN "ok"
               ELSE IF ok THEN "stored" ELSE "error"

KeepRest == UNCHANGED <<boot, asked>>

(* SPIFFS.open(..., "w"): the old contents are gone from here on.          *)
OpenFile ==
  /\ pc = "open"
  /\ \/ /\ file' = Broken /\ short' = FALSE /\ pc' = "nvs"
        /\ UNCHANGED <<then, answer, due>> /\ NoFault
     \/ Fault /\ UNCHANGED <<file, short>> /\ Ends(FALSE)
  /\ UNCHANGED <<ramVars, nvs, others, behind, wiped>> /\ KeepRest

\* Mutant: the entry in NVS keeps the correction of the last boot.
PpmOfBoot == core
PpmToStore == settings.ppm

(* save_core_config: its result is not looked at.                          *)
PutCore ==
  /\ pc = "nvs" /\ pc' = "json"
  /\ core' = PpmToStore
  /\ \/ nvs' = PpmToStore /\ behind' = FALSE /\ NoFault
     \/ Fault /\ behind' = TRUE /\ UNCHANGED nvs
  /\ wiped' = (wiped /\ boot # "run")
  /\ UNCHANGED <<settings, nets, file, others, then, answer, due, short>> /\ KeepRest

(* Only a save that writes nothing at all is an error.  SPIFFS may run     *)
(* full half-way, or a document of 4096 bytes has no room for the last     *)
(* networks, and the save is reported as done.                             *)
PartOfImage == {Broken} \cup {[Image EXCEPT !.nets = part] : part \in (SUBSET nets) \ {nets}}
WriteJson ==
  /\ pc = "json"
  /\ \/ file' = Image /\ Ends(TRUE) /\ NoFault /\ UNCHANGED short
     \/ Fault /\ file' \in PartOfImage /\ short' = TRUE /\ Ends(TRUE)
     \/ Fault /\ UNCHANGED <<file, short>> /\ Ends(FALSE)
  /\ UNCHANGED <<ramVars, nvs, others, behind, wiped>> /\ KeepRest

-----------------------------------------------------------------------------
(*                                 setup                                   *)

KeepFlash == UNCHANGED <<flashVars, behind, wiped>>
KeepCall == UNCHANGED <<asked, due, short>>

(* load_core_config: an entry of another version counts as none.           *)
LoadCore ==
  /\ boot = "core" /\ boot' = "settings"
  /\ IF nvs = Invalid
     THEN /\ core' = 0 /\ nvs' = 0 /\ others' = "none" /\ behind' = FALSE
          /\ UNCHANGED settings
     ELSE /\ core' = nvs /\ settings' = [settings EXCEPT !.ppm = nvs]
          /\ UNCHANGED <<nvs, others, behind>>
  /\ UNCHANGED <<nets, file, pc, callVars, due, wiped>> /\ NoFault

\* Mutant: the defaults do not look at the calibration of NVS.
ShippedPpmZero(ppm) == [ppm |-> 0, power |-> "usual", data |-> Default]
Shipped(ppm) == [ppm |-> ppm, power |-> "usual", data |-> Default]

\* Mutant: the defaults are not written back over a file that does not parse.
RewritesMissing == file = NoFile
Rewrites == ~Readable

Loaded == settings' = file.set /\ nets' = file.nets

(* load_runtime_settings: a file that is missing or does not parse is      *)
(* replaced by the defaults, which leave stored_networks alone; one that   *)
(* cannot be opened is not.                                                *)
LoadSettings ==
  /\ boot = "settings" /\ Idle
  /\ boot' = "radio"
  /\ \/ /\ Readable /\ NoFault
        /\ Loaded
        /\ answer' = "booted" /\ UNCHANGED <<pc, then>>
     \/ /\ ~Readable /\ NoFault
        /\ settings' = Shipped(core) /\ UNCHANGED nets
        /\ answer' = "booted" /\ then' = "boot"
        /\ pc' = IF Rewrites THEN "open" ELSE "idle"
     \/ /\ file # NoFile /\ Fault
        /\ settings' = Shipped(core) /\ UNCHANGED <<nets, pc, then>>
        /\ answer' = "none"
  /\ KeepFlash /\ KeepCall /\ UNCHANGED core

(* setup replaces a power the radio cannot give; when the radio still      *)
(* refuses it, the default is stored, and then the radio works or setup    *)
(* stops in panic.                                                         *)
RadioInit ==
  /\ boot = "radio" /\ Idle
  /\ settings' = [settings EXCEPT !.power = "usual"]
  /\ \/ boot' = "run" /\ then' = "serve" /\ UNCHANGED <<pc, answer>> /\ NoFault
     \/ boot' = "recovered" /\ pc' = "open" /\ then' = "boot" /\ answer' = "none" /\ Fault
  /\ KeepFlash /\ KeepCall /\ UNCHANGED <<core, nets>>

RadioRecovered ==
  /\ boot = "recovered" /\ Idle
  /\ \/ boot' = "run" /\ then' = "serve" /\ NoFault
     \/ boot' = "panic" /\ Fault /\ UNCHANGED then
  /\ KeepFlash /\ KeepCall /\ UNCHANGED <<ramVars, pc, answer>>

Reboots ==
  /\ boot' = "core" /\ pc' = "idle" /\ then' = "boot" /\ answer' = "none" /\ asked' = NoNet
  /\ due' = FALSE /\ short' = FALSE /\ core' = 0 /\ settings' = Cleared /\ nets' = {}

(* Power, watchdog or fault, at any step.                                  *)
Crash ==
  /\ Mishap /\ Reboots /\ KeepFlash

(* safe_restart.                                                           *)
Restart == pc = "reset" /\ Reboots /\ KeepFlash /\ NoFault

(* A firmware with another CONFIG_VERSION is flashed.                      *)
Update ==
  /\ Mishap /\ nvs' = Invalid /\ Reboots
  /\ UNCHANGED <<file, others, behind, wiped>>

-----------------------------------------------------------------------------
(*                             The handlers                                *)

Serving == boot = "run" /\ Idle
KeepRun == UNCHANGED <<flashVars, behind, wiped, boot, core, due, short>> /\ NoFault
Sets(new) == settings' = new

HasRoom == Cardinality(nets) < MAX_WIFI_NETWORKS
\* Mutant: the network is stored whether or not there is room.
FitsAlways(s) == TRUE
Fits(s) == s \in nets \/ HasRoom
Adds(s) == nets' = IF s \in nets \/ HasRoom THEN nets \cup {s} ELSE nets

(* handle_save_config: with the table full the network is left out without *)
(* a word; the request then succeeds like any other.                       *)
SaveConfig(s, power, d) ==
  /\ Serving
  /\ IF s = NoNet THEN UNCHANGED nets ELSE Adds(s)
  /\ Sets([settings EXCEPT !.power = power, !.data = d])
  /\ asked' = NoNet /\ Save("restart") /\ KeepRun

(* handle_save_flex: at least 2 dBm.                                       *)
SaveFlex(ppm) ==
  /\ Serving
  /\ Sets([settings EXCEPT !.ppm = ppm, !.power = "usual"])
  /\ asked' = NoNet /\ Save("restart") /\ KeepRun /\ UNCHANGED nets

(* handle_save_api: what comes before the refused field is set already.    *)
SaveApi(d, valid) ==
  /\ Serving
  /\ Sets([settings EXCEPT !.data = d])
  /\ IF valid THEN Save("restart")
              ELSE answer' = "refused" /\ then' = "serve" /\ UNCHANGED pc
  /\ asked' = NoNet /\ KeepRun /\ UNCHANGED nets

(* handle_save_gsm and handle_grafana_toggle: only the first restarts.     *)
SaveGsm(d) ==
  /\ Serving
  /\ Sets([settings EXCEPT !.data = d])
  /\ asked' = NoNet /\ Save("restart") /\ KeepRun /\ UNCHANGED nets

GrafanaToggle(d) ==
  /\ Serving
  /\ Sets([settings EXCEPT !.data = d])
  /\ asked' = NoNet /\ Save("serve") /\ KeepRun /\ UNCHANGED nets

(* handle_api_wifi_add, AT+WIFI: a full table is an error.                 *)
WifiAdd(s) ==
  /\ Serving
  /\ IF Fits(s)
     THEN Adds(s) /\ asked' = s /\ Save("serve")
     ELSE UNCHANGED <<nets, pc>> /\ asked' = NoNet /\ answer' = "refused" /\ then' = "serve"
  /\ KeepRun /\ UNCHANGED settings

(* handle_api_wifi_delete.                                                 *)
WifiDelete(s) ==
  /\ Serving
  /\ nets' = nets \ {s} /\ asked' = NoNet
  /\ IF s \in nets THEN Save("serve")
     ELSE answer' = "refused" /\ then' = "serve" /\ UNCHANGED pc
  /\ KeepRun /\ UNCHANGED settings

(* AT+FREQPPM and AT+FLEX answer OK whatever the save returned.            *)
AtFreqPpm(ppm) ==
  /\ Serving /\ ~due
  /\ Sets([settings EXCEPT !.ppm = ppm])
  /\ asked' = NoNet /\ Save("said ok") /\ KeepRun /\ UNCHANGED nets

AtFlex(power, d) ==
  /\ Serving /\ ~due
  /\ Sets([settings EXCEPT !.power = power, !.data = d])
  /\ asked' = NoNet /\ Save("said ok") /\ KeepRun /\ UNCHANGED nets

(* handle_upload_certificate.                                              *)
UploadCert ==
  /\ Serving
  /\ \/ pc' = "others" /\ then' = "serve" /\ answer' = "none"
     \/ UNCHANGED pc /\ then' = "serve" /\ answer' = "error"
  /\ asked' = NoNet /\ KeepRun /\ UNCHANGED <<settings, nets>>

-----------------------------------------------------------------------------
(*                        Restore and factory reset                        *)

(* import_user_backup: a backup that does not parse or whose checksum is   *)
(* wrong is refused; else the networks change at once, the files one after *)
(* the other, the settings last.                                           *)
Restore ==
  /\ Serving
  /\ \/ nets' = Backup.nets /\ pc' = "others" /\ then' = "restore" /\ answer' = "none"
     \/ UNCHANGED <<nets, pc>> /\ then' = "serve" /\ answer' = "refused"
  /\ asked' = NoNet
  /\ KeepRun /\ UNCHANGED settings

OthersFail ==
  /\ pc' = IF then = "restore" THEN "assign" ELSE "idle"
  /\ answer' = IF then = "restore" THEN answer ELSE "error"

(* saveCertificateToSPIFFS and the files of the backup, which passes over  *)
(* one it cannot open or write.                                            *)
OpenOthers ==
  /\ pc = "others"
  /\ \/ others' = "broken" /\ pc' = "contents" /\ NoFault /\ UNCHANGED answer
     \/ Fault /\ UNCHANGED others /\ OthersFail
  /\ UNCHANGED <<ramVars, nvs, file, behind, wiped, then, due, short>> /\ KeepRest

WriteOthers ==
  /\ pc = "contents"
  /\ \/ /\ NoFault
        /\ others' = IF then = "restore" THEN "backup" ELSE "user"
        /\ pc' = IF then = "restore" THEN "assign" ELSE "idle"
        /\ answer' = IF then = "restore" THEN answer ELSE "ok"
     \/ Fault /\ UNCHANGED others /\ OthersFail
  /\ UNCHANGED <<ramVars, nvs, file, behind, wiped, then, due, short>> /\ KeepRest

Restored(ppm) == IF ppm # 0 THEN ppm ELSE Backup.ppm

Assign ==
  /\ pc = "assign"
  /\ core' = Restored(core)
  /\ settings' = [ppm |-> Restored(core), power |-> Backup.power, data |-> Backup.data]
  /\ Save("restore")
  /\ KeepFlash /\ KeepCall /\ UNCHANGED <<nets, boot>> /\ NoFault

(* handle_upload_restore serves other requests for a second, then restarts. *)
RestoreRestarts ==
  /\ Serving /\ due /\ pc' = "reset"
  /\ KeepFlash /\ UNCHANGED <<ramVars, callVars, due, boot>> /\ NoFault

(* perform_factory_reset, from the page, AT+FACTORYRESET or the button:    *)
(* SPIFFS is formatted, NVS is not.                                        *)
FactoryReset ==
  /\ Serving
  /\ file' = NoFile /\ others' = "none"
  /\ wiped' = TRUE
  /\ Reboots /\ UNCHANGED <<nvs, behind>> /\ NoFault

-----------------------------------------------------------------------------
Handlers ==
  \/ \E s \in Ssids \cup {NoNet}, p \in Powers, d \in Data : SaveConfig(s, p, d)
  \/ \E p \in Ppms : SaveFlex(p) \/ AtFreqPpm(p)
  \/ \E d \in Data, v \in BOOLEAN : SaveApi(d, v)
  \/ \E d \in Data : SaveGsm(d) \/ GrafanaToggle(d)
  \/ \E s \in Ssids : WifiAdd(s) \/ WifiDelete(s)
  \/ \E p \in Powers, d \in Data : AtFlex(p, d)
  \/ UploadCert \/ Restore \/ FactoryReset

Steps ==
  \/ LoadCore \/ LoadSettings \/ RadioInit \/ RadioRecovered
  \/ OpenFile \/ PutCore \/ WriteJson
  \/ OpenOthers \/ WriteOthers \/ Assign \/ RestoreRestarts \/ Restart

Next == Handlers \/ Steps \/ Crash \/ Update

Spec == Init /\ [][Next]_vars

-----------------------------------------------------------------------------
(* Types; stored_networks never holds more than its array has room for.    *)
SettingsTypeOK ==
  /\ nvs \in Ppms \cup {Invalid} /\ file \in Images \cup {NoFile, Broken}
  /\ others \in {"none", "broken", "user", "backup"}
  /\ core \in Ppms /\ settings \in Settings /\ nets \subseteq Ssids
  /\ Cardinality(nets) <= MAX_WIFI_NETWORKS
  /\ boot \in Phases /\ pc \in Writes
  /\ then \in {"boot", "serve", "restart", "restore", "said ok"}
  /\ answer \in {"none", "booted", "stored", "ok", "error", "refused"}
  /\ asked \in Ssids \cup {NoNet} /\ {due, behind, short, wiped} \subseteq BOOLEAN
  /\ mishaps \in 0 .. MaxMishaps

(* Wherever the last reset cut the device off, it comes up with a settings *)
(* file that parses and runs with exactly what that file holds, except a   *)
(* power the radio cannot give (load_runtime_settings, setup).  Only the   *)
(* defaults setup writes itself may be cut short without its notice.       *)
BootedAsStored ==
  boot = "run" /\ answer = "booted" /\ ~short =>
    Readable /\ nets = file.nets /\ settings = [file.set EXCEPT !.power = "usual"]

(* The calibration of the radio outlives what happens to the settings      *)
(* file: a save cut off or short, a half restored backup, a reset.  A      *)
(* write NVS refused is not known to the next boot, and after a factory    *)
(* reset the documents promise the opposite (FactoryResetClears).          *)
CalibrationKept ==
  boot = "run" /\ answer = "booted" /\ nvs # 0 /\ ~behind /\ ~wiped => settings.ppm = nvs

(* What USER_GUIDE.md and AT_COMMANDS.md say of a factory reset: no        *)
(* setting survives it.  perform_factory_reset leaves NVS as it is, and    *)
(* the calibration in it comes back.                                       *)
FactoryResetClears ==
  boot = "run" /\ answer = "booted" /\ wiped => settings.ppm = 0

(* RAM and the images in flash: typed, never more networks than the array  *)
(* holds, and the calibration of NVS in force after every start.           *)
SettingsInv == SettingsTypeOK /\ CalibrationKept

(* Only a command of the user replaces a calibration in NVS: setup never   *)
(* does, whatever it finds, and import_user_backup takes the one of the    *)
(* backup only where there is none.                                        *)
CalibrationOnlyByUser ==
  [][nvs \notin {0, Invalid} /\ nvs' \in Ppms \ {nvs} /\ ~behind =>
       boot = "run" /\ then # "restore"]_vars

(* A caller who is told that the settings are stored can rely on it: the   *)
(* file holds what the device runs with, and the network that was asked    *)
(* for is in it.  The one exception is a save cut short, which             *)
(* save_runtime_settings takes for a whole one.                            *)
AnswerStored ==
  answer = "stored" /\ pc \in {"idle", "reset"} /\ ~short =>
    file = Image /\ (asked # NoNet => asked \in file.nets)
=============================================================================
