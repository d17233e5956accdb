--------------------------- MODULE SettingsProofs ---------------------------
(***************************************************************************)
(* What module Settings promises for every size of the network table,      *)
(* every set of networks, corrections and settings, every backup and any   *)
(* number of resets and failed writes.                                     *)
(*                                                                         *)
(* None of its four properties is inductive.  PlaceInv says which write    *)
(* the running operation has reached in which phase of setup and what its  *)
(* caller may have been told there, FileInv what the settings file holds   *)
(* between the writes, and PpmInv that NVS, core_config, the file and the  *)
(* settings agree on the calibration unless a write to NVS has failed.     *)
(* The handlers differ only in what they put into the settings and the     *)
(* networks: HandlerSteps says once what every one of them leaves alone    *)
(* and where it may lead, and the invariant is kept from that.             *)
(***************************************************************************)
EXTENDS Settings, FiniteSetTheorems, TLAPS

(* Where the running operation stands and what its caller may have been told. *)
PlaceInv ==
  /\ boot \in {"core", "settings"} =>
       pc = "idle" /\ then = "boot" /\ answer = "none" /\ nets = {}
  /\ boot # "run" => asked = NoNet /\ answer \in {"none", "booted"}
  /\ boot = "core" => core = 0
  /\ boot \in {"radio", "recovered"} => pc \in {"idle", "open", "nvs", "json"}
  /\ boot \in {"radio", "recovered"} => then = "boot" \/ (pc = "idle" /\ then = "serve")
  /\ boot = "recovered" /\ answer = "booted" => pc = "idle"
  /\ boot = "run" => then # "boot" /\ (answer = "booted" => pc \in {"idle", "reset"})
  /\ boot = "panic" => pc = "idle"
  /\ pc \in {"open", "nvs", "json", "others", "contents", "assign"} =>
       answer \in {"none", "booted"}
  /\ asked # NoNet => asked \in nets
  /\ boot = "recovered" => settings.power = "usual"

(* The settings file: cut off while it is written, else what was last saved, *)
(* or a part of that which setup has not noticed.                            *)
FileInv ==
  /\ pc \in {"nvs", "json"} => file = Broken
  /\ Readable => Cardinality(file.nets) <= MAX_WIFI_NETWORKS
  /\ boot \in {"radio", "recovered"} /\ answer = "booted" /\ pc = "idle" =>
       short \/ file = Image

(* The calibration, as long as NVS takes what is written to it. *)
PpmInv ==
  /\ boot # "core" => nvs # Invalid
  /\ ~behind /\ nvs \notin {0, Invalid} =>
       /\ boot # "core" => core = nvs
       /\ Readable => file.set.ppm = nvs
       /\ pc = "json" => settings.ppm = nvs
       /\ boot \in {"radio", "recovered"} => settings.ppm = nvs
       /\ then = "restore" /\ pc \in {"open", "nvs"} => settings.ppm = nvs

USE DEF ramVars, flashVars, callVars, Idle, NoFault, Mishap, Fault, KeepRest, KeepFlash, KeepCall,
        KeepRun, Serving, Sets, Begin, Refused, Save

(* The types by what they are about.                                       *)
FlashOK ==
  /\ nvs \in Ppms \cup {Invalid} /\ file \in Images \cup {NoFile, Broken}
  /\ others \in {"none", "broken", "user", "backup"}
RamOK == core \in Ppms /\ settings \in Settings
NetsOK == nets \subseteq Ssids /\ Cardinality(nets) <= MAX_WIFI_NETWORKS
PlaceOK ==
  /\ boot \in Phases /\ pc \in Writes
  /\ then \in {"boot", "serve", "restart", "restore", "said ok"}
  /\ answer \in {"none", "booted", "stored", "ok", "error", "refused"}
  /\ asked \in Ssids \cup {NoNet}
FlagsOK == {due, behind, short, wiped} \subseteq BOOLEAN /\ mishaps \in 0 .. MaxMishaps

Typed == FlashOK /\ RamOK /\ NetsOK /\ PlaceOK /\ FlagsOK
IInv == Typed /\ PlaceInv /\ FileInv /\ PpmInv /\ CalibrationKept /\ BootedAsStored /\ AnswerStored

LEMMA TypesTogether == SettingsTypeOK <=> Typed
  BY DEF SettingsTypeOK, Typed, FlashOK, RamOK, NetsOK, PlaceOK, FlagsOK

-----------------------------------------------------------------------------
(* The images and the table of networks.                                   *)
LEMMA ImageIsReadable ==
  ASSUME RamOK, NetsOK
  PROVE  /\ Image \in Images /\ Image \notin {NoFile, Broken}
         /\ Image.set = settings /\ Image.nets = nets
  BY ImagesAssumption DEF RamOK, NetsOK, Image, Images

(* What a save that was cut short leaves is cut off, or the same settings  *)
(* with fewer networks.                                                    *)
LEMMA PartIsSmaller ==
  ASSUME RamOK, NetsOK, NEW part \in PartOfImage
  PROVE  \/ part = Broken
         \/ /\ part \in Images /\ part \notin {NoFile, Broken}
            /\ part.set = settings
            /\ Cardinality(part.nets) <= MAX_WIFI_NETWORKS
  <1>1. ASSUME NEW some \in SUBSET nets, part = [Image EXCEPT !.nets = some]
        PROVE  /\ part \in Images /\ part.set = settings
               /\ Cardinality(part.nets) <= MAX_WIFI_NETWORKS
    <2>1. part = [set |-> settings, nets |-> some]
      BY <1>1 DEF Image
    <2>2. IsFiniteSet(nets) /\ IsFiniteSet(some)
      BY FS_Subset, SettingsAssumption DEF NetsOK
    <2>3. /\ Cardinality(some) <= Cardinality(nets)
          /\ Cardinality(some) \in Nat /\ Cardinality(nets) \in Nat
      BY <2>2, FS_Subset, FS_CardinalityType
    <2>4. Cardinality(some) <= MAX_WIFI_NETWORKS
      BY <2>3, SettingsAssumption DEF NetsOK
    <2>5. some \in SUBSET Ssids
      BY DEF NetsOK
    <2> QED
      BY <2>1, <2>4, <2>5 DEF Images, RamOK
  <1> QED
    BY <1>1, ImagesAssumption DEF PartOfImage

LEMMA FileIsImage ==
  ASSUME FlashOK, Readable
  PROVE  file.set \in Settings /\ file.nets \subseteq Ssids /\ file = [set |-> file.set, nets |-> file.nets]
  BY DEF FlashOK, Readable, Images

LEMMA NoNets == Cardinality({}) = 0 /\ {} \subseteq Ssids /\ Cardinality({}) <= MAX_WIFI_NETWORKS
  BY FS_EmptySet, SettingsAssumption

LEMMA NetAdded ==
  ASSUME NetsOK, NEW s \in Ssids, Adds(s)
  PROVE  NetsOK'
  <1>1. IsFiniteSet(nets)
    BY FS_Subset, SettingsAssumption DEF NetsOK
  <1>2. CASE s \in nets \/ HasRoom
    <2>1. Cardinality(nets \cup {s}) = IF s \in nets THEN Cardinality(nets) ELSE Cardinality(nets) + 1
      BY <1>1, FS_AddElement
    <2>2. Cardinality(nets) \in Nat
      BY <1>1, FS_CardinalityType
    <2> QED
      BY <1>2, <2>1, <2>2, SettingsAssumption DEF NetsOK, Adds, HasRoom
  <1>3. CASE ~(s \in nets \/ HasRoom)
    BY <1>3 DEF NetsOK, Adds
  <1> QED
    BY <1>2, <1>3

LEMMA NetRemoved ==
  ASSUME NetsOK, NEW s, nets' = nets \ {s}
  PROVE  NetsOK'
  <1>1. IsFiniteSet(nets)
    BY FS_Subset, SettingsAssumption DEF NetsOK
  <1>2. Cardinality(nets \ {s}) <= Cardinality(nets) /\ Cardinality(nets \ {s}) \in Nat
    BY <1>1, FS_Subset, FS_CardinalityType
  <1>3. Cardinality(nets) \in Nat
    BY <1>1, FS_CardinalityType
  <1> QED
    BY <1>2, <1>3, SettingsAssumption DEF NetsOK

(* The settings a handler leaves are of the type, whichever fields it set. *)
LEMMA FieldsSet ==
  ASSUME RamOK, NEW ppm \in Ppms, NEW power \in Powers, NEW d \in Data
  PROVE  /\ [settings EXCEPT !.power = power, !.data = d] \in Settings
         /\ [settings EXCEPT !.ppm = ppm, !.power = "usual"] \in Settings
         /\ [settings EXCEPT !.data = d] \in Settings
         /\ [settings EXCEPT !.ppm = ppm] \in Settings
  BY DEF RamOK, Settings, Powers

LEMMA PowerReplaced ==
  ASSUME RamOK
  PROVE  [settings EXCEPT !.power = "usual"] \in Settings
  BY DEF RamOK, Settings, Powers

-----------------------------------------------------------------------------
(* Where a handler leads, and what it leaves alone.                        *)
Leads ==
  \/ pc' = "open" /\ then' \in {"serve", "restart", "said ok"} /\ answer' = "none"
  \/ pc' = "others" /\ then' \in {"serve", "restore"} /\ answer' = "none"
  \/ pc' = "idle" /\ then' = "serve" /\ answer' \in {"ok", "error", "refused"}
Handled ==
  /\ boot = "run" /\ pc = "idle"
  /\ UNCHANGED <<flashVars, behind, wiped, boot, core, due, short, mishaps>>
  /\ settings' \in Settings /\ NetsOK'
  /\ asked' \in Ssids \cup {NoNet} /\ (asked' # NoNet => asked' \in nets')
  /\ Leads

LEMMA SaveLeads ==
  ASSUME NEW next \in {"serve", "restart", "said ok"}, pc = "idle", Save(next)
  PROVE  Leads
  BY DEF Leads

LEMMA HandlerSteps ==
  ASSUME Typed, Handlers
  PROVE  Handled \/ FactoryReset
  <1> USE DEF Typed, Handled
  <1>0. UNCHANGED nets => NetsOK'
    BY DEF NetsOK
  <1>1. ASSUME NEW s \in Ssids \cup {NoNet}, NEW p \in Powers, NEW d \in Data, SaveConfig(s, p, d)
        PROVE  Handled
    <2>1. NetsOK'
      BY <1>0, <1>1, NetAdded DEF SaveConfig
    <2>2. settings' \in Settings
      BY <1>1, FieldsSet, SettingsAssumption DEF SaveConfig
    <2>3. Leads
      BY <1>1, SaveLeads DEF SaveConfig
    <2> QED
      BY <1>1, <2>1, <2>2, <2>3 DEF SaveConfig
  <1>2. ASSUME NEW p \in Ppms, SaveFlex(p) \/ AtFreqPpm(p)
        PROVE  Handled
    <2>2. settings' \in Settings
      BY <1>2, FieldsSet, SettingsAssumption DEF SaveFlex, AtFreqPpm, Powers
    <2>3. Leads
      BY <1>2, SaveLeads DEF SaveFlex, AtFreqPpm
    <2> QED
      BY <1>0, <1>2, <2>2, <2>3 DEF SaveFlex, AtFreqPpm
  <1>3. ASSUME NEW d \in Data, NEW v \in BOOLEAN, SaveApi(d, v)
        PROVE  Handled
    <2>2. settings' \in Settings
      BY <1>3, FieldsSet, SettingsAssumption DEF SaveApi, Powers
    <2>3. Leads
      <3>1. CASE v
        BY <1>3, <3>1, SaveLeads DEF SaveApi
      <3>2. CASE ~v
        BY <1>3, <3>2 DEF SaveApi, Leads
      <3> QED
        BY <3>1, <3>2
    <2> QED
      BY <1>0, <1>3, <2>2, <2>3 DEF SaveApi
  <1>4. ASSUME NEW d \in Data, SaveGsm(d) \/ GrafanaToggle(d)
        PROVE  Handled
    <2>2. settings' \in Settings
      BY <1>4, FieldsSet, SettingsAssumption DEF SaveGsm, GrafanaToggle, Powers
    <2>3. Leads
      BY <1>4, SaveLeads DEF SaveGsm, GrafanaToggle
    <2> QED
      BY <1>0, <1>4, <2>2, <2>3 DEF SaveGsm, GrafanaToggle
  <1>5. ASSUME NEW s \in Ssids, WifiAdd(s)
        PROVE  Handled
    <2>1. NetsOK'
      BY <1>0, <1>5, NetAdded DEF WifiAdd
    <2>2. settings' \in Settings
      BY <1>5 DEF WifiAdd, RamOK
    <2>3. Leads
      <3>1. CASE Fits(s)
        BY <1>5, <3>1, SaveLeads DEF WifiAdd
      <3>2. CASE ~Fits(s)
        BY <1>5, <3>2 DEF WifiAdd, Leads
      <3> QED
        BY <3>1, <3>2
    <2>4. asked' \in Ssids \cup {NoNet} /\ (asked' # NoNet => asked' \in nets')
      BY <1>5 DEF WifiAdd, Fits, Adds
    <2> QED
      BY <1>5, <2>1, <2>2, <2>3, <2>4 DEF WifiAdd
  <1>6. ASSUME NEW s \in Ssids, WifiDelete(s)
        PROVE  Handled
    <2>1. NetsOK'
      BY <1>6, NetRemoved DEF WifiDelete
    <2>2. settings' \in Settings
      BY <1>6 DEF WifiDelete, RamOK
    <2>3. Leads
      <3>1. CASE s \in nets
        BY <1>6, <3>1, SaveLeads DEF WifiDelete
      <3>2. CASE s \notin nets
        BY <1>6, <3>2 DEF WifiDelete, Leads
      <3> QED
        BY <3>1, <3>2
    <2> QED
      BY <1>6, <2>1, <2>2, <2>3 DEF WifiDelete
  <1>7. ASSUME NEW p \in Powers, NEW d \in Data, AtFlex(p, d)
        PROVE  Handled
    <2>2. settings' \in Settings
      BY <1>7, FieldsSet, SettingsAssumption DEF AtFlex
    <2>3. Leads
      BY <1>7, SaveLeads DEF AtFlex
    <2> QED
      BY <1>0, <1>7, <2>2, <2>3 DEF AtFlex
  <1>8. CASE UploadCert
    BY <1>0, <1>8 DEF UploadCert, RamOK, Leads
  <1>9. CASE Restore
    <2>1. NetsOK'
      BY <1>0, <1>9, SettingsAssumption DEF Restore, NetsOK
    <2> QED
      BY <1>9, <2>1 DEF Restore, RamOK, Leads
  <1> QED
    BY <1>1, <1>2, <1>3, <1>4, <1>5, <1>6, <1>7, <1>8, <1>9 DEF Handlers

(* A reset, however it comes about.                                        *)
LEMMA ResetSteps ==
  ASSUME Crash \/ Update \/ Restart \/ FactoryReset
  PROVE  /\ Reboots /\ behind' = behind /\ short' = FALSE
         /\ wiped' \in {wiped, TRUE}
         /\ \/ UNCHANGED flashVars
            \/ nvs' = Invalid /\ UNCHANGED <<file, others>>
            \/ file' = NoFile /\ others' = "none" /\ UNCHANGED nvs
  BY DEF Crash, Update, Restart, FactoryReset, Reboots

Resets == Crash \/ Update \/ Restart \/ FactoryReset

(* Every step is one of these.                                             *)
LEMMA StepKinds ==
  ASSUME Typed, [Next]_vars
  PROVE  \/ UNCHANGED vars
         \/ Handled \/ Resets
         \/ LoadCore \/ LoadSettings \/ RadioInit \/ RadioRecovered
         \/ OpenFile \/ PutCore \/ WriteJson
         \/ OpenOthers \/ WriteOthers \/ Assign \/ RestoreRestarts
  BY HandlerSteps DEF Next, Steps, Resets

-----------------------------------------------------------------------------
(* Types.                                                                  *)
LEMMA InitTyped == Init => Typed
  <1> SUFFICES ASSUME Init PROVE Typed
    OBVIOUS
  <1>1. FlashOK /\ NetsOK
    BY NoNets DEF Init, FlashOK, NetsOK
  <1>2. RamOK
    BY SettingsAssumption DEF Init, RamOK, Cleared, Settings, Powers
  <1>3. PlaceOK
    BY DEF Init, PlaceOK, Phases, Writes
  <1>4. FlagsOK
    <2>1. 0 \in 0 .. MaxMishaps
      BY SettingsAssumption
    <2> QED
      BY <2>1 DEF Init, FlagsOK
  <1> QED
    BY <1>1, <1>2, <1>3, <1>4 DEF Typed

LEMMA CorrectionsTyped ==
  ASSUME RamOK
  PROVE  Restored(core) \in Ppms /\ Cleared \in Settings /\ Shipped(core) \in Settings
  BY SettingsAssumption DEF RamOK, Restored, Cleared, Shipped, Settings, Powers

LEMMA FlashStays ==
  ASSUME Typed, [Next]_vars
  PROVE  FlashOK'
  <1> USE DEF Typed, FlashOK
  <1>1. CASE UNCHANGED vars \/ Handled
    BY <1>1 DEF vars, Handled
  <1>2. CASE Resets
    BY <1>2, ResetSteps DEF Resets
  <1>3. CASE LoadCore \/ LoadSettings \/ RadioInit \/ RadioRecovered
    BY <1>3, SettingsAssumption DEF LoadCore, LoadSettings, RadioInit, RadioRecovered
  <1>4. CASE OpenFile \/ PutCore \/ WriteJson
    BY <1>4, ImageIsReadable, PartIsSmaller
    DEF OpenFile, PutCore, WriteJson, PpmToStore, RamOK, Settings
  <1>5. CASE OpenOthers \/ WriteOthers \/ Assign \/ RestoreRestarts
    BY <1>5 DEF OpenOthers, WriteOthers, Assign, RestoreRestarts
  <1> QED
    BY <1>1, <1>2, <1>3, <1>4, <1>5, StepKinds

LEMMA RamStays ==
  ASSUME Typed, PlaceInv, FileInv, PpmInv, [Next]_vars
  PROVE  RamOK' /\ NetsOK'
  <1> USE DEF Typed
  <1>0. (UNCHANGED <<settings, core>> => RamOK') /\ (UNCHANGED nets => NetsOK')
    BY DEF RamOK, NetsOK
  <1>1. CASE UNCHANGED vars \/ Handled
    BY <1>0, <1>1 DEF vars, Handled, RamOK
  <1>2. CASE Resets
    BY <1>2, ResetSteps, NoNets, CorrectionsTyped, SettingsAssumption DEF Resets, Reboots, RamOK, NetsOK
  <1>3. CASE LoadCore
    <2>1. nvs # Invalid => [settings EXCEPT !.ppm = nvs] \in Settings
      BY DEF FlashOK, RamOK, Settings
    <2> QED
      BY <1>0, <1>3, <2>1, SettingsAssumption DEF LoadCore, RamOK, FlashOK
  <1>4. CASE LoadSettings
    <2>1. CASE Readable /\ Loaded
      BY <1>4, <2>1, FileIsImage DEF LoadSettings, Loaded, RamOK, NetsOK, FileInv
    <2>2. CASE settings' = Shipped(core) /\ UNCHANGED nets
      BY <1>0, <1>4, <2>2, CorrectionsTyped DEF LoadSettings, RamOK
    <2> QED
      BY <1>4, <2>1, <2>2 DEF LoadSettings
  <1>5. CASE RadioInit \/ RadioRecovered
    BY <1>0, <1>5, PowerReplaced DEF RadioInit, RadioRecovered, RamOK
  <1>6. CASE OpenFile \/ PutCore \/ WriteJson
    BY <1>0, <1>6 DEF OpenFile, PutCore, WriteJson, PpmToStore, RamOK, Settings
  <1>7. CASE Assign
    BY <1>0, <1>7, CorrectionsTyped, SettingsAssumption DEF Assign, RamOK, Settings, Powers
  <1>8. CASE OpenOthers \/ WriteOthers \/ RestoreRestarts
    BY <1>0, <1>8 DEF OpenOthers, WriteOthers, RestoreRestarts
  <1> QED
    BY <1>1, <1>2, <1>3, <1>4, <1>5, <1>6, <1>7, <1>8, StepKinds

LEMMA PlaceStays ==
  ASSUME Typed, [Next]_vars
  PROVE  PlaceOK'
  <1> USE DEF Typed, PlaceOK, Phases, Writes
  <1>1. CASE UNCHANGED vars \/ Handled
    BY <1>1 DEF vars, Handled, Leads
  <1>2. CASE Resets
    BY <1>2, ResetSteps DEF Resets, Reboots
  <1>3. CASE LoadCore \/ LoadSettings \/ RadioInit \/ RadioRecovered
    BY <1>3 DEF LoadCore, LoadSettings, RadioInit, RadioRecovered
  <1>4. CASE OpenFile \/ PutCore \/ WriteJson
    BY <1>4 DEF OpenFile, PutCore, WriteJson, Ends
  <1>5. CASE OpenOthers \/ WriteOthers \/ Assign \/ RestoreRestarts
    BY <1>5 DEF OpenOthers, WriteOthers, OthersFail, Assign, RestoreRestarts
  <1> QED
    BY <1>1, <1>2, <1>3, <1>4, <1>5, StepKinds

LEMMA FlagsStay ==
  ASSUME Typed, [Next]_vars
  PROVE  FlagsOK'
  <1> DEFINE OldFlags == /\ due' = due \/ due' \in BOOLEAN
                         /\ behind' = behind \/ behind' \in BOOLEAN
                         /\ short' = short \/ short' \in BOOLEAN
                         /\ wiped' = wiped \/ wiped' \in BOOLEAN
             Counted == UNCHANGED mishaps \/ Mishap
  <1>0. OldFlags /\ Counted => FlagsOK'
    <2>1. Typed /\ Mishap => mishaps' \in 0 .. MaxMishaps
      BY SettingsAssumption DEF Typed, FlagsOK
    <2>2. {due, behind, short, wiped} \subseteq BOOLEAN /\ mishaps \in 0 .. MaxMishaps
      BY DEF Typed, FlagsOK
    <2> QED
      BY <2>1, <2>2 DEF FlagsOK
  <1>1. CASE UNCHANGED vars \/ Handled
    BY <1>0, <1>1 DEF vars, Handled
  <1>2. CASE Resets
    <2>1. behind' = behind /\ due' = FALSE /\ short' = FALSE /\ wiped' \in {wiped, TRUE}
      BY <1>2, ResetSteps DEF Resets, Reboots
    <2>2. Counted
      BY <1>2 DEF Resets, Crash, Update, Restart, FactoryReset
    <2> QED
      BY <1>0, <2>1, <2>2
  <1>3. CASE LoadCore \/ LoadSettings \/ RadioInit \/ RadioRecovered
    <2>1. Counted
      BY <1>3 DEF LoadCore, LoadSettings, RadioInit, RadioRecovered
    <2>2. due' = due /\ short' = short /\ wiped' = wiped /\ behind' \in {behind, FALSE}
      BY <1>3 DEF LoadCore, LoadSettings, RadioInit, RadioRecovered
    <2> QED
      BY <1>0, <2>1, <2>2
  <1>4. CASE OpenFile \/ PutCore \/ WriteJson
    <2>1. ASSUME NEW ok \in BOOLEAN, Ends(ok) PROVE due' \in BOOLEAN
      BY <2>1, Zenon DEF Ends
    <2>2. due' = due \/ due' \in BOOLEAN
      BY <1>4, <2>1 DEF OpenFile, PutCore, WriteJson
    <2>3. Counted
      BY <1>4 DEF OpenFile, PutCore, WriteJson
    <2>4. behind' \in {behind, FALSE, TRUE} /\ short' \in {short, FALSE, TRUE}
      BY <1>4 DEF OpenFile, PutCore, WriteJson
    <2>5. CASE PutCore
      <3>1. wiped' \in BOOLEAN
        BY <2>5, Zenon DEF PutCore
      <3> QED
        BY <1>0, <2>2, <2>3, <2>4, <3>1
    <2>6. CASE OpenFile \/ WriteJson
      <3>1. wiped' = wiped
        BY <2>6 DEF OpenFile, WriteJson
      <3> QED
        BY <1>0, <2>2, <2>3, <2>4, <3>1
    <2> QED
      BY <1>4, <2>5, <2>6
  <1>5. CASE OpenOthers \/ WriteOthers \/ Assign \/ RestoreRestarts
    BY <1>0, <1>5 DEF OpenOthers, WriteOthers, Assign, RestoreRestarts
  <1> QED
    BY <1>1, <1>2, <1>3, <1>4, <1>5, StepKinds

-----------------------------------------------------------------------------
(* Where the running operation stands.                                     *)
LEMMA PlaceInvStays ==
  ASSUME Typed, PlaceInv, [Next]_vars
  PROVE  PlaceInv'
  <1> USE DEF PlaceInv
  <1>0. settings \in Settings /\ boot \in Phases /\ pc \in Writes
    BY DEF Typed, RamOK, PlaceOK
  <1>1. CASE UNCHANGED vars \/ Handled
    BY <1>1 DEF vars, Handled, Leads
  <1>2. CASE Resets
    BY <1>2, ResetSteps DEF Resets, Reboots
  <1>3. CASE LoadCore
    BY <1>3 DEF LoadCore
  <1>4. CASE LoadSettings
    BY <1>4 DEF LoadSettings
  <1>5. CASE RadioInit \/ RadioRecovered
    BY <1>0, <1>5 DEF RadioInit, RadioRecovered, Settings
  <1>6. CASE OpenFile \/ WriteJson
    BY <1>0, <1>6 DEF OpenFile, WriteJson, Ends, Phases
  <1>7. CASE PutCore
    BY <1>0, <1>7 DEF PutCore, Phases
  <1>8. CASE OpenOthers \/ WriteOthers
    BY <1>0, <1>8 DEF OpenOthers, WriteOthers, OthersFail, Phases
  <1>9. CASE Assign \/ RestoreRestarts
    BY <1>0, <1>9 DEF Assign, RestoreRestarts, Phases
  <1> QED
    BY <1>1, <1>2, <1>3, <1>4, <1>5, <1>6, <1>7, <1>8, <1>9, StepKinds

(* What the settings file holds between the writes.                        *)
LEMMA FileInvStays ==
  ASSUME Typed, PlaceInv, FileInv, [Next]_vars
  PROVE  FileInv'
  <1> USE DEF FileInv, Readable
  <1>1. CASE UNCHANGED vars \/ Handled
    BY <1>1 DEF vars, Handled, Leads, PlaceInv, Image
  <1>2. CASE Resets
    BY <1>2, ResetSteps DEF Resets, Reboots
  <1>3. CASE LoadCore
    BY <1>3 DEF LoadCore, PlaceInv
  <1>4. CASE LoadSettings
    BY <1>4, FileIsImage DEF LoadSettings, Loaded, PlaceInv, Image, Typed, Rewrites
  <1>5. CASE RadioInit \/ RadioRecovered
    BY <1>5 DEF RadioInit, RadioRecovered, PlaceInv
  <1>6. CASE OpenFile
    BY <1>6 DEF OpenFile, PlaceInv, Ends
  <1>7. CASE PutCore
    BY <1>7 DEF PutCore
  <1>8. CASE WriteJson
    <2>1. CASE file' = Image
      BY <1>8, <2>1, ImageIsReadable DEF WriteJson, PlaceInv, Ends, Typed, NetsOK, Image
    <2>2. CASE file' \in PartOfImage /\ short'
      BY <1>8, <2>2, PartIsSmaller DEF WriteJson, PlaceInv, Ends, Typed
    <2>3. CASE UNCHANGED file /\ Ends(FALSE)
      BY <1>8, <2>3 DEF WriteJson, PlaceInv, Ends
    <2> QED
      BY <1>8, <2>1, <2>2, <2>3 DEF WriteJson
  <1>9. CASE OpenOthers \/ WriteOthers \/ Assign \/ RestoreRestarts
    BY <1>9 DEF OpenOthers, WriteOthers, OthersFail, Assign, RestoreRestarts, PlaceInv, Image
  <1> QED
    BY <1>1, <1>2, <1>3, <1>4, <1>5, <1>6, <1>7, <1>8, <1>9, StepKinds

(* The calibration.                                                        *)
LEMMA PpmInvStays ==
  ASSUME Typed, PlaceInv, FileInv, PpmInv, [Next]_vars
  PROVE  PpmInv'
  <1> USE DEF PpmInv, Readable
  <1>0. settings \in Settings /\ core \in Ppms /\ pc \in Writes /\ boot \in Phases
    BY DEF Typed, RamOK, PlaceOK
  <1>1. CASE UNCHANGED vars \/ Handled
    BY <1>1 DEF vars, Handled, Leads
  <1>2. CASE Resets
    BY <1>2, ResetSteps DEF Resets, Reboots
  <1>3. CASE LoadCore
    BY <1>0, <1>3, SettingsAssumption DEF LoadCore, PlaceInv, Settings
  <1>4. CASE LoadSettings
    BY <1>4 DEF LoadSettings, Loaded, PlaceInv, Shipped
  <1>5. CASE RadioInit \/ RadioRecovered
    BY <1>0, <1>5 DEF RadioInit, RadioRecovered, Settings
  <1>6. CASE OpenFile
    BY <1>6 DEF OpenFile, Ends
  <1>7. CASE PutCore
    BY <1>0, <1>7, SettingsAssumption DEF PutCore, PpmToStore, Settings, FileInv, PlaceInv, Phases
  <1>8. CASE WriteJson
    <2>1. \/ file' = Broken \/ UNCHANGED file
          \/ file' \notin {NoFile, Broken} /\ file'.set = settings
      BY <1>8, ImageIsReadable, PartIsSmaller DEF WriteJson, Typed
    <2>2. /\ pc' \in {"idle", "reset"} /\ then' = "serve"
          /\ UNCHANGED <<ramVars, nvs, behind, boot>>
      BY <1>8 DEF WriteJson, Ends
    <2> QED
      BY <1>8, <2>1, <2>2 DEF WriteJson
  <1>9. CASE OpenOthers \/ WriteOthers \/ RestoreRestarts
    BY <1>9 DEF OpenOthers, WriteOthers, OthersFail, RestoreRestarts
  <1>10. CASE Assign
    BY <1>0, <1>10, SettingsAssumption DEF Assign, Restored, PlaceInv, Phases
  <1> QED
    BY <1>1, <1>2, <1>3, <1>4, <1>5, <1>6, <1>7, <1>8, <1>9, <1>10, StepKinds

(* What a boot ends with, and what an answer promises.                     *)
LEMMA CalibrationStays ==
  ASSUME Typed, PlaceInv, PpmInv, CalibrationKept, [Next]_vars
  PROVE  CalibrationKept'
  <1> USE DEF CalibrationKept
  <1>0. settings \in Settings /\ pc \in Writes
    BY DEF Typed, RamOK, PlaceOK
  <1>1. CASE UNCHANGED vars \/ Handled
    BY <1>1 DEF vars, Handled, Leads
  <1>2. CASE Resets
    BY <1>2, ResetSteps DEF Resets, Reboots
  <1>3. CASE LoadCore \/ LoadSettings
    BY <1>3 DEF LoadCore, LoadSettings
  <1>4. CASE RadioInit \/ RadioRecovered
    BY <1>0, <1>4 DEF RadioInit, RadioRecovered, PpmInv, Settings
  <1>5. CASE OpenFile \/ PutCore \/ WriteJson
    BY <1>5 DEF OpenFile, PutCore, WriteJson, Ends, PlaceInv
  <1>6. CASE OpenOthers \/ WriteOthers \/ Assign \/ RestoreRestarts
    BY <1>6 DEF OpenOthers, WriteOthers, OthersFail, Assign, RestoreRestarts, PlaceInv
  <1> QED
    BY <1>1, <1>2, <1>3, <1>4, <1>5, <1>6, StepKinds

LEMMA BootedStays ==
  ASSUME Typed, PlaceInv, FileInv, BootedAsStored, [Next]_vars
  PROVE  BootedAsStored'
  <1> USE DEF BootedAsStored, Readable
  <1>0. settings \in Settings /\ pc \in Writes
    BY DEF Typed, RamOK, PlaceOK
  <1>1. CASE UNCHANGED vars \/ Handled
    BY <1>1 DEF vars, Handled, Leads
  <1>2. CASE Resets
    BY <1>2, ResetSteps DEF Resets, Reboots
  <1>3. CASE LoadCore \/ LoadSettings
    BY <1>3 DEF LoadCore, LoadSettings
  <1>4. CASE RadioInit
    BY <1>4, ImageIsReadable DEF RadioInit, FileInv, Typed
  <1>5. CASE RadioRecovered
    <2>1. settings.power = "usual" => settings = [settings EXCEPT !.power = "usual"]
      BY <1>0 DEF Settings
    <2> QED
      BY <1>5, <2>1, ImageIsReadable DEF RadioRecovered, FileInv, PlaceInv, Typed
  <1>6. CASE OpenFile \/ PutCore \/ WriteJson
    BY <1>6 DEF OpenFile, PutCore, WriteJson, Ends, PlaceInv
  <1>7. CASE OpenOthers \/ WriteOthers \/ Assign \/ RestoreRestarts
    BY <1>7 DEF OpenOthers, WriteOthers, OthersFail, Assign, RestoreRestarts, PlaceInv
  <1> QED
    BY <1>1, <1>2, <1>3, <1>4, <1>5, <1>6, <1>7, StepKinds

LEMMA AnswerStays ==
  ASSUME Typed, PlaceInv, AnswerStored, [Next]_vars
  PROVE  AnswerStored'
  <1> USE DEF AnswerStored, Image
  <1>0. pc \in Writes
    BY DEF Typed, PlaceOK
  <1>1. CASE UNCHANGED vars \/ Handled
    BY <1>1 DEF vars, Handled, Leads
  <1>2. CASE Resets
    BY <1>2, ResetSteps DEF Resets, Reboots
  <1>3. CASE LoadCore \/ LoadSettings
    BY <1>3 DEF LoadCore, LoadSettings, PlaceInv
  <1>4. CASE RadioInit \/ RadioRecovered
    BY <1>4 DEF RadioInit, RadioRecovered, PlaceInv
  <1>5. CASE OpenFile \/ PutCore
    BY <1>5 DEF OpenFile, PutCore, Ends
  <1>6. CASE WriteJson
    <2>1. answer' = "stored" => short' \/ file' = Image
      BY <1>6, Zenon DEF WriteJson, Ends
    <2>2. UNCHANGED <<settings, nets, asked>>
      BY <1>6 DEF WriteJson
    <2> QED
      BY <2>1, <2>2 DEF PlaceInv
  <1>7. CASE OpenOthers \/ WriteOthers \/ Assign \/ RestoreRestarts
    BY <1>7 DEF OpenOthers, WriteOthers, OthersFail, Assign, RestoreRestarts, PlaceInv
  <1> QED
    BY <1>1, <1>2, <1>3, <1>4, <1>5, <1>6, <1>7, StepKinds

-----------------------------------------------------------------------------
LEMMA SettingsInitInv == Init => IInv
  <1> SUFFICES ASSUME Init PROVE IInv
    OBVIOUS
  <1>1. PlaceInv /\ FileInv /\ PpmInv
    BY DEF Init, PlaceInv, FileInv, PpmInv, Readable
  <1>2. CalibrationKept /\ BootedAsStored /\ AnswerStored
    BY DEF Init, CalibrationKept, BootedAsStored, AnswerStored
  <1> QED
    BY <1>1, <1>2, InitTyped DEF IInv

LEMMA SettingsNextInv == IInv /\ [Next]_vars => IInv'
  <1> SUFFICES ASSUME IInv, [Next]_vars PROVE IInv'
    OBVIOUS
  <1> USE DEF IInv
  <1>1. Typed'
    BY FlashStays, RamStays, PlaceStays, FlagsStay DEF Typed
  <1>2. PlaceInv' /\ FileInv' /\ PpmInv'
    BY PlaceInvStays, FileInvStays, PpmInvStays
  <1>3. CalibrationKept' /\ BootedAsStored' /\ AnswerStored'
    BY CalibrationStays, BootedStays, AnswerStays
  <1> QED
    BY <1>1, <1>2, <1>3

LEMMA SettingsAlways == Spec => []IInv
  BY SettingsInitInv, SettingsNextInv, PTL DEF Spec

(* RAM and flash are typed, there are never more networks than the table   *)
(* has room for, and the calibration of NVS is in force after every start  *)
(* that does not follow a factory reset (load_core_config,                 *)
(* load_runtime_settings, setup, the handlers).                            *)
THEOREM SettingsKept == Spec => []SettingsInv
  <1>1. IInv => SettingsInv
    BY TypesTogether DEF IInv, SettingsInv
  <1> QED
    BY <1>1, SettingsAlways, PTL

(* Wherever resets cut the saves off, the device runs with what its        *)
(* settings file holds (save_runtime_settings, load_runtime_settings).     *)
(* The defaults setup writes over a file that does not parse are the only  *)
(* save whose shortness could make it untrue.                              *)
THEOREM BootsAsStored == Spec => []BootedAsStored
  <1>1. IInv => BootedAsStored
    BY DEF IInv
  <1> QED
    BY <1>1, SettingsAlways, PTL

(* An answer that says stored means it, for the network asked for too,     *)
(* unless the save was cut short without notice.                           *)
THEOREM StoredMeansStored == Spec => []AnswerStored
  <1>1. IInv => AnswerStored
    BY DEF IInv
  <1> QED
    BY <1>1, SettingsAlways, PTL

(* Setup and a restored backup never replace a calibration in NVS; only a  *)
(* command of the user does (save_core_config, import_user_backup).        *)
THEOREM CalibrationIsTheUsers == Spec => CalibrationOnlyByUser
  <1> DEFINE Replaced == nvs \notin {0, Invalid} /\ nvs' \in Ppms \ {nvs} /\ ~behind
             ByUser == boot = "run" /\ then # "restore"
  <1>1. ASSUME IInv, [Next]_vars, Replaced
        PROVE  ByUser
    <2>0. nvs \in Ppms \ {0} /\ Invalid \notin Ppms /\ pc \in Writes /\ boot \in Phases
      BY <1>1, SettingsAssumption DEF IInv, Typed, FlashOK, PlaceOK
    <2>1. CASE UNCHANGED vars \/ Handled
      BY <1>1, <2>1 DEF vars, Handled
    <2>2. CASE Resets
      BY <1>1, <2>0, <2>2, ResetSteps DEF Resets
    <2>3. CASE LoadCore \/ LoadSettings \/ RadioInit \/ RadioRecovered
      BY <1>1, <2>3 DEF LoadCore, LoadSettings, RadioInit, RadioRecovered
    <2>4. CASE OpenFile \/ WriteJson
      BY <1>1, <2>4 DEF OpenFile, WriteJson
    <2>5. CASE PutCore
      BY <1>1, <2>0, <2>5 DEF PutCore, PpmToStore, IInv, PlaceInv, PpmInv, Phases
    <2>6. CASE OpenOthers \/ WriteOthers \/ Assign \/ RestoreRestarts
      BY <1>1, <2>6 DEF OpenOthers, WriteOthers, Assign, RestoreRestarts
    <2> QED
      BY <1>1, <2>1, <2>2, <2>3, <2>4, <2>5, <2>6, StepKinds DEF IInv
  <1>2. IInv /\ [Next]_vars => [Replaced => ByUser]_vars
    BY <1>1
  <1> QED
    BY <1>2, SettingsAlways, PTL DEF Spec, CalibrationOnlyByUser
=============================================================================
