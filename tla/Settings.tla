------------------------------- MODULE Settings -------------------------------
(***************************************************************************)
(* The settings screen of cmd/stakewars and the two files it leaves in the *)
(* player's directory: the bridge's credentials, typed or pasted from a    *)
(* clipboard that is read beside the frames (settings.go, bridgeconn       *)
(* config.go), and the keys (controls.go).  The connection itself is in    *)
(* module Connection: every edit here is its Edit.                         *)
(***************************************************************************)
EXTENDS Integers, Sequences

CONSTANTS
  NFields,       \* 5 in the code
  MaxText,       \* the longest text a field takes
  MaxRevision    \* bound: focus and text change so often

ASSUME SettingsAssumption ==
  NFields \in Nat /\ MaxText \in Nat \ {0} /\ MaxRevision \in Nat

Fields   == 0..NFields - 1
NoField  == -1
Networks == {"mainnet", "simnet"}
Texts    == UNION {[1..n -> {"typed", "pasted"}] : n \in 0..MaxText}
Config   == [network : Networks, text : [Fields -> Texts]]

Actions  == {"left", "fire"}
Reserved == {"K"}
Pressed  == {"A", "Space", "K"}
NoAction == "none"
Torn     == [torn |-> "torn"]     \* a file that was cut off
Missing  == [none |-> "none"]

VARIABLES
  form,    \* the screen, and the credentials in it
  keys,    \* the keys in use
  clip,    \* the clipboard's reader, or what it read
  files    \* what the disk holds; own: the window wrote the keys

settingsVars == <<form, keys, clip, files>>

defaultControls == [left |-> "A", fire |-> "Space"]
Defaults == [network |-> "mainnet", text |-> [i \in Fields |-> <<>>]]

(* Without a file all keys are the defaults, as with an empty one. *)
KeyFiles == UNION {[some -> Pressed] : some \in SUBSET Actions}

SettingsTypeOK ==
  /\ form.config \in Config /\ form.focus \in Fields \cup {NoField}
  /\ form.revision \in 0..MaxRevision /\ form.binding \in Actions \cup {NoAction}
  /\ keys \in [Actions -> Pressed] /\ clip.busy \in BOOLEAN
  /\ files.bridge \in Config \cup {Missing, Torn} /\ files.keys \in KeyFiles \cup {Torn}

Filled(config) == \A i \in Fields : config.text[i] # <<>>

ScreenClosed(config) ==
  [up |-> FALSE, open |-> FALSE, tab |-> "bridge", config |-> config, focus |-> NoField,
   revision |-> 0, all |-> FALSE, binding |-> NoAction, wanted |-> FALSE, misplaced |-> FALSE]

NoReader == [busy |-> FALSE, read |-> FALSE, field |-> NoField, revision |-> 0, text |-> <<>>, err |-> FALSE]

SettingsInit ==
  /\ form = ScreenClosed(Defaults) /\ keys = defaultControls /\ clip = NoReader
  /\ \E known \in KeyFiles, saved \in {Missing, [Defaults EXCEPT !.text = [i \in Fields |-> <<"typed">>]]} :
       files = [bridge |-> saved, keys |-> known, own |-> FALSE]

(* wanted (history): the credentials and the focus are still those for      *)
(* which the clipboard was asked.                                          *)
Shows(f) ==
  form' = [f EXCEPT !.wanted = @ /\ f.config = form.config /\ f.focus = form.focus]

-------------------------------------------------------------------------------
(* The window starts, and stops at any moment                              *)

(* loadControls: the file over the defaults. *)
Loaded(f) ==
  [a \in Actions |-> IF a \in DOMAIN f THEN f[a] ELSE defaultControls[a]]

(* No key reserved, none used twice. *)
KeysFit(k) ==
  /\ \A a \in Actions : k[a] \notin Reserved
  /\ \A a, b \in Actions : k[a] = k[b] => a = b

(* loadControls, initSettings: without fit keys the program does not start. *)
WindowStarts ==
  /\ ~form.up /\ files.keys # Torn /\ KeysFit(Loaded(files.keys))
  /\ keys' = Loaded(files.keys) /\ clip' = NoReader
  /\ form' = [ScreenClosed(IF files.bridge \in {Missing, Torn} THEN Defaults ELSE files.bridge)
                EXCEPT !.up = TRUE]
  /\ UNCHANGED files

WindowStops ==
  /\ form.up /\ form' = ScreenClosed(Defaults) /\ clip' = NoReader
  /\ UNCHANGED <<keys, files>>

-------------------------------------------------------------------------------
(* The credentials                                                         *)

AtBridge == form.open /\ form.tab = "bridge"
AtField  == AtBridge /\ form.focus # NoField
Counts   == form.revision < MaxRevision

(* The lobby's button opens the screen; escape and its cross close it.      *)
OpenScreen ==
  /\ form.up /\ Shows([form EXCEPT !.open = ~@, !.binding = NoAction,
                                   !.focus = IF form.open THEN NoField ELSE @])
  /\ UNCHANGED <<keys, clip, files>>

(* pollSession: the room of a new table takes the screen. *)
RoomOpens ==
  /\ form.open /\ Shows([form EXCEPT !.open = FALSE])
  /\ UNCHANGED <<keys, clip, files>>

Tab(tab) ==
  /\ form.open /\ Counts
  /\ Shows([form EXCEPT !.tab = tab, !.binding = NoAction, !.focus = NoField, !.revision = @ + 1])
  /\ UNCHANGED <<keys, clip, files>>

(* A click on a field, or the tabulator. *)
Focus(i) ==
  /\ AtBridge /\ Counts
  /\ Shows([form EXCEPT !.focus = i, !.all = TRUE, !.revision = @ + 1])
  /\ UNCHANGED <<keys, clip, files>>

(* editSetting: refused when it is too long. *)
editSetting(f, text, replace) ==
  LET value == IF replace \/ f.all THEN text ELSE f.config.text[f.focus] \o text
  IN  IF Len(value) > MaxText THEN f
      ELSE [f EXCEPT !.config.text[f.focus] = value, !.all = FALSE, !.revision = @ + 1]

Type ==
  /\ AtField /\ Counts /\ Shows(editSetting(form, <<"typed">>, FALSE))
  /\ UNCHANGED <<keys, clip, files>>

Backspace ==
  LET value == form.config.text[form.focus]
  IN  /\ AtField /\ Counts
      /\ Shows(IF form.all THEN editSetting(form, <<>>, TRUE)
               ELSE IF value = <<>> THEN form
               ELSE editSetting(form, SubSeq(value, 1, Len(value) - 1), TRUE))
      /\ UNCHANGED <<keys, clip, files>>

SelectAll ==
  /\ AtField /\ Shows([form EXCEPT !.all = TRUE])
  /\ UNCHANGED <<keys, clip, files>>

selectBridgeNetwork(n) ==
  /\ AtBridge /\ Counts /\ n # form.config.network
  /\ Shows([form EXCEPT !.config.network = n, !.focus = NoField, !.revision = @ + 1])
  /\ UNCHANGED <<keys, clip, files>>

(* pasteSetting: one reader at a time; it has two seconds.                  *)
pasteSetting ==
  /\ AtField /\ ~clip.busy
  /\ clip' = [busy |-> TRUE, read |-> FALSE, field |-> form.focus, revision |-> form.revision,
              text |-> <<>>, err |-> FALSE]
  /\ form' = [form EXCEPT !.wanted = TRUE]
  /\ UNCHANGED <<keys, files>>

ClipboardRead ==
  /\ clip.busy /\ ~clip.read
  /\ \E n \in {0, 1, MaxText + 1}, err \in BOOLEAN :
       clip' = [clip EXCEPT !.read = TRUE, !.text = [i \in 1..n |-> "pasted"], !.err = err]
  /\ UNCHANGED <<form, keys, files>>

(* Mutant: the field is compared, what became of it is not. *)
AwaitedByField == AtBridge /\ clip.field = form.focus

(* The screen, the field and the revision are those of the request. *)
Awaited == AtBridge /\ clip.field = form.focus /\ clip.revision = form.revision

(* pollSettings: nothing is pasted from a clipboard that could not be read. *)
Paste ==
  /\ clip.read /\ Counts
  /\ LET taken == Awaited /\ ~clip.err
         f     == IF taken THEN editSetting(form, clip.text, TRUE) ELSE form
     IN  form' = [f EXCEPT !.wanted = FALSE, !.misplaced = @ \/ (taken /\ ~form.wanted)]
  /\ clip' = NoReader
  /\ UNCHANGED <<keys, files>>

(* Save: a synchronised temporary file is renamed over the old one; a       *)
(* failure or a stop on the way leaves one or the other.                   *)
Saves(old, new) == {old, new}

Save ==
  /\ AtBridge /\ Filled(form.config)
  /\ \E f \in Saves(files.bridge, form.config) : files' = [files EXCEPT !.bridge = f]
  /\ form' \in {form, ScreenClosed(Defaults)}
  /\ clip' = IF form'.up THEN clip ELSE NoReader
  /\ UNCHANGED keys

-------------------------------------------------------------------------------
(* The keys                                                                *)

ChooseAction(a) ==
  /\ form.open /\ form.tab = "controls" /\ Shows([form EXCEPT !.binding = a])
  /\ UNCHANGED <<keys, clip, files>>

(* Escape leaves the choice of a key before it leaves the screen. *)
LeaveAction ==
  /\ form.binding # NoAction /\ Shows([form EXCEPT !.binding = NoAction])
  /\ UNCHANGED <<keys, clip, files>>

(* updateControls: conflicting actions exchange keys. *)
Bound(action, key) ==
  [a \in Actions |-> IF a = action THEN key ELSE IF keys[a] = key THEN keys[action] ELSE keys[a]]

(* os.WriteFile truncates before it writes: a stop in between tears it, and *)
(* an error may as well; the keys stay in use.                             *)
Bind(key) ==
  /\ form.binding # NoAction /\ key \notin Reserved
  /\ keys' = Bound(form.binding, key)
  /\ \/ files' \in {files, [files EXCEPT !.keys = keys', !.own = TRUE], [files EXCEPT !.keys = Torn]}
        /\ Shows([form EXCEPT !.binding = NoAction]) /\ UNCHANGED clip
     \/ files' = [files EXCEPT !.keys = Torn] /\ form' = ScreenClosed(Defaults) /\ clip' = NoReader

SettingsNext ==
  \/ WindowStarts \/ WindowStops \/ OpenScreen \/ RoomOpens \/ Type \/ Backspace \/ SelectAll
  \/ pasteSetting \/ ClipboardRead \/ Paste \/ Save \/ LeaveAction
  \/ \E t \in {"bridge", "controls"} : Tab(t)
  \/ \E i \in Fields : Focus(i)
  \/ \E n \in Networks : selectBridgeNetwork(n)
  \/ \E a \in Actions : ChooseAction(a)
  \/ \E k \in Pressed : Bind(k)

SettingsSpec == SettingsInit /\ [][SettingsNext]_settingsVars

-------------------------------------------------------------------------------
(* A clipboard that answers late changes only the field it was asked for,   *)
(* and only while neither the focus nor any credential has changed since:   *)
(* never a key over a certificate, or over what was typed meanwhile.       *)
PasteLandsWhereAsked == ~form.misplaced

(* What the window leaves on disk it can start with again: credentials are *)
(* complete whenever the program stops, and keys that it wrote in full are *)
(* fit and are the keys in use.                                            *)
SavedSettingsLoad ==
  /\ files.bridge # Missing => files.bridge # Torn /\ Filled(files.bridge)
  /\ files.own /\ files.keys # Torn => KeysFit(Loaded(files.keys)) /\ Loaded(files.keys) = files.keys

(* What the player pastes, types or binds is what the program holds and     *)
(* finds again after it was stopped at any time (settings.go, config.go).  *)
SettingsAreAsChosen == PasteLandsWhereAsked /\ SavedSettingsLoad
===============================================================================
