------------------------------ MODULE KeySettings ------------------------------
(***************************************************************************)
(* The key bindings of the game: InputMap (which key an action has and the *)
(* file it is kept in), KeySettingOverlay (the panel that edits it) and    *)
(* what App does with both: it opens and closes the panel, writes the file *)
(* when asked to and reads it when the game starts.                        *)
(*                                                                         *)
(* One step is one frame with one input.  The edits act on the bindings    *)
(* the game uses, at once; the baseline is the copy they are compared with.*)
(* Left out: where cells, chips and buttons are (a click is said to hit    *)
(* one) and everything drawn.                                              *)
(***************************************************************************)
EXTENDS Naturals

CONSTANTS
  ActionCount,     \* the actions are numbered, as in the enum
  Key,             \* the assignable keys
  LAlt, NoKey,
  Absent, Broken,  \* no file; a file Load refuses
  MaxFailures      \* bounds the writes that go wrong

VARIABLES
  running,         \* the game's process
  bind,            \* App::m_bindings
  base,            \* m_baseline
  visible,         \* m_visible
  confirm,         \* m_confirmClose
  carried,         \* m_carried, NoAction if there is none
  from,            \* m_carriedFrom
  enabled,         \* the buttons Save and Revert, which agree
  disk,            \* what Load makes of the file
  swapped,         \* history: the carried action was pushed off its key
  failed,          \* history: the last write of this process went wrong
  failures

files == <<disk, failed, failures>>
carry == <<carried, from, swapped>>
vars == <<running, bind, base, visible, confirm, enabled, carry, files>>

Action == 1..ActionCount
NoAction == 0
Jump == 1
Bindings == [Action -> Key \cup {NoKey}]

ASSUME KeyAssumption ==
  /\ ActionCount \in Nat \ {0} /\ LAlt \in Key /\ NoKey \notin Key
  /\ {Absent, Broken} \cap Bindings = {}
  /\ MaxFailures \in Nat

-----------------------------------------------------------------------------
(* InputMap.                                                               *)

Defaults == [a \in Action |-> IF a = Jump THEN LAlt ELSE NoKey]

Bind(b, a, k) ==
  [c \in Action |-> IF c = a THEN k ELSE IF b[c] = k THEN NoKey ELSE b[c]]
Unbind(b, a) == [b EXCEPT ![a] = NoKey]

Free(b, k) == \A a \in Action : b[a] # k

\* A file that ends early: the actions before the end are read, since END is
\* not required, unless it ends in the header or before a key.
CutFiles(b) ==
  {Broken} \cup {[a \in Action |-> IF a <= n THEN b[a] ELSE NoKey] : n \in 0..ActionCount}

\* Save, of which App ignores the result: the file is not opened or cut.
Save(b) ==
  \/ disk' = b /\ failed' = FALSE /\ UNCHANGED failures
  \/ /\ failures < MaxFailures /\ failures' = failures + 1
     /\ disk' \in {disk} \cup CutFiles(b)
     /\ failed' = TRUE

\* Load, into bindings that hold the defaults.
Loaded == IF disk \in {Absent, Broken} THEN Defaults ELSE disk

-----------------------------------------------------------------------------
(* The panel's helpers.                                                    *)

PutDown == carried' = NoAction /\ from' = NoKey /\ swapped' = FALSE
Carry(a, k, s) == carried' = a /\ from' = k /\ swapped' = s

\* Mutant: what is carried goes to the tray.
Cancelled_Dropped == bind

\* CancelCarry: back to the key it came from, if that is free.
Cancelled ==
  IF carried # NoAction /\ from # NoKey /\ Free(bind, from)
    THEN Bind(bind, carried, from) ELSE bind

IsDirty == bind # base
InTray(a) == bind[a] = NoKey /\ carried # a

\* The buttons are looked at only while nothing is carried: what is carried
\* has no key for a while, and would count as a change.
Buttons == IF carried = NoAction THEN IsDirty ELSE enabled

Panel == running /\ visible
Editing == Panel /\ ~confirm /\ enabled' = Buttons
Stays == UNCHANGED <<running, visible, confirm>>

-----------------------------------------------------------------------------
(* Frames with the panel: App::Frame, KeySettingOverlay::Update.           *)

\* The key \
Open ==
  /\ running /\ ~visible
  /\ base' = bind
  /\ visible' = TRUE /\ confirm' = FALSE /\ enabled' = FALSE
  /\ PutDown
  /\ UNCHANGED <<running, bind, files>>

\* The key \, Escape, or the button: closes, or asks if there are changes.
AskClose ==
  /\ Panel /\ ~confirm
  /\ bind' = Cancelled
  /\ PutDown
  /\ IF Cancelled # base THEN confirm' = TRUE /\ UNCHANGED visible
     ELSE visible' = FALSE /\ UNCHANGED confirm
  /\ enabled' \in {enabled, Buttons}
  /\ UNCHANGED <<running, base, files>>

ConfirmSave ==
  /\ Panel /\ confirm
  /\ base' = bind
  /\ Save(bind)
  /\ visible' = FALSE /\ confirm' = FALSE
  /\ UNCHANGED <<running, bind, enabled, carry>>

\* The button Cancel, or \ or Escape a second time.
ConfirmRevert ==
  /\ Panel /\ confirm
  /\ bind' = base
  /\ PutDown
  /\ visible' = FALSE /\ confirm' = FALSE
  /\ UNCHANGED <<running, base, enabled, files>>

\* Mutant: the file gets the bindings without what is carried.
SaveButton_Carrying ==
  /\ Editing /\ Buttons
  /\ Save(bind)
  /\ bind' = Cancelled /\ base' = Cancelled
  /\ PutDown /\ Stays

SaveButton ==
  /\ Editing /\ Buttons
  /\ bind' = Cancelled /\ base' = Cancelled
  /\ Save(Cancelled)
  /\ PutDown /\ Stays

RevertButton ==
  /\ Editing /\ Buttons
  /\ bind' = base
  /\ PutDown /\ Stays
  /\ UNCHANGED <<base, files>>

ResetButton ==
  /\ Editing
  /\ bind' = Defaults
  /\ PutDown /\ Stays
  /\ UNCHANGED <<base, files>>

\* A right click, or a left click beside the keys: what is carried goes back.
CancelClick ==
  /\ Editing /\ carried # NoAction
  /\ bind' = Cancelled
  /\ PutDown /\ Stays
  /\ UNCHANGED <<base, files>>

\* A right click on a key
UnbindClick ==
  /\ Editing /\ carried = NoAction
  /\ \E a \in Action : bind[a] # NoKey /\ bind' = Unbind(bind, a)
  /\ Stays /\ UNCHANGED <<base, carry, files>>

\* A left click on a key puts down what is carried; what was there is now
\* carried and has no key to go back to.
PlaceClick ==
  /\ Editing /\ carried # NoAction
  /\ \E k \in Key :
       /\ bind' = Bind(bind, carried, k)
       /\ \/ Free(bind, k) /\ PutDown
          \/ \E a \in Action : bind[a] = k /\ Carry(a, NoKey, TRUE)
  /\ Stays /\ UNCHANGED <<base, files>>

\* Mutant: the action that is picked keeps its key.
PickFromKey_Copies ==
  /\ Editing /\ carried = NoAction
  /\ \E a \in Action : bind[a] # NoKey /\ Carry(a, bind[a], FALSE)
  /\ Stays /\ UNCHANGED <<bind, base, files>>

PickFromKey ==
  /\ Editing /\ carried = NoAction
  /\ \E a \in Action :
       bind[a] # NoKey /\ bind' = Unbind(bind, a) /\ Carry(a, bind[a], FALSE)
  /\ Stays /\ UNCHANGED <<base, files>>

PickFromTray ==
  /\ Editing /\ carried = NoAction
  /\ \E a \in Action : InTray(a) /\ Carry(a, NoKey, FALSE)
  /\ Stays /\ UNCHANGED <<bind, base, files>>

\* A frame without input, or with a click that hits nothing.
Look ==
  /\ Editing
  /\ Stays /\ UNCHANGED <<bind, base, carry, files>>

-----------------------------------------------------------------------------
(* The game: Escape without the panel, the menu and the cross end it; the  *)
(* next one reads the file.                                                *)

Quit ==
  /\ running /\ running' = FALSE
  /\ UNCHANGED <<bind, base, visible, confirm, enabled, carry, files>>

Boot ==
  /\ ~running /\ running' = TRUE
  /\ bind' = Loaded /\ base' = Defaults
  /\ visible' = FALSE /\ confirm' = FALSE /\ enabled' = TRUE
  /\ PutDown
  /\ failed' = FALSE
  /\ UNCHANGED <<disk, failures>>

Init ==
  /\ running = TRUE
  /\ bind = Defaults /\ base = Defaults
  /\ visible = FALSE /\ confirm = FALSE /\ enabled = TRUE
  /\ carried = NoAction /\ from = NoKey /\ swapped = FALSE
  /\ disk = Absent /\ failed = FALSE /\ failures = 0

Next ==
  \/ Open \/ AskClose \/ ConfirmSave \/ ConfirmRevert
  \/ SaveButton \/ RevertButton \/ ResetButton
  \/ CancelClick \/ UnbindClick \/ PlaceClick \/ PickFromKey \/ PickFromTray
  \/ Look \/ Quit \/ Boot

Spec == Init /\ [][Next]_vars

-----------------------------------------------------------------------------
TypeOK ==
  /\ running \in BOOLEAN /\ visible \in BOOLEAN /\ confirm \in BOOLEAN
  /\ enabled \in BOOLEAN /\ swapped \in BOOLEAN /\ failed \in BOOLEAN
  /\ bind \in Bindings /\ base \in Bindings
  /\ carried \in Action \cup {NoAction} /\ from \in Key \cup {NoKey}
  /\ disk \in Bindings \cup {Absent, Broken}
  /\ failures \in 0..MaxFailures

OneToOne(b) ==
  \A a, c \in Action : b[a] # NoKey /\ b[a] = b[c] => a = c

\* InputMap.h, "one key, one action", and the panel's own promise that an
\* action is on a key, in the tray or at the mouse, never at two places:
\* through every sequence of swaps, cancelled moves and resets.
ActionsOnce ==
  /\ OneToOne(bind)
  /\ carried # NoAction => bind[carried] = NoKey
  /\ from # NoKey => carried # NoAction /\ Free(bind, from)

\* What the player uses after the panel is closed is what the next game
\* starts with, however it was closed (saved, reverted, nothing changed, in
\* the middle of a move), unless the last write went wrong.
SettingsKept ==
  running /\ ~visible /\ ~failed => bind = Loaded

\* The baseline is what was saved last; closed without it, it is not used.
BaselineIsSaved ==
  /\ OneToOne(base)
  /\ disk \notin {Absent, Broken} => OneToOne(disk)
  /\ running /\ visible /\ ~failed => base = Loaded
  /\ confirm => visible /\ carried = NoAction
  /\ carried # NoAction => visible

\* While an action is carried from its key or the tray, Save and Revert are
\* enabled exactly if putting it back would leave a change.
ButtonsHonest ==
  carried # NoAction /\ ~swapped => enabled = (Cancelled # base)

IInv ==
  /\ TypeOK /\ ActionsOnce /\ SettingsKept /\ BaselineIsSaved /\ ButtonsHonest
================================================================================
