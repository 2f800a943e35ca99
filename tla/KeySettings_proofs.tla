-------------------------- MODULE KeySettings_proofs --------------------------
(***************************************************************************)
(* The properties of KeySettings, for any number of actions, every set of  *)
(* keys and any number of failed writes.                                   *)
(***************************************************************************)
EXTENDS KeySettings, TLAPS

USE KeyAssumption DEF KeyAssumption

-----------------------------------------------------------------------------
(* Bindings.                                                               *)

LEMMA Actions == NoAction \notin Action /\ Jump \in Action
BY DEF NoAction, Action, Jump

\* Bindings that InputMap can hold.
Good(b) == b \in Bindings /\ OneToOne(b)

LEMMA DefaultsGood == Good(Defaults)
BY Actions DEF Good, Bindings, OneToOne, Defaults

\* Bind takes the key away from whoever had it.
LEMMA BindGood ==
  ASSUME NEW b, Good(b), NEW a \in Action, NEW k \in Key
  PROVE  /\ Good(Bind(b, a, k)) /\ Bind(b, a, k)[a] = k
         /\ \A c \in Action : c # a => Bind(b, a, k)[c] = IF b[c] = k THEN NoKey ELSE b[c]
BY DEF Good, Bindings, OneToOne, Bind

LEMMA UnbindGood ==
  ASSUME NEW b, Good(b), NEW a \in Action
  PROVE  /\ Good(Unbind(b, a)) /\ Unbind(b, a)[a] = NoKey
         /\ b[a] # NoKey => b[a] \in Key /\ Free(Unbind(b, a), b[a])
         /\ b[a] # NoKey => Bind(Unbind(b, a), a, b[a]) = b
<1>1. /\ Good(Unbind(b, a)) /\ Unbind(b, a)[a] = NoKey
      /\ \A c \in Action : c # a => Unbind(b, a)[c] = b[c]
  BY DEF Good, Bindings, OneToOne, Unbind
<1>2. ASSUME b[a] # NoKey PROVE b[a] \in Key /\ Free(Unbind(b, a), b[a])
  BY <1>1, <1>2 DEF Good, Bindings, OneToOne, Free
<1>3. ASSUME b[a] # NoKey PROVE Bind(Unbind(b, a), a, b[a]) = b
  <2>1. \A c \in Action : Bind(Unbind(b, a), a, b[a])[c] = b[c]
    BY <1>1, <1>2, <1>3 DEF Bind, Free
  <2>2. Good(Bind(Unbind(b, a), a, b[a])) BY <1>1, <1>2, <1>3, BindGood
  <2> QED BY <2>1, <2>2 DEF Good, Bindings
<1> QED BY <1>1, <1>2, <1>3

\* A part of a file has no key twice either.
LEMMA CutGood ==
  ASSUME NEW b, Good(b), NEW d \in CutFiles(b)
  PROVE  d = Broken \/ Good(d)
BY DEF Good, Bindings, OneToOne, CutFiles

-----------------------------------------------------------------------------
(* What is on the disk and at the mouse.                                   *)

DiskGood ==
  /\ disk \in Bindings \cup {Absent, Broken}
  /\ disk \in Bindings => OneToOne(disk)

LEMMA LoadedGood == DiskGood => Good(Loaded)
BY DefaultsGood DEF DiskGood, Good, Loaded

LEMMA SaveGood ==
  ASSUME NEW b, Good(b), DiskGood, Save(b)
  PROVE  DiskGood' /\ failed' \in BOOLEAN /\ (~failed' => Loaded' = b)
<1>1. CASE disk' = b /\ failed' = FALSE
  BY <1>1 DEF Good, DiskGood, Loaded
<1>2. CASE disk' \in {disk} \cup CutFiles(b) /\ failed' = TRUE
  BY <1>2, CutGood DEF Good, DiskGood
<1> QED BY <1>1, <1>2 DEF Save

LEMMA SaveBounded ==
  ASSUME NEW b, Save(b), failures \in 0..MaxFailures PROVE failures' \in 0..MaxFailures
BY DEF Save

\* The parts of the invariant the bindings and what is carried depend on.
Hands ==
  /\ Good(bind) /\ carried \in Action \cup {NoAction} /\ from \in Key \cup {NoKey}
  /\ ActionsOnce

LEMMA CancelledGood == Hands => Good(Cancelled)
BY BindGood DEF Hands, Cancelled

LEMMA Parts == IInv => DiskGood /\ Hands /\ Good(base)
BY DEF IInv, TypeOK, ActionsOnce, BaselineIsSaved, DiskGood, Hands, Good

-----------------------------------------------------------------------------
(* The steps.                                                              *)

Flags ==
  /\ running \in BOOLEAN /\ visible \in BOOLEAN /\ confirm \in BOOLEAN
  /\ enabled \in BOOLEAN /\ swapped \in BOOLEAN /\ failed \in BOOLEAN

\* The Boolean state.
LEMMA FlagsKept == IInv /\ [Next]_vars => Flags'
<1> SUFFICES ASSUME IInv, [Next]_vars PROVE Flags'
  OBVIOUS
<1> USE DEF Flags, IInv, TypeOK, PutDown, Carry, Stays, Editing, Panel, Buttons,
            IsDirty, carry, files
<1>a. DiskGood /\ Hands /\ Good(base) BY Parts
<1>b. Good(Cancelled) /\ Good(Loaded) /\ Good(Defaults)
  BY <1>a, CancelledGood, LoadedGood, DefaultsGood
<1>0. CASE UNCHANGED vars BY <1>0 DEF vars, carry, files
<1>1. CASE Open BY <1>1 DEF Open
<1>2. CASE AskClose BY <1>2 DEF AskClose
<1>3. CASE ConfirmSave BY <1>a, <1>b, <1>3, SaveGood DEF ConfirmSave, Hands
<1>4. CASE ConfirmRevert BY <1>4 DEF ConfirmRevert
<1>5. CASE SaveButton BY <1>a, <1>b, <1>5, SaveGood DEF SaveButton
<1>6. CASE RevertButton BY <1>6 DEF RevertButton
<1>7. CASE ResetButton BY <1>7 DEF ResetButton
<1>8. CASE CancelClick BY <1>8 DEF CancelClick
<1>9. CASE UnbindClick BY <1>9 DEF UnbindClick
<1>10. CASE PlaceClick BY <1>10 DEF PlaceClick
<1>11. CASE PickFromKey BY <1>11 DEF PickFromKey
<1>12. CASE PickFromTray BY <1>12 DEF PickFromTray
<1>13. CASE Look BY <1>13 DEF Look
<1>14. CASE Quit BY <1>14 DEF Quit
<1>15. CASE Boot BY <1>15 DEF Boot
<1> QED
  BY <1>0, <1>1, <1>2, <1>3, <1>4, <1>5, <1>6, <1>7, <1>8, <1>9, <1>10, <1>11,
     <1>12, <1>13, <1>14, <1>15
  DEF Next

\* The bound on failed writes.
LEMMA FailuresKept ==
  failures \in 0..MaxFailures /\ [Next]_vars => (failures \in 0..MaxFailures)'
<1> SUFFICES ASSUME failures \in 0..MaxFailures, [Next]_vars
             PROVE  (failures \in 0..MaxFailures)'
  OBVIOUS
<1> USE DEF files
<1>0. CASE UNCHANGED vars BY <1>0 DEF vars, carry, files
<1>1. CASE Open BY <1>1 DEF Open
<1>2. CASE AskClose BY <1>2 DEF AskClose
<1>3. CASE ConfirmSave BY <1>3, SaveBounded DEF ConfirmSave
<1>4. CASE ConfirmRevert BY <1>4 DEF ConfirmRevert
<1>5. CASE SaveButton BY <1>5, SaveBounded DEF SaveButton
<1>6. CASE RevertButton BY <1>6 DEF RevertButton
<1>7. CASE ResetButton BY <1>7 DEF ResetButton
<1>8. CASE CancelClick BY <1>8 DEF CancelClick
<1>9. CASE UnbindClick BY <1>9 DEF UnbindClick
<1>10. CASE PlaceClick BY <1>10 DEF PlaceClick
<1>11. CASE PickFromKey BY <1>11 DEF PickFromKey
<1>12. CASE PickFromTray BY <1>12 DEF PickFromTray
<1>13. CASE Look BY <1>13 DEF Look
<1>14. CASE Quit BY <1>14 DEF Quit
<1>15. CASE Boot BY <1>15 DEF Boot
<1> QED
  BY <1>0, <1>1, <1>2, <1>3, <1>4, <1>5, <1>6, <1>7, <1>8, <1>9, <1>10, <1>11,
     <1>12, <1>13, <1>14, <1>15
  DEF Next

\* The file.
LEMMA DiskKept == IInv /\ [Next]_vars => DiskGood'
<1> SUFFICES ASSUME IInv, [Next]_vars PROVE DiskGood'
  OBVIOUS
<1> USE DEF files
<1>a. DiskGood /\ Hands /\ Good(base) BY Parts
<1>b. Good(Cancelled) /\ Good(Loaded) /\ Good(Defaults)
  BY <1>a, CancelledGood, LoadedGood, DefaultsGood
<1>0. CASE UNCHANGED vars BY <1>a, <1>0 DEF DiskGood, vars
<1>1. CASE Open BY <1>a, <1>1 DEF DiskGood, Open
<1>2. CASE AskClose BY <1>a, <1>2 DEF DiskGood, AskClose
<1>3. CASE ConfirmSave BY <1>a, <1>b, <1>3, SaveGood DEF ConfirmSave, Hands
<1>4. CASE ConfirmRevert BY <1>a, <1>4 DEF DiskGood, ConfirmRevert
<1>5. CASE SaveButton BY <1>a, <1>b, <1>5, SaveGood DEF SaveButton
<1>6. CASE RevertButton BY <1>a, <1>6 DEF DiskGood, RevertButton
<1>7. CASE ResetButton BY <1>a, <1>7 DEF DiskGood, ResetButton
<1>8. CASE CancelClick BY <1>a, <1>8 DEF DiskGood, CancelClick
<1>9. CASE UnbindClick BY <1>a, <1>9 DEF DiskGood, UnbindClick
<1>10. CASE PlaceClick BY <1>a, <1>10 DEF DiskGood, PlaceClick
<1>11. CASE PickFromKey BY <1>a, <1>11 DEF DiskGood, PickFromKey
<1>12. CASE PickFromTray BY <1>a, <1>12 DEF DiskGood, PickFromTray
<1>13. CASE Look BY <1>a, <1>13 DEF DiskGood, Look
<1>14. CASE Quit BY <1>a, <1>14 DEF DiskGood, Quit
<1>15. CASE Boot BY <1>a, <1>15 DEF DiskGood, Boot
<1> QED
  BY <1>0, <1>1, <1>2, <1>3, <1>4, <1>5, <1>6, <1>7, <1>8, <1>9, <1>10, <1>11,
     <1>12, <1>13, <1>14, <1>15
  DEF Next

\* The baseline.
LEMMA BaseKept == IInv /\ [Next]_vars => Good(base)'
<1> SUFFICES ASSUME IInv, [Next]_vars PROVE Good(base)'
  OBVIOUS
<1> USE DEF Stays, carry, files
<1>a. DiskGood /\ Hands /\ Good(base) BY Parts
<1>b. Good(Cancelled) /\ Good(Loaded) /\ Good(Defaults)
  BY <1>a, CancelledGood, LoadedGood, DefaultsGood
<1>0. CASE UNCHANGED vars BY <1>a, <1>0 DEF Good, vars
<1>1. CASE Open BY <1>a, <1>1 DEF Good, Hands, Open
<1>2. CASE AskClose BY <1>a, <1>b, <1>2 DEF Good, AskClose
<1>3. CASE ConfirmSave BY <1>a, <1>3 DEF Good, Hands, ConfirmSave
<1>4. CASE ConfirmRevert BY <1>a, <1>b, <1>4 DEF Good, ConfirmRevert
<1>5. CASE SaveButton BY <1>a, <1>b, <1>5 DEF Good, SaveButton
<1>6. CASE RevertButton BY <1>a, <1>b, <1>6 DEF Good, RevertButton
<1>7. CASE ResetButton BY <1>a, <1>b, <1>7 DEF Good, ResetButton
<1>8. CASE CancelClick BY <1>a, <1>b, <1>8 DEF Good, CancelClick
<1>9. CASE UnbindClick BY <1>a, <1>b, <1>9 DEF Good, UnbindClick
<1>10. CASE PlaceClick BY <1>a, <1>b, <1>10 DEF Good, PlaceClick
<1>11. CASE PickFromKey BY <1>a, <1>b, <1>11 DEF Good, PickFromKey
<1>12. CASE PickFromTray BY <1>a, <1>b, <1>12 DEF Good, PickFromTray
<1>13. CASE Look BY <1>a, <1>b, <1>13 DEF Good, Look
<1>14. CASE Quit BY <1>a, <1>b, <1>14 DEF Good, Quit
<1>15. CASE Boot BY <1>a, <1>b, <1>15 DEF Good, Boot
<1> QED
  BY <1>0, <1>1, <1>2, <1>3, <1>4, <1>5, <1>6, <1>7, <1>8, <1>9, <1>10, <1>11,
     <1>12, <1>13, <1>14, <1>15
  DEF Next

\* Whoever holds nothing is at rest.
LEMMA EmptyHands == Good(bind) /\ carried = NoAction /\ from = NoKey => Hands
BY DEF Hands, Good, ActionsOnce

\* ActionsOnce, with the types it needs.
LEMMA HandsKept == IInv /\ [Next]_vars => Hands'
<1> SUFFICES ASSUME IInv, [Next]_vars PROVE Hands'
  OBVIOUS
<1> USE DEF PutDown, carry, files
<1>a. DiskGood /\ Hands /\ Good(base) BY Parts
<1>b. Good(Cancelled) /\ Good(Loaded) /\ Good(Defaults)
  BY <1>a, CancelledGood, LoadedGood, DefaultsGood
<1>0. CASE UNCHANGED vars BY <1>a, <1>0 DEF vars, carry, Hands, Good, ActionsOnce, Free
<1>1. CASE Open
  <2>1. Good(bind)' BY <1>a, <1>b, <1>1 DEF Good, Open, Hands
  <2>2. (carried = NoAction /\ from = NoKey)' BY <1>1 DEF Open
  <2> QED BY <2>1, <2>2, EmptyHands, PTL
<1>2. CASE AskClose
  <2>1. Good(bind)' BY <1>a, <1>b, <1>2 DEF Good, AskClose, Hands
  <2>2. (carried = NoAction /\ from = NoKey)' BY <1>2 DEF AskClose
  <2> QED BY <2>1, <2>2, EmptyHands, PTL
<1>3. CASE ConfirmSave BY <1>a, <1>3 DEF ConfirmSave, Hands, Good, ActionsOnce, Free
<1>4. CASE ConfirmRevert
  <2>1. Good(bind)' BY <1>a, <1>b, <1>4 DEF Good, ConfirmRevert, Hands
  <2>2. (carried = NoAction /\ from = NoKey)' BY <1>4 DEF ConfirmRevert
  <2> QED BY <2>1, <2>2, EmptyHands, PTL
<1>5. CASE SaveButton
  <2>1. Good(bind)' BY <1>a, <1>b, <1>5 DEF Good, SaveButton, Hands
  <2>2. (carried = NoAction /\ from = NoKey)' BY <1>5 DEF SaveButton
  <2> QED BY <2>1, <2>2, EmptyHands, PTL
<1>6. CASE RevertButton
  <2>1. Good(bind)' BY <1>a, <1>b, <1>6 DEF Good, RevertButton, Hands
  <2>2. (carried = NoAction /\ from = NoKey)' BY <1>6 DEF RevertButton
  <2> QED BY <2>1, <2>2, EmptyHands, PTL
<1>7. CASE ResetButton
  <2>1. Good(bind)' BY <1>a, <1>b, <1>7 DEF Good, ResetButton, Hands
  <2>2. (carried = NoAction /\ from = NoKey)' BY <1>7 DEF ResetButton
  <2> QED BY <2>1, <2>2, EmptyHands, PTL
<1>8. CASE CancelClick
  <2>1. Good(bind)' BY <1>a, <1>b, <1>8 DEF Good, CancelClick, Hands
  <2>2. (carried = NoAction /\ from = NoKey)' BY <1>8 DEF CancelClick
  <2> QED BY <2>1, <2>2, EmptyHands, PTL
<1>9. CASE UnbindClick
  <2>1. PICK a \in Action : bind' = Unbind(bind, a) BY <1>9 DEF UnbindClick
  <2>2. Good(bind)' BY <1>a, <2>1, UnbindGood DEF Hands, Good
  <2>3. (carried = NoAction /\ from = NoKey)'
    BY <1>a, <1>9 DEF UnbindClick, Hands, ActionsOnce
  <2> QED BY <2>2, <2>3, EmptyHands, PTL
<1>10. CASE PlaceClick
  <2> DEFINE new(k) == Bind(bind, carried, k)
  <2>1. carried \in Action /\ bind[carried] = NoKey
    BY <1>a, <1>10 DEF PlaceClick, Hands, ActionsOnce
  <2>2. PICK k \in Key :
          /\ bind' = new(k)
          /\ \/ Free(bind, k) /\ PutDown
             \/ \E a \in Action : bind[a] = k /\ Carry(a, NoKey, TRUE)
    BY <1>10 DEF PlaceClick
  <2>a. Good(bind) BY <1>a DEF Hands
  <2>3. Good(new(k)) /\ \A c \in Action : c # carried /\ bind[c] = k => new(k)[c] = NoKey
    BY <2>a, <2>1, BindGood
  <2>4. CASE PutDown BY <2>2, <2>3, <2>4, EmptyHands DEF PutDown, Hands, Good, ActionsOnce
  <2>5. ASSUME NEW a \in Action, bind[a] = k, Carry(a, NoKey, TRUE) PROVE Hands'
    <3>1. a # carried BY <2>1, <2>5
    <3>2. bind'[a] = NoKey BY <2>2, <2>3, <2>5, <3>1
    <3> QED BY <2>2, <2>3, <2>5, <3>2 DEF Carry, Hands, Good, ActionsOnce
  <2> QED BY <2>2, <2>4, <2>5
<1>11. CASE PickFromKey
  <2>1. PICK a \in Action :
          bind[a] # NoKey /\ bind' = Unbind(bind, a) /\ Carry(a, bind[a], FALSE)
    BY <1>11 DEF PickFromKey
  <2>2. /\ Good(bind') /\ bind'[a] = NoKey
        /\ bind[a] \in Key /\ Free(bind', bind[a])
    BY <1>a, <2>1, UnbindGood DEF Hands
  <2> QED BY <2>1, <2>2, Actions DEF Carry, Hands, Good, ActionsOnce, Free
<1>12. CASE PickFromTray
  BY <1>a, <1>12 DEF PickFromTray, Carry, InTray, Hands, Good, ActionsOnce
<1>13. CASE Look BY <1>a, <1>13 DEF Look, Hands, Good, ActionsOnce, Free
<1>14. CASE Quit BY <1>a, <1>14 DEF Quit, Hands, Good, ActionsOnce, Free
<1>15. CASE Boot
  <2>1. Good(bind)' BY <1>a, <1>b, <1>15 DEF Good, Boot, Hands
  <2>2. (carried = NoAction /\ from = NoKey)' BY <1>15 DEF Boot
  <2> QED BY <2>1, <2>2, EmptyHands, PTL
<1> QED
  BY <1>0, <1>1, <1>2, <1>3, <1>4, <1>5, <1>6, <1>7, <1>8, <1>9, <1>10, <1>11,
     <1>12, <1>13, <1>14, <1>15
  DEF Next

\* The game without the panel, the panel, and the dialog.
Panels ==
  /\ SettingsKept
  /\ running /\ visible /\ ~failed => base = Loaded
  /\ confirm => visible /\ carried = NoAction
  /\ carried # NoAction => visible

\* SettingsKept, and what it needs of the baseline.
LEMMA PanelsKept == IInv /\ [Next]_vars => Panels'
<1> SUFFICES ASSUME IInv, [Next]_vars PROVE Panels'
  OBVIOUS
<1> USE DEF Panels, IInv, SettingsKept, BaselineIsSaved, PutDown, Carry, Stays,
            Editing, Panel, carry, files
<1>a. DiskGood /\ Hands /\ Good(base) BY Parts
<1>b. Good(Cancelled) /\ Good(Loaded) /\ Good(Defaults)
  BY <1>a, CancelledGood, LoadedGood, DefaultsGood
<1>0. CASE UNCHANGED vars BY <1>0 DEF vars, Loaded, carry, files
<1>1. CASE Open BY <1>1, <1>a DEF Loaded, Open
<1>2. CASE AskClose BY <1>2, <1>a DEF Loaded, AskClose
<1>3. CASE ConfirmSave
  <2>1. Save(bind) BY <1>3 DEF ConfirmSave
  <2>2. ~failed' => Loaded' = bind BY <1>a, <2>1, SaveGood DEF Hands
  <2>3. /\ bind' = bind /\ visible' = FALSE /\ confirm' = FALSE
        /\ carried' = carried /\ carried = NoAction
    BY <1>3 DEF ConfirmSave
  <2> QED BY <2>2, <2>3
<1>4. CASE ConfirmRevert BY <1>4, <1>a DEF Loaded, ConfirmRevert
<1>5. CASE SaveButton
  <2>1. Save(Cancelled) BY <1>5 DEF SaveButton
  <2>2. ~failed' => Loaded' = Cancelled BY <1>a, <1>b, <2>1, SaveGood
  <2>3. visible' = visible /\ visible /\ ~confirm' /\ base' = Cancelled /\ carried' = NoAction
    BY <1>5 DEF SaveButton
  <2> QED BY <2>2, <2>3
<1>6. CASE RevertButton BY <1>6, <1>a DEF Loaded, RevertButton
<1>7. CASE ResetButton BY <1>7, <1>a DEF Loaded, ResetButton
<1>8. CASE CancelClick BY <1>8, <1>a DEF Loaded, CancelClick
<1>9. CASE UnbindClick BY <1>9, <1>a DEF Loaded, UnbindClick
<1>10. CASE PlaceClick BY <1>10, <1>a DEF Loaded, PlaceClick
<1>11. CASE PickFromKey BY <1>11, <1>a DEF Loaded, PickFromKey
<1>12. CASE PickFromTray BY <1>12, <1>a DEF Loaded, PickFromTray
<1>13. CASE Look BY <1>13, <1>a DEF Loaded, Look
<1>14. CASE Quit BY <1>14, <1>a DEF Loaded, Quit
<1>15. CASE Boot BY <1>15, <1>a DEF Loaded, Boot
<1> QED
  BY <1>0, <1>1, <1>2, <1>3, <1>4, <1>5, <1>6, <1>7, <1>8, <1>9, <1>10, <1>11,
     <1>12, <1>13, <1>14, <1>15
  DEF Next

\* ButtonsHonest. What is picked up and put back leaves the bindings as they were.
LEMMA ButtonsKept == IInv /\ [Next]_vars => ButtonsHonest'
<1> SUFFICES ASSUME IInv, [Next]_vars PROVE ButtonsHonest'
  OBVIOUS
<1>h. ButtonsHonest BY DEF IInv
<1> USE <1>h DEF ButtonsHonest
<1>a. DiskGood /\ Hands /\ Good(base) BY Parts
<1>b. Good(Cancelled) /\ Good(Loaded) /\ Good(Defaults)
  BY <1>a, CancelledGood, LoadedGood, DefaultsGood
<1>0. CASE UNCHANGED vars BY <1>0 DEF vars, carry, Cancelled, Free
<1>1. CASE Open BY <1>1 DEF Open, PutDown
<1>2. CASE AskClose BY <1>2 DEF AskClose, PutDown
<1>3. CASE ConfirmSave BY <1>3 DEF ConfirmSave, IInv, BaselineIsSaved, carry
<1>4. CASE ConfirmRevert BY <1>4 DEF ConfirmRevert, PutDown
<1>5. CASE SaveButton BY <1>5 DEF SaveButton, PutDown
<1>6. CASE RevertButton BY <1>6 DEF RevertButton, PutDown
<1>7. CASE ResetButton BY <1>7 DEF ResetButton, PutDown
<1>8. CASE CancelClick BY <1>8 DEF CancelClick, PutDown
<1>9. CASE UnbindClick BY <1>9 DEF UnbindClick, Editing, carry
<1>10. CASE PlaceClick BY <1>10 DEF PlaceClick, PutDown, Carry
<1>11. CASE PickFromKey
  <2>1. PICK a \in Action :
          bind[a] # NoKey /\ bind' = Unbind(bind, a) /\ Carry(a, bind[a], FALSE)
    BY <1>11 DEF PickFromKey
  <2>2. enabled' = (bind # base) /\ base' = base
    BY <1>11 DEF PickFromKey, Editing, Buttons, IsDirty
  <2>3. Free(Unbind(bind, a), bind[a]) /\ Bind(Unbind(bind, a), a, bind[a]) = bind
    BY <1>a, <2>1, UnbindGood DEF Hands
  <2>4. Cancelled' = bind
    BY <2>1, <2>3, Actions DEF Carry, Cancelled
  <2> QED BY <2>2, <2>4
<1>12. CASE PickFromTray
  BY <1>12 DEF PickFromTray, Carry, Editing, Buttons, IsDirty, Cancelled
<1>13. CASE Look BY <1>13 DEF Look, Editing, Buttons, Cancelled, Free, carry
<1>14. CASE Quit BY <1>14 DEF Quit, Cancelled, Free, carry
<1>15. CASE Boot BY <1>15 DEF Boot, PutDown
<1> QED
  BY <1>0, <1>1, <1>2, <1>3, <1>4, <1>5, <1>6, <1>7, <1>8, <1>9, <1>10, <1>11,
     <1>12, <1>13, <1>14, <1>15
  DEF Next

-----------------------------------------------------------------------------
(* The theorems.                                                           *)

LEMMA IInvInit == Init => IInv
<1> SUFFICES ASSUME Init PROVE IInv OBVIOUS
<1>1. Good(Defaults) BY DefaultsGood
<1>2. TypeOK
  <2>1. failures \in 0..MaxFailures BY DEF Init
  <2> QED BY <1>1, <2>1 DEF Init, TypeOK, Good
<1>3. ActionsOnce /\ SettingsKept
  BY <1>1 DEF Init, Good, ActionsOnce, SettingsKept, Loaded
<1>4. BaselineIsSaved /\ ButtonsHonest
  BY <1>1 DEF Init, Good, BaselineIsSaved, ButtonsHonest
<1> QED BY <1>2, <1>3, <1>4 DEF IInv

LEMMA IInvStep == IInv /\ [Next]_vars => IInv'
<1> SUFFICES ASSUME IInv, [Next]_vars PROVE IInv' OBVIOUS
<1>1. /\ Flags' /\ DiskGood' /\ Good(base)' /\ Hands' /\ Panels' /\ ButtonsHonest'
  BY FlagsKept, DiskKept, BaseKept, HandsKept, PanelsKept, ButtonsKept
<1>2. (failures \in 0..MaxFailures)' BY FailuresKept DEF IInv, TypeOK
<1>3. TypeOK' BY <1>1, <1>2 DEF TypeOK, Flags, DiskGood, Hands, Good
<1>4. BaselineIsSaved'
  BY <1>1 DEF BaselineIsSaved, Panels, DiskGood, Good
<1> QED BY <1>1, <1>3, <1>4 DEF IInv, Hands, Panels

\* The invariant holds of every game, with any number of starts: the
\* bindings, the baseline, the file and the action at the mouse agree.
THEOREM Invariant == Spec => []IInv
<1>1. Init => IInv BY IInvInit
<1>2. IInv /\ [Next]_vars => IInv' BY IInvStep
<1> QED BY <1>1, <1>2, PTL DEF Spec

\* InputMap.h's "one key, one action", and no action at two places, after
\* every sequence of edits (InputMap::Bind, KeySettingOverlay).
THEOREM OnceEach == Spec => []ActionsOnce
BY Invariant, PTL DEF IInv

\* However the panel is closed, the next start has the same bindings, unless
\* the last write went wrong (KeySettingOverlay, InputMap::Save, App).
THEOREM Kept == Spec => []SettingsKept
BY Invariant, PTL DEF IInv
================================================================================
