--------------------------- MODULE SoftTpmProofs ----------------------------
(***************************************************************************)
(* The software TPM implements DurableDevice, for any guest and any number *)
(* of commands and faults.                                                 *)
(***************************************************************************)
EXTENDS SoftTpm, TLAPS

(* What the three system calls of persist::save establish in turn: the     *)
(* file that is renamed was synced, the state file is one that a restart   *)
(* may bring back, and a saving command that is about to be acknowledged   *)
(* is in the state file.                                                   *)
IInv ==
  /\ whole = TRUE
  /\ phase = "rename" => synced = TRUE
  /\ file \in kept
  /\ phase = "answer" /\ call.saves => file = state
  /\ phase # "refused"

LEMMA InitIInv == Init => IInv
BY DEF Init, IInv

-----------------------------------------------------------------------------
(* Every command, as far as the save file is concerned.                    *)
CommandFrame ==
  /\ phase' = (IF call'.saves THEN "write" ELSE "answer")
  /\ UNCHANGED <<synced, disk, births, faults, guest, told, kept, randoms, unsaved, quotes>>

LEMMA HandleFrame ==
  ASSUME NEW s, NEW ss, NEW objs, NEW saves \in BOOLEAN, NEW tells, NEW says,
         Handle(s, ss, objs, saves, tells, says)
  PROVE  CommandFrame
BY DEF Handle, CommandFrame

LEMMA RespondFrame ==
  ASSUME NEW s, NEW ss, NEW objs, NEW saves \in BOOLEAN, NEW tells, NEW says,
         Respond(s, ss, objs, saves, tells, says)
  PROVE  CommandFrame
BY HandleFrame DEF Respond

LEMMA DoneFrame ==
  ASSUME NEW w, NEW s, NEW objs, NEW saves \in BOOLEAN, NEW says,
         Done(w, s, objs, saves, says)
  PROVE  CommandFrame
BY RespondFrame DEF Done

LEMMA RefuseFrame ==
  ASSUME NEW w, Refuse(w)
  PROVE  CommandFrame
BY RespondFrame DEF Refuse

LEMMA CommandIsFrame == Command => CommandFrame
<1> SUFFICES ASSUME Command PROVE CommandFrame OBVIOUS
<1>1. ASSUME NEW clear \in BOOLEAN, Startup(clear) \/ Shutdown(clear)
      PROVE  CommandFrame
  BY <1>1, HandleFrame DEF Startup, Shutdown
<1>2. CASE HostSave
  BY <1>2, HandleFrame DEF HostSave
<1>3. CASE StirRandom \/ GetRandom \/ StartAuthSession \/ FlushObject
  BY <1>3, RespondFrame DEF StirRandom, GetRandom, StartAuthSession, FlushObject
<1>4. ASSUME NEW s \in sessions, FlushSession(s)
      PROVE  CommandFrame
  BY <1>4, RespondFrame DEF FlushSession
<1>5. ASSUME NEW w \in Ways, CreatePrimary(w) \/ Create(w) \/ Load(w) \/ Quote(w)
      PROVE  CommandFrame
  BY <1>5, DoneFrame, RefuseFrame DEF CreatePrimary, Create, Load, Quote
<1>6. ASSUME NEW w \in Ways, NEW a \in Auths, HierarchyChangeAuth(a, w)
      PROVE  CommandFrame
  BY <1>6, DoneFrame DEF HierarchyChangeAuth
<1>7. ASSUME NEW w \in Ways, NEW d \in Digests, PcrExtend(d, w)
      PROVE  CommandFrame
  BY <1>7, DoneFrame DEF PcrExtend
<1>8. ASSUME NEW w \in Ways, NEW i \in Indices,
             NvDefineSpace(i, w) \/ NvRead(i, w) \/ NvWriteLock(i, w) \/ NvReadLock(i, w)
      PROVE  CommandFrame
  BY <1>8, DoneFrame, RefuseFrame DEF NvDefineSpace, NvRead, NvWriteLock, NvReadLock
<1>9. ASSUME NEW w \in Ways, NEW i \in Indices, NvUndefineSpace(i, w)
      PROVE  CommandFrame
  BY <1>9, HandleFrame DEF NvUndefineSpace
<1>10. ASSUME NEW w \in Ways, NEW i \in Indices, NEW v \in Values, NvWrite(i, v, w)
       PROVE  CommandFrame
  BY <1>10, DoneFrame, RefuseFrame DEF NvWrite
<1> QED
  BY <1>1, <1>2, <1>3, <1>4, <1>5, <1>6, <1>7, <1>8, <1>9, <1>10 DEF Command

-----------------------------------------------------------------------------
LEMMA NextIInv == IInv /\ [Next]_vars => IInv'
<1> SUFFICES ASSUME IInv, [Next]_vars PROVE IInv' OBVIOUS
<1> USE DEF IInv
<1>1. CASE Command
  <2>1. CommandFrame
    BY <1>1, CommandIsFrame
  <2> QED
    BY <2>1 DEF CommandFrame, disk
<1>2. CASE WriteTemp \/ SyncTemp
  BY <1>2 DEF WriteTemp, SyncTemp, memory, disk
<1>3. CASE Rename
  BY <1>3 DEF Rename, memory
<1>4. CASE SaveFails \/ AnswerLost \/ ReportFailure
  BY <1>4 DEF SaveFails, AnswerLost, ReportFailure, memory, disk
<1>5. CASE Answer
  BY <1>5 DEF Answer, memory, disk
<1>6. CASE Restart
  BY <1>6 DEF Restart, Open
<1>7. CASE Writeback
  BY <1>7 DEF Writeback, memory
<1>8. CASE PowerLoss
  BY <1>8 DEF PowerLoss, Open
<1>9. CASE UNCHANGED vars
  BY <1>9 DEF vars, memory, disk
<1> QED
  BY <1>1, <1>2, <1>3, <1>4, <1>5, <1>6, <1>7, <1>8, <1>9 DEF Next

THEOREM TpmInvariant == Spec => []IInv
BY InitIInv, NextIInv, PTL DEF Spec

(* persist.rs: whatever fails and whenever the power goes, the state file  *)
(* opens again, because it is only ever replaced by a synced file.         *)
THEOREM StateFileSafety == Spec => []StateFileOpens
<1>1. IInv => StateFileOpens
  BY DEF IInv, StateFileOpens
<1> QED
  BY <1>1, TpmInvariant, PTL

-----------------------------------------------------------------------------
LEMMA FreshIsFresh == ASSUME NEW n PROVE IsFresh(FreshState(n))
BY DEF IsFresh, FreshState

LEMMA InitDevice == Init => Device!Init
<1> SUFFICES ASSUME Init PROVE Device!Init OBVIOUS
<1>1. IsFresh(state)
  BY FreshIsFresh DEF Init
<1> QED
  BY <1>1 DEF Init, Device!Init

(* Tpm::open brings back what it finds.                                    *)
LEMMA OpenReopens ==
  ASSUME NEW found, NEW good, Open(found, good)
  PROVE  Device!Reopen(found)
<1>1. CASE found = Blank
  <2>1. state' = FreshState(births + 1) /\ kept' = {found}
    BY <1>1 DEF Open
  <2>2. IsFresh(state')
    BY <2>1, FreshIsFresh
  <2> QED
    BY <1>1, <2>1, <2>2 DEF Device!Reopen
<1>2. CASE found # Blank
  BY <1>2 DEF Open, Device!Reopen
<1> QED
  BY <1>1, <1>2

LEMMA NextDevice == IInv /\ [Next]_vars => [Device!Next]_(Device!vars)
<1> SUFFICES ASSUME IInv, [Next]_vars PROVE Device!Next \/ UNCHANGED Device!vars
  OBVIOUS
<1>1. CASE Command
  <2>1. UNCHANGED <<kept, stable, file>>
    BY <1>1, CommandIsFrame DEF CommandFrame, disk
  <2> QED
    BY <2>1 DEF Device!Next, Device!Work
<1>2. CASE WriteTemp \/ SyncTemp \/ SaveFails \/ AnswerLost \/ ReportFailure
  <2>1. UNCHANGED <<state, kept, stable, file>>
    BY <1>2 DEF WriteTemp, SyncTemp, SaveFails, AnswerLost, ReportFailure, memory, disk
  <2> QED
    BY <2>1 DEF Device!vars
<1>3. CASE Rename
  <2>1. /\ kept' = kept \cup {state} /\ file' = state
        /\ UNCHANGED <<state, stable>>
    BY <1>3 DEF Rename, memory
  <2> QED
    BY <2>1 DEF Device!Next, Device!Save
<1>4. CASE Answer
  <2>1. UNCHANGED <<state, stable, file>>
    BY <1>4 DEF Answer, memory, disk
  <2>2. CASE call.saves
    <3>1. kept' = {state} /\ state \in kept
      BY <1>4, <2>2 DEF Answer, IInv
    <3> QED
      BY <2>1, <3>1 DEF Device!Next, Device!Acknowledge
  <2>3. CASE ~call.saves
    <3>1. kept' = kept
      BY <1>4, <2>3 DEF Answer
    <3> QED
      BY <2>1, <3>1 DEF Device!vars
  <2> QED
    BY <2>2, <2>3
<1>5. CASE Restart
  <2>1. Device!Reopen(file) /\ file \in kept
    BY <1>5, OpenReopens DEF Restart, IInv
  <2>2. UNCHANGED <<stable, file>>
    BY <1>5 DEF Restart, Open
  <2> QED
    BY <2>1, <2>2 DEF Device!Next, Device!Restart
<1>6. CASE Writeback
  <2>1. UNCHANGED <<state, kept, file>> /\ stable' = file
    BY <1>6 DEF Writeback, memory
  <2> QED
    BY <2>1 DEF Device!Next, Device!Settle
<1>7. CASE PowerLoss
  <2>1. PICK found \in {stable, file} :
          Device!Reopen(found) /\ stable' = found /\ file' = found
    BY <1>7, OpenReopens DEF PowerLoss, Open
  <2> QED
    BY <2>1 DEF Device!Next, Device!PowerLoss
<1>8. CASE UNCHANGED vars
  BY <1>8 DEF vars, memory, disk, Device!vars
<1> QED
  BY <1>1, <1>2, <1>3, <1>4, <1>5, <1>6, <1>7, <1>8 DEF Next

(* The engine, its state file and the adapter implement DurableDevice: no  *)
(* acknowledged save is lost to a crash, at whatever step of persist::save *)
(* it comes.                                                               *)
THEOREM TpmImplementsDevice == Spec => DeviceDurable
BY TpmInvariant, InitDevice, NextDevice, PTL DEF Spec, DeviceDurable, Device!Spec
=============================================================================
