------------------------------ MODULE SoftTpm -------------------------------
(***************************************************************************)
(* The software TPM of src/tpm: the command engine (engine.rs, session.rs),*)
(* its state file (persist.rs) and the TBS adapter that hands the answers  *)
(* to the guest (tbs.rs).                                                  *)
(*                                                                         *)
(* A handler changes the state in memory first and saves afterwards, so    *)
(* one command is several steps: the handler, the system calls of          *)
(* persist::save, and the answer.  Each system call may fail, the process  *)
(* may die between any two steps, and the machine may lose its power.      *)
(*                                                                         *)
(* One PCR stands for the 24, one hierarchy for the four.  A PCR is the    *)
(* sequence of the digests it was extended with (the hash chain without    *)
(* collisions).  The random generator is the entropy it grew from and the  *)
(* number of times it was ratcheted or stirred, and that pair names what   *)
(* it generates next.  A session is named by its first nonce.  The clock,  *)
(* restart_count, pcr_update_counter and the key material are left out, and*)
(* so are the commands that only read: SelfTest, GetCapability, PCR_Read,  *)
(* ReadPublic, NV_ReadPublic.  A command that fails before it authorizes   *)
(* changes nothing but the clock.                                          *)
(***************************************************************************)
EXTENDS Naturals, Sequences, FiniteSets

CONSTANTS
  Indices,                  \* NV indices
  Values,                   \* what NV_Write writes
  Auths, EmptyAuth,         \* authorization values of the hierarchy
  Digests,                  \* what PCR_Extend extends with
  Undefined,                \* an NV index that does not exist
  Unwritten,                \* the data of an index that was only defined
  Blank,                    \* no state file
  Password,                 \* TPM_RS_PW: authorization without a session
  Nothing,                  \* no command, nothing said, nothing promised
  MaxIndices,               \* MAX_NV_INDICES
  MaxObjects,               \* MAX_TRANSIENT_OBJECTS
  MaxSessions,              \* MAX_SESSIONS
  Guests,                   \* bound: the groups of commands that a guest uses
  MaxExtends, MaxDraws, MaxResets,   \* bounds on what only grows in a state
  MaxFaults                 \* bound: failed saves, lost answers, restarts, power losses

ASSUME TpmAssumption ==
  /\ EmptyAuth \in Auths

VARIABLES
  state,                    \* Tpm.state, the PersistedState in memory
  started,                  \* Tpm.started
  objects,                  \* the number of Tpm.objects
  sessions,                 \* Tpm.sessions
  phase,                    \* how far the command in progress is
  call,                     \* what its answer will say
  synced,                   \* sync_all was done on the temporary file
  file,                     \* the state that the state file holds, or Blank
  whole,                    \* the contents of the state file are on the disk
  stable,                   \* what the directory on the disk leads to
  births,                   \* the fresh states made so far, each of new entropy
  faults,                   \* the faults so far
  guest,                    \* the groups of commands that this guest uses
  told,                     \* history: the sessions as the guest knows them
  kept,                     \* history: see DurableDevice
  frozen,                   \* history: the data of indices reported write-locked
  randoms,                  \* history: what GetRandom answered, in order
  unsaved,                  \* history: a save failed and none succeeded since
  quotes                    \* history: what Quote answered while ~unsaved

memory == <<state, started, objects, sessions>>
disk == <<file, whole, stable>>
promises == <<frozen, randoms, unsaved, quotes>>
vars == <<memory, phase, call, synced, disk, births, faults,
          guest, told, kept, promises>>

(* PersistedState::fresh *)
FreshState(n) ==
  [pcr |-> << >>, nv |-> [i \in Indices |-> Undefined], auth |-> EmptyAuth,
   drbg |-> <<n, 0>>, reset_count |-> 1]

NothingFrozen == [i \in Indices |-> Nothing]

Init ==
  /\ state = FreshState(1) /\ births = 1
  /\ started = FALSE /\ objects = 0 /\ sessions = {} /\ told = {}
  /\ phase = "idle" /\ call = Nothing
  /\ synced = FALSE /\ file = Blank /\ whole = TRUE /\ stable = Blank
  /\ faults = 0 /\ guest \in Guests
  /\ kept = {Blank}
  /\ frozen = NothingFrozen /\ randoms = << >> /\ unsaved = FALSE /\ quotes = {}

-----------------------------------------------------------------------------
(* Parts of a PersistedState. *)
SetPcr(s, p) == [s EXCEPT !.pcr = p]
SetNv(s, i, slot) == [s EXCEPT !.nv[i] = slot]
SetAuth(s, a) == [s EXCEPT !.auth = a]
ResetWithoutCount(s) == [s EXCEPT !.pcr = << >>]
Reset(s) == [s EXCEPT !.pcr = << >>, !.reset_count = @ + 1]

(* Drbg::generate and Drbg::stir.  What generate returns is named by s.drbg. *)
Ratchet(s) == [s EXCEPT !.drbg = <<@[1], @[2] + 1>>]

CanDraw == state.drbg[2] < MaxDraws

Slot(data, wl, rl) == [data |-> data, write_locked |-> wl, read_locked |-> rl]

Defined(i) == state.nv[i] # Undefined

-----------------------------------------------------------------------------
(***************************************************************************)
(* Authorization.  A session works only for a guest that knows its current *)
(* nonce.  Success rolls the nonce with the random generator, and ends the *)
(* session unless the command asked to continue it.                        *)
(***************************************************************************)
Ways ==
  {Password} \cup
  (IF CanDraw THEN [session : sessions \cap told, keep : BOOLEAN] ELSE {})

Rolled(w) ==
  IF w.keep THEN {[id |-> w.session.id, nonce |-> state.drbg]} ELSE {}

Authorized(w) == IF w = Password THEN state ELSE Ratchet(state)

SessionsAfter(w) ==
  IF w = Password THEN sessions ELSE (sessions \ {w.session}) \cup Rolled(w)

ToldAfter(w) ==
  IF w = Password THEN told ELSE (told \ {w.session}) \cup Rolled(w)

(***************************************************************************)
(* What a handler leaves behind: the new state and sessions, whether it    *)
(* goes on to persist, and what its answer says.                           *)
(***************************************************************************)
Handle(s, ss, objs, saves, tells, says) ==
  /\ phase = "idle"
  /\ state' = s /\ sessions' = ss /\ objects' = objs
  /\ phase' = IF saves THEN "write" ELSE "answer"
  /\ call' = [saves |-> saves, tells |-> tells, says |-> says]
  /\ UNCHANGED <<synced, disk, births, faults, guest, told, kept, randoms, unsaved, quotes>>

Respond(s, ss, objs, saves, tells, says) ==
  /\ started
  /\ Handle(s, ss, objs, saves, tells, says)
  /\ UNCHANGED <<started, frozen>>

(* A handler that authorized by w, then set the state to s. *)
Done(w, s, objs, saves, says) ==
  Respond(s, SessionsAfter(w), objs, saves, ToldAfter(w), says)

(* An early return after the authorization: the answer has no session area. *)
Refuse(w) ==
  Respond(Authorized(w), SessionsAfter(w), objects, FALSE, told, Nothing)

-----------------------------------------------------------------------------
(* TPM2_Startup(CLEAR) and TPM2_Startup(STATE). *)
Startup(clear) ==
  /\ ~started
  /\ clear => state.reset_count < MaxResets
  /\ started' = TRUE
  /\ Handle(IF clear THEN Reset(state) ELSE state, {}, 0, TRUE, {}, Nothing)
  /\ UNCHANGED frozen

(* TPM2_Shutdown(CLEAR) and TPM2_Shutdown(STATE). *)
Shutdown(clear) ==
  /\ started
  /\ started' = FALSE
  /\ Handle(state, IF clear THEN {} ELSE sessions, IF clear THEN 0 ELSE objects,
            TRUE, told, Nothing)
  /\ UNCHANGED frozen

StirRandom ==
  /\ CanDraw
  /\ Respond(Ratchet(state), sessions, objects, TRUE, told, Nothing)

GetRandomUnsaved ==
  /\ CanDraw
  /\ Respond(Ratchet(state), sessions, objects, FALSE, told,
             [kind |-> "random", what |-> state.drbg])

GetRandom ==
  /\ CanDraw
  /\ Respond(Ratchet(state), sessions, objects, TRUE, told,
             [kind |-> "random", what |-> state.drbg])

PcrExtend(d, w) ==
  /\ Len(state.pcr) < MaxExtends
  /\ Done(w, SetPcr(Authorized(w), Append(state.pcr, d)), objects, TRUE, Nothing)

CreatePrimary(w) ==
  \/ /\ objects < MaxObjects
     /\ Done(w, Authorized(w), objects + 1, TRUE, Nothing)
  \/ Refuse(w)

Create(w) ==
  /\ objects > 0
  /\ Done(w, Authorized(w), objects, TRUE, Nothing) \/ Refuse(w)

Load(w) ==
  /\ objects > 0
  /\ \/ /\ objects < MaxObjects
        /\ Done(w, Authorized(w), objects + 1, FALSE, Nothing)
     \/ Refuse(w)

FlushObject ==
  /\ objects > 0
  /\ Respond(state, sessions, objects - 1, FALSE, told, Nothing)

FlushSession(s) ==
  Respond(state, sessions \ {s}, objects, FALSE, {t \in told : t.id # s.id}, Nothing)

Quote(w) ==
  /\ objects > 0
  /\ \/ Done(w, Authorized(w), objects, FALSE,
             [kind |-> "quote",
              what |-> <<state.drbg[1], state.reset_count, state.pcr>>])
     \/ Refuse(w)

HierarchyChangeAuth(a, w) ==
  Done(w, SetAuth(Authorized(w), a), objects, TRUE, Nothing)

NvDefineSpace(i, w) ==
  \/ /\ ~Defined(i)
     /\ Cardinality({j \in Indices : Defined(j)}) < MaxIndices
     /\ Done(w, SetNv(Authorized(w), i, Slot(Unwritten, FALSE, FALSE)), objects, TRUE, Nothing)
  \/ Refuse(w)

NvWrite(i, v, w) ==
  /\ Defined(i)
  /\ \/ /\ ~state.nv[i].write_locked
        /\ Done(w, SetNv(Authorized(w), i, [state.nv[i] EXCEPT !.data = v]),
                objects, TRUE, Nothing)
     \/ Refuse(w)

NvRead(i, w) ==
  /\ Defined(i)
  /\ \/ /\ ~state.nv[i].read_locked /\ state.nv[i].data # Unwritten
        /\ Done(w, Authorized(w), objects, FALSE, Nothing)
     \/ Refuse(w)

NvWriteLockUnsaved(i, w) ==
  /\ Defined(i)
  /\ \/ Done(w, SetNv(Authorized(w), i, [state.nv[i] EXCEPT !.write_locked = TRUE]),
             objects, FALSE, [kind |-> "locked", what |-> i])
     \/ Refuse(w)

NvWriteLock(i, w) ==
  /\ Defined(i)
  /\ \/ Done(w, SetNv(Authorized(w), i, [state.nv[i] EXCEPT !.write_locked = TRUE]),
             objects, TRUE, [kind |-> "locked", what |-> i])
     \/ Refuse(w)

NvReadLock(i, w) ==
  /\ Defined(i)
  /\ \/ Done(w, SetNv(Authorized(w), i, [state.nv[i] EXCEPT !.read_locked = TRUE]),
             objects, TRUE, Nothing)
     \/ Refuse(w)

(* Undefining an index withdraws what was promised about it. *)
NvUndefineSpace(i, w) ==
  /\ started /\ Defined(i)
  /\ Handle(SetNv(Authorized(w), i, Undefined), SessionsAfter(w), objects,
            TRUE, ToldAfter(w), Nothing)
  /\ frozen' = [frozen EXCEPT ![i] = Nothing]
  /\ UNCHANGED started

(* The nonce is drawn before insert_session looks for room. *)
StartAuthSession ==
  LET s == [id |-> state.drbg, nonce |-> state.drbg]
  IN /\ CanDraw
     /\ IF Cardinality(sessions) < MaxSessions
        THEN Respond(Ratchet(state), sessions \cup {s}, objects, FALSE, told \cup {s}, Nothing)
        ELSE Respond(Ratchet(state), sessions, objects, FALSE, told, Nothing)

(* Tpm::save, called by the host between two commands. *)
HostSave ==
  /\ Handle(state, sessions, objects, TRUE, told, Nothing)
  /\ UNCHANGED <<started, frozen>>

Command ==
  \/ \E clear \in BOOLEAN : Startup(clear) \/ Shutdown(clear)
  \/ HostSave
  \/ "random" \in guest /\ (StirRandom \/ GetRandom)
  \/ "session" \in guest /\ (StartAuthSession \/ \E s \in sessions : FlushSession(s))
  \/ \E w \in Ways :
       \/ /\ "key" \in guest
          /\ \/ CreatePrimary(w) \/ Create(w) \/ Load(w) \/ FlushObject
             \/ \E a \in Auths : HierarchyChangeAuth(a, w)
       \/ /\ "pcr" \in guest
          /\ CreatePrimary(w) \/ Quote(w) \/ \E d \in Digests : PcrExtend(d, w)
       \/ /\ "nv" \in guest
          /\ \E i \in Indices :
               \/ NvDefineSpace(i, w) \/ NvRead(i, w) \/ NvUndefineSpace(i, w)
               \/ NvWriteLock(i, w) \/ NvReadLock(i, w)
               \/ \E v \in Values : NvWrite(i, v, w)

-----------------------------------------------------------------------------
(***************************************************************************)
(* persist::save, system call by system call.  File::create and write_all  *)
(* are one step: nothing but this save ever looks at the temporary file.   *)
(***************************************************************************)
WriteTempNoSync ==
  /\ phase = "write"
  /\ phase' = "rename" /\ synced' = FALSE
  /\ UNCHANGED <<memory, call, disk, births, faults, guest, told, kept, promises>>

WriteTemp ==
  /\ phase = "write"
  /\ phase' = "sync" /\ synced' = FALSE
  /\ UNCHANGED <<memory, call, disk, births, faults, guest, told, kept, promises>>

SyncTemp ==
  /\ phase = "sync"
  /\ phase' = "rename" /\ synced' = TRUE
  /\ UNCHANGED <<memory, call, disk, births, faults, guest, told, kept, promises>>

Rename ==
  /\ phase = "rename"
  /\ phase' = "answer"
  /\ file' = state /\ whole' = synced
  /\ kept' = kept \cup {state} /\ unsaved' = FALSE
  /\ UNCHANGED <<memory, call, synced, stable, births, faults, guest, told,
                 frozen, randoms, quotes>>

SaveErrorIgnored ==
  /\ phase \in {"write", "sync", "rename"} /\ faults < MaxFaults
  /\ faults' = faults + 1
  /\ phase' = "answer" /\ unsaved' = TRUE
  /\ UNCHANGED <<memory, call, synced, disk, births, guest, told, kept,
                 frozen, randoms, quotes>>

(* Any of the three fails: the temporary file goes, the handler gives up. *)
SaveFails ==
  /\ phase \in {"write", "sync", "rename"} /\ faults < MaxFaults
  /\ faults' = faults + 1
  /\ phase' = "failed" /\ unsaved' = TRUE
  /\ UNCHANGED <<memory, call, synced, disk, births, guest, told, kept,
                 frozen, randoms, quotes>>

(* TBS_SUCCESS: the answer is in the guest's buffer. *)
Answer ==
  /\ phase = "answer"
  /\ phase' = "idle" /\ call' = Nothing
  /\ told' = call.tells
  /\ kept' = IF call.saves THEN {state} ELSE kept
  /\ LET said == call.says
         kind == IF said = Nothing THEN "nothing" ELSE said.kind
     IN /\ randoms' = IF kind = "random" THEN Append(randoms, said.what) ELSE randoms
        /\ quotes' = IF kind = "quote" /\ ~unsaved THEN quotes \cup {said.what} ELSE quotes
        /\ frozen' = IF kind = "locked"
                     THEN [frozen EXCEPT ![said.what] = state.nv[said.what].data]
                     ELSE frozen
  /\ UNCHANGED <<memory, synced, disk, births, faults, guest, unsaved>>

(* TBS_E_INSUFFICIENT_BUFFER: the command ran, its answer does not fit. *)
AnswerLost ==
  /\ phase = "answer" /\ faults < MaxFaults
  /\ faults' = faults + 1
  /\ phase' = "idle" /\ call' = Nothing
  /\ UNCHANGED <<memory, synced, disk, births, guest, told, kept, promises>>

(* TBS_E_IOERROR *)
ReportFailure ==
  /\ phase = "failed"
  /\ phase' = "idle" /\ call' = Nothing
  /\ UNCHANGED <<memory, synced, disk, births, faults, guest, told, kept, promises>>

-----------------------------------------------------------------------------
(***************************************************************************)
(* Tpm::open on what the state file holds now: no file makes a fresh TPM,  *)
(* a file that does not decode (its contents are not good) is refused and  *)
(* left alone.                                                             *)
(***************************************************************************)
Open(found, good) ==
  /\ phase # "refused" /\ faults < MaxFaults
  /\ faults' = faults + 1
  /\ file' = found
  /\ births' = IF found = Blank THEN births + 1 ELSE births
  /\ state' = IF found = Blank THEN FreshState(births + 1) ELSE found
  /\ phase' = IF good THEN "idle" ELSE "refused"
  /\ started' = FALSE /\ objects' = 0 /\ sessions' = {} /\ told' = {}
  /\ call' = Nothing /\ synced' = FALSE
  /\ kept' = {found} /\ unsaved' = FALSE
  /\ UNCHANGED guest

(* The process dies and is started again; the system keeps running. *)
Restart ==
  /\ Open(file, TRUE)
  /\ UNCHANGED <<whole, stable, frozen, randoms, quotes>>

(* The file system writes everything back in its own time. *)
Writeback ==
  /\ stable # file
  /\ stable' = file /\ whole' = TRUE
  /\ UNCHANGED <<memory, phase, call, synced, file, births, faults,
                 guest, told, kept, promises>>

(* The directory leads to the old file or to the new one, whose contents   *)
(* are there only if they were synced.  No promise outlives a power loss.  *)
PowerLoss ==
  /\ \/ Open(stable, TRUE) /\ stable' = stable
     \/ Open(file, whole) /\ stable' = file
  /\ whole' = TRUE
  /\ frozen' = NothingFrozen /\ randoms' = << >> /\ quotes' = {}

Next ==
  \/ Command \/ WriteTemp \/ SyncTemp \/ Rename \/ SaveFails
  \/ Answer \/ AnswerLost \/ ReportFailure \/ Restart \/ Writeback \/ PowerLoss

Spec == Init /\ [][Next]_vars

-----------------------------------------------------------------------------
(* What the engine, the state file and the adapter do together is what     *)
(* DurableDevice promises: a state that a saving command acknowledged is   *)
(* the one a restart brings back, through every failed save and every crash*)
(* between two system calls of persist::save; what a power loss brings back*)
(* is a state that was saved, the old one or the new one, never a mixture. *)
IsFresh(s) == s = FreshState(s.drbg[1])

Device == INSTANCE DurableDevice WITH cur <- state, durable <- {stable, file}

DeviceDurable == Device!Spec

(* persist.rs: "a crash cannot leave a half-written state file".  Whatever *)
(* fails, and whenever the power goes, the state file opens again.         *)
StateFileOpens == phase # "refused"

(* engine.rs cmd_nv_write_lock, cmd_nv_write: once a write lock was        *)
(* acknowledged, the index keeps its data and its lock until a command     *)
(* undefines it, through failed saves, crashes and every later Startup.    *)
LockedFrozen ==
  \A i \in Indices : frozen[i] # Nothing =>
    /\ Defined(i)
    /\ state.nv[i].write_locked
    /\ state.nv[i].data = frozen[i]

(* engine.rs cmd_get_random: the ratcheted generator is saved before the   *)
(* bytes are handed out, so no crash makes GetRandom answer the same bytes *)
(* twice.                                                                  *)
RandomNotRepeated ==
  \A m, n \in 1 .. Len(randoms) : randoms[m] = randoms[n] => m = n

(* engine.rs cmd_quote, cmd_startup, cmd_pcr_extend: two quotes with the   *)
(* same reset_count saw the PCR at two points of one history: one of the   *)
(* values extends the other.  Quotes answered while a failed save is       *)
(* outstanding are not counted: a crash takes back what they attested.     *)
IsPrefix(p, q) == Len(p) <= Len(q) /\ SubSeq(q, 1, Len(p)) = p

QuotesComparable ==
  \A p, q \in quotes :
    p[1] = q[1] /\ p[2] = q[2] => IsPrefix(p[3], q[3]) \/ IsPrefix(q[3], p[3])

(* engine.rs: "Every handler validates sizes, handles, and authorization   *)
(* before it mutates state".  Between two commands that were all answered, *)
(* the guest knows the nonce of every session.                             *)
SessionsUsable == phase = "idle" => sessions \subseteq told
=============================================================================
