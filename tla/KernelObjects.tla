---------------------------- MODULE KernelObjects ----------------------------
(***************************************************************************)
(* Kernel objects, the named-object namespace and the handle table          *)
(* (src/src/runtime/object_manager.rs, src/src/runtime/handle_table.rs) with *)
(* the Win32 operations that create, open, duplicate, protect and close     *)
(* handles (src/src/win32.rs).  One owner thread runs them, so each is one  *)
(* step.                                                                    *)
(*                                                                          *)
(* Object numbers are never used again; a handle value is.  `stale` and     *)
(* `opened` are history: the incarnations that were closed, and how many    *)
(* successful opens of an object have not been closed.                      *)
(***************************************************************************)
EXTENDS Naturals, Sequences, FiniteSets

CONSTANTS
    Names,           \* canonical object names
    NoName,
    MaxObjects,      \* bound on objects ever created
    MaxHandles,      \* bound on handle values
    MaxGeneration,   \* bound on closes of one handle value
    MaxOpened        \* bound on outstanding opens of one object

ASSUME Bounds ==
    /\ NoName \notin Names
    /\ MaxObjects \in Nat /\ MaxHandles \in Nat /\ MaxGeneration \in Nat /\ MaxOpened \in Nat

Ids == 1 .. MaxObjects
Handles == 1 .. MaxHandles
Kinds == {"event", "mutex", "semaphore", "section", "file", "socket"}

VARIABLES
    entries,         \* object of each handle, 0 for a value that is not live
    generations, closed_handle_values, next_handle,
    protected,       \* protected_close_handles
    kind,            \* type of each object, "none" unless it is alive
    name,            \* the name in each object's header
    names,           \* the namespace
    handle_counts, next_id,
    claims,          \* file objects whose share claim is registered
    stale, opened

table == <<entries, generations, closed_handle_values, next_handle>>
objects == <<kind, name, names, next_id>>
vars == <<table, protected, objects, handle_counts, claims, stale, opened>>

Live == {h \in Handles : entries[h] # 0}

HandlesTo(o) == {h \in Handles : entries[h] = o}

Init ==
    /\ entries = [h \in Handles |-> 0]
    /\ generations = [h \in Handles |-> 0]
    /\ closed_handle_values = << >>
    /\ next_handle = 1
    /\ protected = {}
    /\ kind = [o \in Ids |-> "none"]
    /\ name = [o \in Ids |-> NoName]
    /\ names = [n \in Names |-> 0]
    /\ handle_counts = [o \in Ids |-> 0]
    /\ next_id = 1
    /\ claims = {} /\ stale = {}
    /\ opened = [o \in Ids |-> 0]

-----------------------------------------------------------------------------
\* Building blocks.

\* HandleTable::insert recycles the value that was closed first.
FreshValue == IF closed_handle_values # << >> THEN Head(closed_handle_values) ELSE next_handle

\* insert_object_id: mint a handle to o, count it.
insert_object_id(o) ==
    /\ FreshValue \in Handles
    /\ entries' = [entries EXCEPT ![FreshValue] = o]
    /\ IF closed_handle_values # << >>
       THEN closed_handle_values' = Tail(closed_handle_values) /\ UNCHANGED next_handle
       ELSE next_handle' = next_handle + 1 /\ UNCHANGED closed_handle_values
    /\ handle_counts' = [handle_counts EXCEPT ![o] = @ + 1]
    /\ opened[o] < MaxOpened
    /\ opened' = [opened EXCEPT ![o] = @ + 1]

\* insert_object_named: a new object takes the name, whoever had it.
insert_object_named(k, n) ==
    /\ next_id \in Ids
    /\ next_id' = next_id + 1
    /\ kind' = [kind EXCEPT ![next_id] = k]
    /\ name' = [name EXCEPT ![next_id] = n]
    /\ names' = IF n \in Names THEN [names EXCEPT ![n] = next_id] ELSE names
    /\ insert_object_id(next_id)
    /\ UNCHANGED <<generations, protected, stale>>

Resolved(n) == IF n \in Names THEN names[n] ELSE 0

\* A call that returns a handle the caller, or somebody, already has.
ReturnExisting(o) ==
    /\ opened[o] < MaxOpened
    /\ opened' = [opened EXCEPT ![o] = @ + 1]
    /\ UNCHANGED <<table, protected, objects, handle_counts, claims, stale>>

Mint(o) ==
    /\ insert_object_id(o)
    /\ UNCHANGED <<generations, protected, objects, claims, stale>>

\* handle_removed that keeps the object's name.
RemoveKeepingName(o) ==
    /\ handle_counts' = [handle_counts EXCEPT ![o] = @ - 1]
    /\ IF handle_counts[o] > 1
       THEN UNCHANGED <<kind, name, names>>
       ELSE /\ kind' = [kind EXCEPT ![o] = "none"]
            /\ name' = [name EXCEPT ![o] = NoName]
            /\ UNCHANGED names

\* handle_removed that does not look at the count.
DropWithAnyHandle(o) ==
    /\ handle_counts' = [handle_counts EXCEPT ![o] = @ - 1]
    /\ kind' = [kind EXCEPT ![o] = "none"]
    /\ name' = [name EXCEPT ![o] = NoName]
    /\ names' = IF name[o] \in Names THEN [names EXCEPT ![name[o]] = 0] ELSE names

\* handle_removed: with the last handle go the object and the namespace entry
\* under its name.
handle_removed(o) ==
    /\ handle_counts' = [handle_counts EXCEPT ![o] = @ - 1]
    /\ IF handle_counts[o] > 1
       THEN UNCHANGED <<kind, name, names>>
       ELSE /\ kind' = [kind EXCEPT ![o] = "none"]
            /\ name' = [name EXCEPT ![o] = NoName]
            /\ names' = IF name[o] \in Names THEN [names EXCEPT ![name[o]] = 0] ELSE names

\* close_raw that leaves the generation alone.
CloseSameGeneration(h) ==
    /\ generations[h] < MaxGeneration
    /\ entries' = [entries EXCEPT ![h] = 0]
    /\ closed_handle_values' = Append(closed_handle_values, h)
    /\ stale' = stale \cup {<<h, generations[h]>>}
    /\ UNCHANGED <<generations, next_handle, protected>>

\* close_raw that fills the hole with the table's last entry.
CloseBySwap(h) ==
    LET last == CHOOSE l \in Live : \A k \in Live : k <= l IN
    /\ generations[h] < MaxGeneration /\ generations[last] < MaxGeneration
    /\ entries' = [entries EXCEPT ![h] = entries[last], ![last] = 0]
    /\ generations' = [generations EXCEPT ![h] = @ + 1, ![last] = generations[last] + 1]
    /\ closed_handle_values' = Append(closed_handle_values, last)
    /\ stale' = stale \cup {<<h, generations[h]>>, <<last, generations[last]>>}
    /\ UNCHANGED <<next_handle, protected>>

\* HandleTable::close_raw on a live handle that is not protected.
close_raw(h) ==
    /\ generations[h] < MaxGeneration
    /\ entries' = [entries EXCEPT ![h] = 0]
    /\ generations' = [generations EXCEPT ![h] = @ + 1]
    /\ closed_handle_values' = Append(closed_handle_values, h)
    /\ stale' = stale \cup {<<h, generations[h]>>}
    /\ UNCHANGED <<next_handle, protected>>

-----------------------------------------------------------------------------
\* Operations of the subsystem.

\* create_event opens whatever has the name.
CreateEvent(n) ==
    IF Resolved(n) # 0
    THEN Mint(Resolved(n))
    ELSE insert_object_named("event", n) /\ UNCHANGED claims

\* open_event, open_named_event.
OpenEvent(n) == Resolved(n) # 0 /\ Mint(Resolved(n))

\* create_named_mutex and create_named_semaphore (create_mutex and
\* create_semaphore without a name) return a handle that exists; an object of
\* another type loses its name.
CreateNamed(k, n) ==
    IF Resolved(n) # 0 /\ kind[Resolved(n)] = k
    THEN ReturnExisting(Resolved(n))
    ELSE insert_object_named(k, n) /\ UNCHANGED claims

\* open_named_mutex, open_named_semaphore.
OpenNamed(n) == Resolved(n) # 0 /\ ReturnExisting(Resolved(n))

\* create_file_mapping refuses a name of another type.
CreateSection(n) ==
    IF Resolved(n) # 0
    THEN kind[Resolved(n)] = "section" /\ Mint(Resolved(n))
    ELSE insert_object_named("section", n) /\ UNCHANGED claims

\* create_file registers a share claim.
CreateFile == insert_object_named("file", NoName) /\ claims' = claims \cup {next_id}

InsertSocket == insert_object_named("socket", NoName) /\ UNCHANGED claims

\* A close that looks at the count of the handles that would be left.
ReleaseClaimLate(o) == claims' = IF handle_counts[o] = 0 THEN claims \ {o} ELSE claims

\* close_handle releases the share claim with the last handle, before the
\* table has agreed to close it.
ReleaseClaim(o) == claims' = IF handle_counts[o] = 1 THEN claims \ {o} ELSE claims

\* close_handle on a live handle; sockets are rejected.
CloseHandle(h) ==
    LET o == entries[h] IN
    /\ h \in Live
    /\ kind[o] # "socket"
    /\ ReleaseClaim(o)
    /\ IF h \in protected
       THEN UNCHANGED <<table, protected, objects, handle_counts, stale, opened>>
       ELSE /\ close_raw(h)
            /\ handle_removed(o)
            /\ opened' = [opened EXCEPT ![o] = IF @ > 0 THEN @ - 1 ELSE 0]
            /\ UNCHANGED next_id

CloseSocket(h) ==
    LET o == entries[h] IN
    /\ h \in Live \ protected
    /\ kind[o] = "socket"
    /\ close_raw(h)
    /\ handle_removed(o)
    /\ opened' = [opened EXCEPT ![o] = IF @ > 0 THEN @ - 1 ELSE 0]
    /\ UNCHANGED <<next_id, claims>>

\* duplicate_handle without DUPLICATE_CLOSE_SOURCE.
DuplicateHandle(h) ==
    /\ h \in Live
    /\ kind[entries[h]] # "socket"
    /\ Mint(entries[h])

\* duplicate_handle with DUPLICATE_CLOSE_SOURCE: the duplicate is minted before
\* the source is closed.  When the source is protected the call fails and the
\* duplicate stays, unknown to the caller.
MoveHandle(h) ==
    /\ h \in Live
    /\ kind[entries[h]] # "socket"
    /\ FreshValue \in Handles
    /\ LET o == entries[h]
           rest == IF closed_handle_values # << >> THEN Tail(closed_handle_values) ELSE << >>
       IN  /\ next_handle' = IF closed_handle_values # << >> THEN next_handle ELSE next_handle + 1
           /\ IF h \in protected
              THEN /\ entries' = [entries EXCEPT ![FreshValue] = o]
                   /\ closed_handle_values' = rest
                   /\ handle_counts' = [handle_counts EXCEPT ![o] = @ + 1]
                   /\ UNCHANGED <<generations, stale>>
              ELSE /\ generations[h] < MaxGeneration
                   /\ entries' = [entries EXCEPT ![FreshValue] = o, ![h] = 0]
                   /\ closed_handle_values' = Append(rest, h)
                   /\ generations' = [generations EXCEPT ![h] = @ + 1]
                   /\ stale' = stale \cup {<<h, generations[h]>>}
                   /\ UNCHANGED handle_counts
    /\ UNCHANGED <<protected, objects, claims, opened>>

\* set_handle_information with HANDLE_FLAG_PROTECT_FROM_CLOSE: the value need
\* not be live.
SetProtection(h) ==
    /\ protected' = IF h \in protected THEN protected \ {h} ELSE protected \cup {h}
    /\ UNCHANGED <<table, objects, handle_counts, claims, stale, opened>>

Next ==
    \/ \E n \in Names \cup {NoName} :
           \/ CreateEvent(n) \/ CreateSection(n)
           \/ \E k \in {"mutex", "semaphore"} : CreateNamed(k, n)
    \/ \E n \in Names : OpenEvent(n) \/ OpenNamed(n)
    \/ CreateFile \/ InsertSocket
    \/ \E h \in Handles : CloseHandle(h) \/ CloseSocket(h)
                         \/ DuplicateHandle(h) \/ MoveHandle(h) \/ SetProtection(h)

Spec == Init /\ [][Next]_vars

-----------------------------------------------------------------------------

TypeOK ==
    /\ entries \in [Handles -> 0 .. MaxObjects]
    /\ generations \in [Handles -> 0 .. MaxGeneration]
    /\ closed_handle_values \in Seq(Handles)
    /\ next_handle \in 1 .. MaxHandles + 1
    /\ protected \subseteq Handles
    /\ kind \in [Ids -> Kinds \cup {"none"}]
    /\ name \in [Ids -> Names \cup {NoName}]
    /\ names \in [Names -> 0 .. MaxObjects]
    /\ handle_counts \in [Ids -> Nat]
    /\ next_id \in 1 .. MaxObjects + 1
    /\ claims \subseteq Ids
    /\ stale \subseteq Handles \X (0 .. MaxGeneration)
    /\ opened \in [Ids -> 0 .. MaxOpened]

\* ObjectManager::object and object_mut: "while a handle references an object,
\* the object is alive".  The count is the number of handles, and an object is
\* alive exactly while there is one.
HandlesCounted ==
    \A o \in Ids :
        /\ handle_counts[o] = Cardinality(HandlesTo(o))
        /\ kind[o] # "none" <=> HandlesTo(o) # {}

\* resolve: a name leads to an object that is alive and was created under it.
NamesResolve ==
    \A n \in Names : names[n] # 0 => kind[names[n]] # "none" /\ name[names[n]] = n

\* validate_handle_generation: a reference to an incarnation that was closed
\* never matches a live handle.
StaleRejected ==
    \A p \in stale : entries[p[1]] # 0 => generations[p[1]] # p[2]

\* close_handle: the share claim of a file does not outlive the file object.
NoLeakedClaim == \A o \in claims : kind[o] = "file"

\* ObjectManager and its tables agree through every sequence of creates, opens,
\* duplicates, moves and closes: an object lives exactly while it has handles,
\* a name leads to a live object, and no share claim outlives its file.
TablesAgree == HandlesCounted /\ NamesResolve /\ NoLeakedClaim

\* HandleTable::insert: a value that is live is never minted again, so what a
\* handle refers to does not change under its holder.
HandleKeepsObject ==
    [][\A h \in Handles : entries[h] # 0 /\ entries'[h] # 0 => entries'[h] = entries[h]]_vars

\* close_handle: "The GE share-state claim dies with the LAST handle to the
\* object"; while a file has a handle its claim stands.
ClaimWhileOpen == \A o \in Ids : kind[o] = "file" => o \in claims

\* create_named_mutex: "the new object wins the name (the old object survives
\* through its handles)"; an object that has a name keeps it until it dies or a
\* newer object takes the name.
NewestKeepsName ==
    [][\A n \in Names :
           (names[n] # 0 /\ names'[n] # names[n])
               => kind'[names[n]] = "none" \/ names'[n] = next_id]_vars

\* create_named_mutex mirrors create_event, which counts every open: an object
\* stays alive until each successful open of it was closed.
OpenKeepsObject == \A o \in Ids : opened[o] > 0 => kind[o] # "none"

\* HandleEntry: "One live handle ... carries ... the close-protection flag":
\* protection belongs to a live handle and ends with it.
ProtectionIsOfLiveHandle == protected \subseteq Live

=============================================================================
