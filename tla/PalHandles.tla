----------------------------- MODULE PalHandles -----------------------------
(***************************************************************************)
(* The handle table of the Platform Abstraction Layer.                     *)
(*                                                                         *)
(* pal_core.c keeps a table of slots under one mutex; every pal_core_*     *)
(* call is one critical section and so one step here.  pal_dispatch.c      *)
(* builds each public entry point out of several such calls with the host  *)
(* call in between, outside the mutex: an opener makes the resource,       *)
(* reserves a slot, then stores the resource in it; an operation validates *)
(* its handle, then calls the host; a close validates, closes at the host, *)
(* then releases.  The model interleaves those parts between threads.      *)
(*                                                                         *)
(* Handles are plain {index, generation} values: any thread may pass any   *)
(* handle ever issued, or the null handle, to any entry point.             *)
(***************************************************************************)
EXTENDS Integers

CONSTANTS
  Threads,      \* pthreads of the program
  NSlots,       \* PAL_MAX_SLOTS
  Types,        \* pal_resource_type_t
  PAL_RES_ROOT, \* its zero value
  GenMod,       \* generations are computed modulo GenMod (2^32 in the code)
  MaxOpens      \* bound: host resources opened in a behaviour

ASSUME HandleAssumption ==
  /\ NSlots \in Nat \ {0}
  /\ PAL_RES_ROOT \in Types
  /\ GenMod \in Nat \ {0}
  /\ MaxOpens \in Nat
  /\ "none" \notin Threads

VARIABLES
  slots,     \* g_slots
  resources, \* life of each host resource: "unborn", "open", "closed"
  opened,    \* number of resources opened so far; the next one is opened + 1
  pc,        \* where each thread is inside its current PAL call
  call,      \* the locals of that call
  issued     \* history: every handle returned to the program, and for what

vars == <<slots, resources, opened, pc, call, issued>>

Slots     == 0 .. NSlots - 1
Resources == 1 .. MaxOpens
NULL      == 0        \* the null pointer in slot.internal
NoThread  == "none"   \* owner_thread = 0

PAL_NULL_HANDLE == [index |-> 0, generation |-> 0]

Slot ==
  [generation : 0 .. GenMod - 1, in_use : BOOLEAN, type : Types,
   internal : Resources \union {NULL}, owner : Threads \union {NoThread}]

Call ==
  [index : Slots, type : Types, internal : Resources \union {NULL},
   onFull : {"leak", "close"}]

IssuedHandle ==
  [index : Slots, generation : 0 .. GenMod - 1, type : Types,
   internal : Resources \union {NULL}, owner : Threads]

Locations ==
  {"idle", "reserve", "publish", "use", "child", "transfer", "close", "release"}

\* What a caller can put in a handle argument.
HandleArgs ==
  {PAL_NULL_HANDLE} \union
    {[index |-> h.index, generation |-> h.generation] : h \in issued}

NoCall ==
  [index |-> 0, type |-> PAL_RES_ROOT, internal |-> NULL, onFull |-> "leak"]

----------------------------------------------------------------------------
\* pal_core_reserve takes the first slot that is neither in use nor still
\* holding a resource.
Mut_FreeSlots == {i \in Slots : slots[i].internal = NULL}
FreeSlots == {i \in Slots : ~slots[i].in_use /\ slots[i].internal = NULL}

FirstFree(i) == i \in FreeSlots /\ \A j \in FreeSlots : i <= j

NextGeneration(g) == (g + 1) % GenMod

ReservedSlot(i, t, ty) ==
  [generation |-> NextGeneration(slots[i].generation), in_use |-> TRUE,
   type |-> ty, internal |-> NULL, owner |-> t]

\* pal_core_release clears everything but the generation.
Mut_ReleasedSlot(i) ==
  [generation |-> 0, in_use |-> FALSE,
   type |-> PAL_RES_ROOT, internal |-> NULL, owner |-> NoThread]
ReleasedSlot(i) ==
  [generation |-> slots[i].generation, in_use |-> FALSE,
   type |-> PAL_RES_ROOT, internal |-> NULL, owner |-> NoThread]

\* pal_core_validate_and_get: the resource, or NULL.
Mut_Resolve(t, h, ty) ==
  LET s == slots[h.index] IN
    IF s.in_use /\ s.generation = h.generation /\ s.type = ty
      THEN s.internal ELSE NULL
Resolve(t, h, ty) ==
  LET s == slots[h.index] IN
    IF s.in_use /\ s.generation = h.generation /\ s.type = ty /\ s.owner = t
      THEN s.internal ELSE NULL

Return(t) ==
  /\ pc'   = [pc EXCEPT ![t] = "idle"]
  /\ call' = [call EXCEPT ![t] = NoCall]

----------------------------------------------------------------------------
\* pal_core_init, run by the backend's constructor before any program code.
Init ==
  /\ slots = [i \in Slots |->
       [generation |-> 0, in_use |-> FALSE, type |-> PAL_RES_ROOT,
        internal |-> NULL, owner |-> NoThread]]
  /\ resources = [r \in Resources |-> "unborn"]
  /\ opened = 0
  /\ pc     = [t \in Threads |-> "idle"]
  /\ call   = [t \in Threads |-> NoCall]
  /\ issued = {}

\* The host opens a resource of type ty for t; the opener has no slot yet.
HostOpen(t, ty, onFull) ==
  /\ opened < MaxOpens
  /\ opened'    = opened + 1
  /\ resources' = [resources EXCEPT ![opened + 1] = "open"]
  /\ pc'        = [pc EXCEPT ![t] = "reserve"]
  /\ call'      = [call EXCEPT ![t] =
                     [index |-> 0, type |-> ty, internal |-> opened + 1,
                      onFull |-> onFull]]
  /\ UNCHANGED <<slots, issued>>

\* Openers that resolve no handle: roots, connections, listeners, channels,
\* secrets, processes without channels.  Only the Unix-domain ones close the
\* resource on a full table.
Open(t) ==
  /\ pc[t] = "idle"
  /\ \E ty \in Types, onFull \in {"leak", "close"} : HostOpen(t, ty, onFull)

\* Openers that work from another handle (file_open, file_clone, dir_open,
\* proc_create with a channel, proc_stdin/out/err, listener_accept,
\* secret_export_public), once that handle is resolved.
OpenChild(t) ==
  /\ pc[t] = "child"
  /\ \E ty \in Types : HostOpen(t, ty, "leak")

\* The host refuses (open failed, file missing, no such stream).
OpenChildFails(t) ==
  /\ pc[t] = "child"
  /\ Return(t)
  /\ UNCHANGED <<slots, resources, opened, issued>>

Reserve(t) ==
  /\ pc[t] = "reserve"
  /\ \E i \in Slots :
       /\ FirstFree(i)
       /\ slots' = [slots EXCEPT ![i] = ReservedSlot(i, t, call[t].type)]
       /\ call'  = [call EXCEPT ![t].index = i]
  /\ pc' = [pc EXCEPT ![t] = "publish"]
  /\ UNCHANGED <<resources, opened, issued>>

\* slot < 0: the null handle is returned; most openers drop the resource.
ReserveFails(t) ==
  /\ pc[t] = "reserve"
  /\ FreeSlots = {}
  /\ resources' = IF call[t].onFull = "close"
                    THEN [resources EXCEPT ![call[t].internal] = "closed"]
                    ELSE resources
  /\ Return(t)
  /\ UNCHANGED <<slots, opened, issued>>

\* g_slots[slot].internal = ...; return {slot, g_slots[slot].generation}.
Publish(t) ==
  LET i == call[t].index
      r == call[t].internal IN
  /\ pc[t] = "publish"
  /\ slots'  = [slots EXCEPT ![i].internal = r]
  /\ issued' = issued \union
       {[index |-> i, generation |-> slots[i].generation, type |-> call[t].type,
         internal |-> r, owner |-> t]}
  /\ Return(t)
  /\ UNCHANGED <<resources, opened>>

\* The validation every handle operation starts with, for an entry point that
\* expects a handle of type ty; on failure the call returns and nothing
\* changes.
Validate(t, h, ty, op) ==
  /\ pc[t] = "idle"
  /\ Resolve(t, h, ty) # NULL
  /\ pc'   = [pc EXCEPT ![t] = op]
  /\ call' = [call EXCEPT ![t] =
                [index |-> h.index, type |-> ty, internal |-> Resolve(t, h, ty),
                 onFull |-> "leak"]]
  /\ UNCHANGED <<slots, resources, opened, issued>>

\* read, write, seek, send, recv, wait, kill, sign, ...
UseHost(t) ==
  /\ pc[t] = "use"
  /\ Return(t)
  /\ UNCHANGED <<slots, resources, opened, issued>>

\* pal_core_transfer has no owner check of its own.
Transfer(t) ==
  /\ pc[t] = "transfer"
  /\ slots' = IF slots[call[t].index].in_use
                THEN [slots EXCEPT ![call[t].index].owner = t] ELSE slots
  /\ Return(t)
  /\ UNCHANGED <<resources, opened, issued>>

CloseHost(t) ==
  /\ pc[t] = "close"
  /\ resources' = [resources EXCEPT ![call[t].internal] = "closed"]
  /\ pc'        = [pc EXCEPT ![t] = "release"]
  /\ UNCHANGED <<slots, opened, call, issued>>

\* pal_core_release: by slot number only, refused to anyone but the owner.
Release(t) ==
  LET i == call[t].index IN
  /\ pc[t] = "release"
  /\ slots' = IF slots[i].in_use /\ slots[i].owner # t
                THEN slots ELSE [slots EXCEPT ![i] = ReleasedSlot(i)]
  /\ Return(t)
  /\ UNCHANGED <<resources, opened, issued>>

Next ==
  \E t \in Threads :
    \/ Open(t) \/ Reserve(t) \/ ReserveFails(t) \/ Publish(t)
    \/ \E h \in HandleArgs, ty \in Types, op \in {"use", "child", "transfer", "close"} :
         Validate(t, h, ty, op)
    \/ UseHost(t) \/ OpenChild(t) \/ OpenChildFails(t)
    \/ Transfer(t) \/ CloseHost(t) \/ Release(t)

Spec == Init /\ [][Next]_vars

----------------------------------------------------------------------------
TypeOK ==
  /\ slots \in [Slots -> Slot]
  /\ resources \in [Resources -> {"unborn", "open", "closed"}]
  /\ opened \in 0 .. MaxOpens
  /\ pc \in [Threads -> Locations]
  /\ call \in [Threads -> Call]
  /\ issued \subseteq IssuedHandle

Live(h) == slots[h.index].in_use /\ slots[h.index].generation = h.generation

\* A handle that passes the generation test names exactly the resource, the
\* type and the owner it was issued for, whatever was closed, reserved and
\* half-published on its slot in the meantime (pal_core_validate_and_get).
HandleIdentity ==
  \A h \in issued : Live(h) =>
    LET s == slots[h.index] IN
      s.internal = h.internal /\ s.type = h.type /\ s.owner = h.owner

\* "All handles zero-initialized are invalid" (pal.h): what openers return on
\* failure never resolves, for any thread and any type.
NullHandleInvalid ==
  \A t \in Threads, ty \in Types : Resolve(t, PAL_NULL_HANDLE, ty) = NULL

\* Between its validation and the end of its host call an operation keeps
\* working on an open resource that still belongs to its thread: the checked
\* slot is not closed, released or reused under it.
CallsLive ==
  \A t \in Threads : pc[t] \in {"use", "child", "transfer", "close"} =>
    LET s == slots[call[t].index] IN
      /\ call[t].internal # NULL /\ resources[call[t].internal] = "open"
      /\ s.in_use /\ s.owner = t /\ s.internal = call[t].internal

\* Somebody can still close r: a slot holds it, or an opener on its way.
Reachable(r) ==
  \/ \E i \in Slots : slots[i].in_use /\ slots[i].internal = r
  \/ \E t \in Threads : pc[t] \in {"reserve", "publish"} /\ call[t].internal = r

\* The table loses track of an open resource in one situation only: an
\* opener found every slot taken.
LostOnlyWhenFull ==
  [][\A r \in Resources :
       resources[r] = "open" /\ Reachable(r) /\ ~Reachable(r)' =>
         resources'[r] = "closed" \/ FreeSlots = {}]_vars

----------------------------------------------------------------------------
\* The strengthening of HandleIdentity and CallsLive that the steps keep.

\* No slot has been reserved so often that its next reservation starts over.
NoWrap == \A i \in Slots : slots[i].generation < GenMod - 1

\* An opener's resource is its own until it is published.
OpenersHoldTheirResource ==
  \A t \in Threads : pc[t] \in {"reserve", "publish"} =>
    LET r == call[t].internal IN
      /\ r # NULL /\ r <= opened /\ resources[r] = "open"
      /\ \A i \in Slots : slots[i].internal # r
      /\ \A h \in issued : h.internal # r
      /\ \A u \in Threads \ {t} :
           pc[u] \in {"reserve", "publish"} => call[u].internal # r

PublishersOwnTheirSlot ==
  \A t \in Threads : pc[t] = "publish" =>
    LET s == slots[call[t].index] IN
      s.in_use /\ s.owner = t /\ s.internal = NULL /\ s.type = call[t].type

\* A slot that holds a resource is in use and holds an open one, except
\* while its owner is between closing the resource and releasing the slot.
SlotsHoldOpen ==
  \A i \in Slots : slots[i].internal # NULL =>
    /\ slots[i].in_use /\ slots[i].owner \in Threads
    /\ slots[i].internal <= opened
    /\ \/ resources[slots[i].internal] = "open"
       \/ pc[slots[i].owner] = "release" /\ call[slots[i].owner].index = i

\* No resource sits in two slots.
NoSharedResource ==
  \A i, j \in Slots :
    slots[i].internal # NULL /\ slots[i].internal = slots[j].internal => i = j

\* Handles are older than their slot's generation, or current; those of a slot
\* being published are all older.
IssuedBeforeNow ==
  \A h \in issued :
    /\ h.generation <= slots[h.index].generation
    /\ h.internal <= opened
    /\ \A t \in Threads : pc[t] = "publish" /\ call[t].index = h.index =>
         h.generation < slots[h.index].generation

ReleasersHoldTheirSlot ==
  \A t \in Threads : pc[t] = "release" =>
    LET s == slots[call[t].index] IN
      s.in_use /\ s.owner = t /\ s.internal = call[t].internal /\ s.internal # NULL

InUseMeansReserved == \A i \in Slots : slots[i].in_use => slots[i].generation # 0

IInv ==
  /\ TypeOK
  /\ OpenersHoldTheirResource
  /\ PublishersOwnTheirSlot
  /\ SlotsHoldOpen
  /\ NoSharedResource
  /\ IssuedBeforeNow
  /\ ReleasersHoldTheirSlot
  /\ InUseMeansReserved
  /\ HandleIdentity
  /\ CallsLive

----------------------------------------------------------------------------
\* The capabilities a caller sees.  A capability exists from the moment its
\* handle is returned to the moment the host closes the resource.
CapOwner ==
  [r \in Resources |->
     IF \E h \in issued : h.internal = r /\ resources[r] = "open"
       THEN (CHOOSE h \in issued : h.internal = r).owner
       ELSE NoThread]

CapGranted == {h.internal : h \in issued}

CapServing ==
  [t \in Threads |->
     IF pc[t] \in {"use", "child", "transfer", "close"}
       THEN call[t].internal ELSE NULL]

Caps == INSTANCE PalCapabilities
          WITH owner <- CapOwner, granted <- CapGranted, serving <- CapServing

\* The table implements the capability discipline.
ImplementsCapabilities == Caps!ASpec
=============================================================================
