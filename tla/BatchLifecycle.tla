--------------------------- MODULE BatchLifecycle ---------------------------
(***************************************************************************)
(* BatchesService: weigh-ins are gathered into a batch, the batch is sealed *)
(* over them, processed and sold.                                          *)
(*                                                                         *)
(* addEvents(), removeEvent() and seal() are transactions that lock the     *)
(* batch's row first; addEvents() is split where it has read the weigh-ins  *)
(* it was asked for and not yet written them, for it locks no weigh-in.     *)
(* The other two write what their own locked row and their last read say,   *)
(* so each is one action.  advanceStatus() takes no lock: it reads, decides  *)
(* and updates.                                                            *)
(*                                                                         *)
(* A Merkle root is the set of weigh-ins it was computed over: their order  *)
(* (capture time, then id) is fixed, and equal roots mean equal leaves.     *)
(* A batch's total weight and event count are the set they were summed over. *)
(***************************************************************************)
EXTENDS Backend, Naturals, FiniteSets

CONSTANTS
    Batches,
    Events,        \* weigh-ins
    Materials,
    HubOf,         \* of each weigh-in
    MaterialOf

ASSUME BatchAssumption ==
    /\ HubOf \in [Events -> Hubs]
    /\ MaterialOf \in [Events -> Materials]
    /\ None \notin Batches

VARIABLES
    batches,     \* the rows, None where there is none
    events,      \* collection_events: "absent", "clean" or "quarantined"
    batchOf,     \* collection_events.batchId
    call         \* what each process is serving

vars == <<batches, events, batchOf, call>>

-----------------------------------------------------------------------------
Status == {"open", "sealed", "processed", "sold"}

\* merkleRoot NULL: no batch is sealed over nothing.
NoRoot == {}

Batch ==
    [hub: Hubs, material: Materials, status: Status,
     root: SUBSET Events, totals: SUBSET Events]

ASSUME NoBatchAssumption == None \notin Batch

\* What a call holds across its awaits: the batch, the weigh-ins addEvents() has
\* found eligible, the status advanceStatus() is about to write.
Call == [at: {"idle", "adding", "advancing"}, b: Batches \cup {None}, es: SUBSET Events, to: Status]

Idle == [at |-> "idle", b |-> None, es |-> {}, to |-> "open"]

TypeOK ==
    /\ batches \in [Batches -> Batch \cup {None}]
    /\ events \in [Events -> {"absent", "clean", "quarantined"}]
    /\ batchOf \in [Events -> Batches \cup {None}]
    /\ call \in [Procs -> Call]

Init ==
    /\ batches = [b \in Batches |-> None]
    /\ events = [e \in Events |-> "absent"]
    /\ batchOf = [e \in Events |-> None]
    /\ call = [p \in Procs |-> Idle]

Made(b) == batches[b] # None
Stage(b) == batches[b].status
Members(b) == {e \in Events : batchOf[e] = b}

\* SELECT ... FOR UPDATE by addEvents(), held until it commits.
Locked(b) == \E p \in Procs : call[p].at = "adding" /\ call[p].b = b

LockedAndOpen(b) == Made(b) /\ ~ Locked(b) /\ Stage(b) = "open"

-----------------------------------------------------------------------------
\* EventsService.ingest(), as far as batches look at it.
Ingest(e, verdict) ==
    /\ events[e] = "absent"
    /\ events' = [events EXCEPT ![e] = verdict]
    /\ UNCHANGED <<batches, batchOf, call>>

Create(b, h, m) ==
    /\ ~ Made(b)
    /\ batches' = [batches EXCEPT ![b] =
          [hub |-> h, material |-> m, status |-> "open", root |-> NoRoot, totals |-> {}]]
    /\ UNCHANGED <<events, batchOf, call>>

\* Slip: nobody looks whether a weigh-in is in a batch already.
EligibleAgain(e, b) ==
    /\ events[e] = "clean"
    /\ HubOf[e] = batches[b].hub
    /\ MaterialOf[e] = batches[b].material

\* Slip: a quarantined weigh-in can be batched.
EligibleUnchecked(e, b) ==
    /\ events[e] # "absent"
    /\ batchOf[e] = None
    /\ HubOf[e] = batches[b].hub
    /\ MaterialOf[e] = batches[b].material

\* In no batch, past the integrity checks, and of the batch's hub and material.
Eligible(e, b) ==
    /\ events[e] = "clean"
    /\ batchOf[e] = None
    /\ HubOf[e] = batches[b].hub
    /\ MaterialOf[e] = batches[b].material

AddRead(p, b, es) ==
    /\ call[p].at = "idle"
    /\ LockedAndOpen(b)
    /\ es # {}
    /\ \A e \in es : Eligible(e, b)
    /\ call' = [call EXCEPT ![p] = [Idle EXCEPT !.at = "adding", !.b = b, !.es = es]]
    /\ UNCHANGED <<batches, events, batchOf>>

\* UPDATE collection_events SET batchId = b WHERE id IN (...), wherever they are now,
\* and recomputeTotals() over the batch as it then is.
AddCommit(p) ==
    /\ call[p].at = "adding"
    /\ LET b == call[p].b
           es == call[p].es
       IN /\ batchOf' = [e \in Events |-> IF e \in es THEN b ELSE batchOf[e]]
          /\ batches' = [batches EXCEPT ![b].totals = Members(b) \cup es]
    /\ call' = [call EXCEPT ![p] = Idle]
    /\ UNCHANGED events

\* Slip: removing waits for the row and does not look at the status.
RemoveFromAny(b) == Made(b) /\ ~ Locked(b)

RemoveFrom(b) == LockedAndOpen(b)

Remove(b, e) ==
    /\ RemoveFrom(b)
    /\ batchOf[e] = b
    /\ batchOf' = [batchOf EXCEPT ![e] = None]
    /\ batches' = [batches EXCEPT ![b].totals = Members(b) \ {e}]
    /\ UNCHANGED <<events, call>>

SealNow(b) == LockedAndOpen(b)

SealedStatus == "sealed"

Seal(b) ==
    /\ SealNow(b)
    /\ Members(b) # {}
    /\ \A e \in Members(b) : events[e] # "quarantined"
    /\ batches' = [batches EXCEPT ![b].status = SealedStatus, ![b].root = Members(b),
                                  ![b].totals = Members(b)]
    /\ UNCHANGED <<events, batchOf, call>>

\* LEGAL_TRANSITIONS.
Follows(from) ==
    CASE from = "open"      -> {"sealed"}
      [] from = "sealed"    -> {"processed"}
      [] from = "processed" -> {"sold"}
      [] OTHER              -> {}

\* Slip: "sealed" can be set like any other status, root or no root.
CanAdvanceByHand(b, to) == to \in Follows(Stage(b))

CanAdvance(b, to) ==
    /\ to \in Follows(Stage(b)) \ {"sealed"}
    /\ to = "processed" => batches[b].root # NoRoot

AdvanceRead(p, b, to) ==
    /\ call[p].at = "idle"
    /\ Made(b)
    /\ CanAdvance(b, to)
    /\ call' = [call EXCEPT ![p] = [Idle EXCEPT !.at = "advancing", !.b = b, !.to = to]]
    /\ UNCHANGED <<batches, events, batchOf>>

\* UPDATE batches SET status WHERE id: it waits for a lock on the row, and for nothing else.
AdvanceWrite(p) ==
    /\ call[p].at = "advancing"
    /\ ~ Locked(call[p].b)
    /\ batches' = [batches EXCEPT ![call[p].b].status = call[p].to]
    /\ call' = [call EXCEPT ![p] = Idle]
    /\ UNCHANGED <<events, batchOf>>

\* The call dies and its transaction is rolled back.
Crash(p) ==
    /\ call[p].at # "idle"
    /\ call' = [call EXCEPT ![p] = Idle]
    /\ UNCHANGED <<batches, events, batchOf>>

Next ==
    \/ \E e \in Events, verdict \in {"clean", "quarantined"} : Ingest(e, verdict)
    \/ \E b \in Batches :
         \/ Seal(b)
         \/ \E h \in Hubs, m \in Materials : Create(b, h, m)
         \/ \E e \in Events : Remove(b, e)
    \/ \E p \in Procs :
         \/ AddCommit(p) \/ AdvanceWrite(p) \/ Crash(p)
         \/ \E b \in Batches :
              \/ \E es \in SUBSET Events : AddRead(p, b, es)
              \/ \E to \in Status : AdvanceRead(p, b, to)

Spec == Init /\ [][Next]_vars

-----------------------------------------------------------------------------
(* What holds whatever calls race                                          *)

Sealed(b) == Made(b) /\ Stage(b) # "open"

\* A batch has a root from the moment it is sealed, of at least one weigh-in, and
\* the weight it is sold by is that of the weigh-ins under the root (seal() against
\* addEvents(), removeEvent() and advanceStatus() on one row).
SealedTotalsAreTheRoots ==
    \A b \in Batches :
        Made(b) =>
            /\ Sealed(b) <=> batches[b].root # NoRoot
            /\ Sealed(b) => batches[b].totals = batches[b].root

\* Nothing quarantined, of another hub or of another material is in a batch or under
\* its root, even where two calls fought over a weigh-in.
BatchIsPure ==
    \A b \in Batches : Made(b) =>
        \A e \in Members(b) \cup batches[b].root :
            /\ events[e] = "clean"
            /\ HubOf[e] = batches[b].hub
            /\ MaterialOf[e] = batches[b].material

\* "Set exactly once, at seal time.  Never recomputed": no call, however late it
\* writes, changes the root or the totals of a sealed batch.
RootNeverChanges ==
    [][\A b \in Batches : Sealed(b) =>
          /\ batches'[b].root = batches[b].root
          /\ batches'[b].totals = batches[b].totals]_vars

-----------------------------------------------------------------------------
(* What the documentation says, and holds while calls do not overlap       *)

\* verifyEvent(): the proof is built from the batch's weigh-ins as they are now, and
\* leads to the sealed root only if they are the ones it was computed over.
Verifies(b, e) ==
    /\ batches[b].root # NoRoot
    /\ e \in Members(b)
    /\ Members(b) = batches[b].root

\* "After it, its membership and Merkle root are frozen": every weigh-in that was
\* sealed, or is in a sealed batch now, can be verified against the batch's root.
SealedMembershipFrozen ==
    \A b \in Batches : Sealed(b) =>
        \A e \in Members(b) \cup batches[b].root : Verifies(b, e)

\* The lifecycle runs open, sealed, processed, sold, and never back.
LifecycleMovesForward ==
    [][\A b \in Batches : Made(b) => batches'[b].status \in Follows(Stage(b)) \cup {Stage(b)}]_vars

\* Every change to a batch is one of SealedOnce's.
Lots == INSTANCE SealedOnce WITH
    Lots   <- Batches,
    Items  <- Events,
    stage  <- [b \in Batches |-> IF Made(b) THEN Stage(b) ELSE "open"],
    sealed <- [b \in Batches |-> IF Made(b) THEN batches[b].root ELSE NoRoot]

\* No weigh-in is sold twice: sealed batches never share one, and each batch is
\* sealed, processed and sold once.
BatchesSellEachWeighInOnce == Lots!Spec

=============================================================================
