------------------------------ MODULE Materials ------------------------------
(***************************************************************************)
(* The catalogue of materials: what MaterialsService lets operators do to   *)
(* it, the copy a phone keeps of it, and the code a collector selects and   *)
(* signs.  A code is part of signed payloads, and neither events nor        *)
(* batches hold a foreign key to it: that a used code is never deleted, and *)
(* that a phone only signs codes its backend knows, is up to this code.     *)
(*                                                                         *)
(* A call of the backend reads in one statement and writes in a later one.  *)
(* Names, descriptions and the order of a list are left out, and so is the  *)
(* collector's phone beyond its selection: a signed weigh-in is its code.   *)
(***************************************************************************)
EXTENDS Naturals, FiniteSets

CONSTANTS
    Codes, Seeded,   \* SEED_MATERIALS, compiled into the app
    Backends,
    Managed,         \* bound: the backends whose operators change anything
    Procs,           \* bound: calls the backends serve at once
    MaxFetches,      \* bound: fetches of the catalogue under way at once
    None

\* What the constants have to be.
MaterialsAssumption ==
    /\ Seeded \subseteq Codes /\ Seeded # {}
    /\ None \notin Codes \cup Backends
    /\ Managed \subseteq Backends /\ MaxFetches \in Nat

VARIABLES
    catalogue, used,        \* by backend: its materials, and those with events or batches
    call,                   \* the calls in flight
    url, cache, material,   \* the phone: backendUrl(), the cached catalogue, the selection
    fetches,                \* GET /materials on its way
    queue                   \* the codes of the weigh-ins it holds signed

server == <<catalogue, used, call>>
phone == <<url, cache, material, fetches, queue>>
vars == <<server, phone>>

-----------------------------------------------------------------------------
Status == {"absent", "active", "retired"}

Listing == [Codes -> Status]

Known(list) == {c \in Codes : list[c] # "absent"}

Active(list) == {c \in Codes : list[c] = "active"}

Copy == [origin: Backends, list: Listing]

Idle == [op |-> "idle", at |-> None, code |-> None, status |-> None]

Call ==
    [op: {"idle", "create", "update", "remove", "ingest", "open"}, at: Backends \cup {None},
     code: Codes \cup {None}, status: Status \cup {None}]

TypeOK ==
    /\ catalogue \in [Backends -> Listing]
    /\ used \in [Backends -> SUBSET Codes]
    /\ call \in [Procs -> Call]
    /\ url \in Backends
    /\ cache \in Copy \cup {None}
    /\ material \in Codes
    /\ fetches \in [1..MaxFetches -> Copy \cup {None}]
    /\ queue \subseteq Codes

-----------------------------------------------------------------------------
(* The phone's list                                                        *)

\* readCache(): another backend's list is no list.
Cached(copy) == copy # None /\ copy.origin = url

\* pickableMaterials(): what a collector may choose; never nothing.
PickableFrom(copy) ==
    IF Cached(copy) /\ Active(copy.list) # {} THEN Active(copy.list) ELSE Seeded

Pickable == PickableFrom(cache)

\* A migrated backend has the codes of the seed, and the app starts with its first choice.
Init ==
    /\ catalogue \in [Backends -> {l \in Listing : Known(l) = Seeded /\ Active(l) = Seeded}]
    /\ used = [b \in Backends |-> {}]
    /\ call = [p \in Procs |-> Idle]
    /\ url \in Backends
    /\ cache = None
    /\ material \in Seeded
    /\ fetches = [i \in 1..MaxFetches |-> None]
    /\ queue = {}

-----------------------------------------------------------------------------
(* MaterialsService                                                        *)

Starts(p, op, b, c, status) ==
    /\ call[p].op = "idle"
    /\ call' = [call EXCEPT ![p] = [op |-> op, at |-> b, code |-> c, status |-> status]]
    /\ UNCHANGED <<catalogue, used, phone>>

Ends(p) == call' = [call EXCEPT ![p] = Idle]

At(p) == call[p].at

Writes(p, status) ==
    catalogue' = [catalogue EXCEPT ![At(p)][call[p].code] = status]

\* create(): a code the catalogue has is refused, retired or not.
CreateRead(p, b, c) ==
    /\ catalogue[b][c] = "absent"
    /\ \E status \in {"active", "retired"} : Starts(p, "create", b, c, status)

\* save() looks for the key first: a row that is there by now is overwritten.
CreateSave(p) ==
    /\ call[p].op = "create"
    /\ Writes(p, call[p].status)
    /\ Ends(p)
    /\ UNCHANGED <<used, phone>>

\* update(): the row is loaded, and changed or, in an edit of its name, not.
UpdateRead(p, b, c) ==
    /\ catalogue[b][c] # "absent"
    /\ \E status \in {"active", "retired"} : Starts(p, "update", b, c, status)

\* save() writes the entity as it was loaded and changed, and inserts it if it has gone.
UpdateSave(p) ==
    /\ call[p].op = "update"
    /\ Writes(p, call[p].status)
    /\ Ends(p)
    /\ UNCHANGED <<used, phone>>

\* Slip: uses are not counted.
RemovableKnown(b, c) == catalogue[b][c] # "absent"

\* remove(): refused "as soon as any event or batch carries the code".
Removable(b, c) == catalogue[b][c] # "absent" /\ c \notin used[b]

RemoveRead(p, b, c) == Removable(b, c) /\ Starts(p, "remove", b, c, "absent")

\* The foreign key of a rate may refuse it.
RemoveDelete(p) ==
    /\ call[p].op = "remove"
    /\ Writes(p, "absent") \/ UNCHANGED catalogue
    /\ Ends(p)
    /\ UNCHANGED <<used, phone>>

\* assertOpenable(), and BatchesService.create().
Openable(b, c) == catalogue[b][c] = "active"

OpenRead(p, b, c) == Openable(b, c) /\ Starts(p, "open", b, c, None)

OpenSave(p) ==
    /\ call[p].op = "open"
    /\ used' = [used EXCEPT ![At(p)] = @ \cup {call[p].code}]
    /\ Ends(p)
    /\ UNCHANGED <<catalogue, phone>>

\* assertKnown(): "existence only, not activity".
Ingestible(b, c) == catalogue[b][c] # "absent"

\* ingest() of a weigh-in the phone sends to the backend it points at.  One that is refused
\* here stays in the queue, and is sent again at the next pass.
IngestRead(p, c) ==
    /\ c \in queue
    /\ Ingestible(url, c) /\ Starts(p, "ingest", url, c, None)

IngestSave(p) ==
    /\ call[p].op = "ingest"
    /\ used' = [used EXCEPT ![At(p)] = @ \cup {call[p].code}]
    /\ queue' = queue \ {call[p].code}
    /\ Ends(p)
    /\ UNCHANGED <<catalogue, url, cache, material, fetches>>

-----------------------------------------------------------------------------
(* The phone                                                               *)

Free == {i \in 1..MaxFetches : fetches[i] = None}

\* refreshCatalogue() up to its await: the answer is of the backend it was asked of.
Fetching(b) ==
    /\ Free # {}
    /\ fetches' = [fetches EXCEPT ![CHOOSE i \in Free : TRUE] = [origin |-> b, list |-> catalogue[b]]]

\* syncCatalogue(), at the start, on a timer, and when the phone is online again.
Refresh ==
    /\ Fetching(url)
    /\ UNCHANGED <<server, url, cache, material, queue>>

\* reconcileSelection(): the choice stands while it is on offer.
Reconciled(c, copy) == IF c \in PickableFrom(copy) THEN {c} ELSE PickableFrom(copy)

\* An empty catalogue is "not an instruction to blank the picker".
Answer(i) ==
    /\ fetches[i] # None
    /\ LET changed == ~ (Cached(cache) /\ cache = fetches[i]) IN
       IF Known(fetches[i].list) = {} THEN UNCHANGED <<cache, material>>
       ELSE /\ cache' = fetches[i]
            /\ material' \in IF changed THEN Reconciled(material, fetches[i]) ELSE {material}
    /\ fetches' = [fetches EXCEPT ![i] = None]
    /\ UNCHANGED <<server, url, queue>>

\* No answer: what there is stays on screen.
Fail(i) ==
    /\ fetches[i] # None
    /\ fetches' = [fetches EXCEPT ![i] = None]
    /\ UNCHANGED <<server, url, cache, material, queue>>

\* A chip is tapped.
Pick(c) ==
    /\ c \in Pickable /\ c # material
    /\ material' = c
    /\ UNCHANGED <<server, url, cache, fetches, queue>>

\* selectJob(): the pickup decides, with a code its backend knew when it was asked for.
SelectJob(c) ==
    /\ c \in Known(catalogue[url]) /\ c # material
    /\ material' = c
    /\ UNCHANGED <<server, url, cache, fetches, queue>>

\* commit() signs what is selected.
Sign ==
    /\ material \notin queue
    /\ queue' = queue \cup {material}
    /\ UNCHANGED <<server, url, cache, material, fetches>>

\* Signing in to another backend asks for its catalogue; the selection stays meanwhile.
SignIn(b) ==
    /\ b # url
    /\ url' = b
    /\ Fetching(b)
    /\ UNCHANGED <<server, cache, material, queue>>

-----------------------------------------------------------------------------
Operator(p) ==
    \E b \in Managed, c \in Codes :
        CreateRead(p, b, c) \/ UpdateRead(p, b, c) \/ RemoveRead(p, b, c) \/ OpenRead(p, b, c)

Next ==
    \/ \E p \in Procs :
         \/ Operator(p) \/ \E c \in Codes : IngestRead(p, c)
         \/ CreateSave(p) \/ UpdateSave(p) \/ RemoveDelete(p) \/ OpenSave(p) \/ IngestSave(p)
    \/ Refresh \/ \E i \in 1..MaxFetches : Answer(i) \/ Fail(i)
    \/ \E c \in Codes : Pick(c) \/ SelectJob(c)
    \/ Sign \/ \E b \in Backends : SignIn(b)

Spec == Init /\ [][Next]_vars

-----------------------------------------------------------------------------
\* "Used ones must be retired instead": a code in a signed payload or a batch is in the
\* catalogue.
UsedIsKnown == \A b \in Backends : used[b] \subseteq Known(catalogue[b])

\* A weigh-in on the phone is one the backend will take: "the sacks are gone".
SignedIsKnown == queue \subseteq Known(catalogue[url])

\* What is selected is one of the chips on the screen.
SelectedIsOnOffer == material \in Pickable

=============================================================================
