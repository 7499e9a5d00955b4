---------------------------- MODULE BatchRegistry ----------------------------
(***************************************************************************)
(* The batch registry contract: an allow-list of issuers kept by one admin, *)
(* and batches that are registered once and credited once.  A call runs     *)
(* alone, and one that panics changes nothing: the panics are the guards.   *)
(*                                                                         *)
(* The events are kept as published, since "off-chain indexers should be    *)
(* able to reconstruct the registry from the event stream alone".           *)
(*                                                                         *)
(* A persistent entry whose rent has run out is archived: a call that       *)
(* touches it fails until somebody restores it.                             *)
(***************************************************************************)
EXTENDS Naturals, Sequences

CONSTANTS
    Addresses, Ids, Roots,
    Weights,     \* grams, 0 among them
    MaxLedger,   \* bound: ledgers closed
    MaxEvents,   \* bound: events published
    None

ASSUME RegistryAssumption ==
    /\ None \notin Addresses \cup Ids \cup Roots \cup Nat
    /\ Addresses \cap Ids = {}
    /\ Weights \subseteq Nat /\ MaxLedger \in Nat /\ MaxEvents \in Nat

VARIABLES
    admin, issuers, batches,
    published,   \* the events, oldest first
    archived,    \* issuers and batches whose entry is archived
    ledger

vars == <<admin, issuers, batches, published, archived, ledger>>

-----------------------------------------------------------------------------
BatchRecord ==
    [root: Roots, weight: Weights \ {0}, issuer: Addresses, registered: 0..MaxLedger,
     credited: 0..MaxLedger \cup {None}]

ASSUME NoneAssumption == None \notin BatchRecord

\* The events, by their names.
Initialized == "initialized"
Added == "issuer added"
Removed == "issuer removed"
Registered == "batch registered"
Credited == "batch credited"

Event ==
    [kind: {Initialized, Added, Removed}, address: Addresses] \cup
    [kind: {Registered}, id: Ids, record: BatchRecord] \cup
    [kind: {Credited}, id: Ids, address: Addresses, ledger: 0..MaxLedger]

TypeOK ==
    /\ admin \in Addresses \cup {None}
    /\ issuers \subseteq Addresses
    /\ batches \in [Ids -> BatchRecord \cup {None}]
    /\ published \in Seq(Event)
    /\ archived \subseteq Addresses \cup Ids
    /\ ledger \in 0..MaxLedger

Init ==
    /\ admin = None
    /\ issuers = {}
    /\ batches = [b \in Ids |-> None]
    /\ published = << >>
    /\ archived = {}
    /\ ledger = 0

-----------------------------------------------------------------------------
Publish(e) ==
    /\ Len(published) < MaxEvents
    /\ published' = Append(published, e)

Live(key) == key \notin archived

\* The admin's signature is asked for once there is an admin.
AdminSigns(signers) == admin # None /\ admin \in signers

\* Slip: a signature is enough.
IssuerSignsUnlisted(i, signers) == admin # None /\ i \in signers

\* Control of the key, and a place on the list.
IssuerSigns(i, signers) == admin # None /\ i \in signers /\ Live(i) /\ i \in issuers

Initialize(a) ==
    /\ admin = None
    /\ admin' = a
    /\ Publish([kind |-> Initialized, address |-> a])
    /\ UNCHANGED <<issuers, batches, archived, ledger>>

AddIssuer(signers, i) ==
    /\ AdminSigns(signers)
    /\ Live(i) /\ i \notin issuers
    /\ issuers' = issuers \cup {i}
    /\ Publish([kind |-> Added, address |-> i])
    /\ UNCHANGED <<admin, batches, archived, ledger>>

\* The batches it has registered stay.
RemoveIssuer(signers, i) ==
    /\ AdminSigns(signers)
    /\ Live(i) /\ i \in issuers
    /\ issuers' = issuers \ {i}
    /\ Publish([kind |-> Removed, address |-> i])
    /\ UNCHANGED <<admin, batches, archived, ledger>>

\* Slip: an entry that has expired is a missing one, as in temporary storage.
FreeOnceExpired(b) == batches[b] = None \/ ~ Live(b)

\* has_batch() says no; of an archived entry it says nothing.
FreeId(b) == Live(b) /\ batches[b] = None

Register(signers, b, root, weight, i) ==
    /\ IssuerSigns(i, signers)
    /\ weight # 0
    /\ FreeId(b)
    /\ LET record == [root |-> root, weight |-> weight, issuer |-> i, registered |-> ledger,
                      credited |-> None] IN
       /\ batches' = [batches EXCEPT ![b] = record]
       /\ Publish([kind |-> Registered, id |-> b, record |-> record])
    /\ UNCHANGED <<admin, issuers, archived, ledger>>

Creditable(b) == Live(b) /\ batches[b] # None /\ batches[b].credited = None

MarkCredited(signers, b, i) ==
    /\ IssuerSigns(i, signers)
    /\ Creditable(b)
    /\ batches' = [batches EXCEPT ![b].credited = ledger]
    /\ Publish([kind |-> Credited, id |-> b, address |-> i, ledger |-> ledger])
    /\ UNCHANGED <<admin, issuers, archived, ledger>>

-----------------------------------------------------------------------------
(* The network                                                             *)

CloseLedger ==
    /\ ledger < MaxLedger
    /\ ledger' = ledger + 1
    /\ UNCHANGED <<admin, issuers, batches, published, archived>>

\* The rent of an entry runs out.
Archive(key) ==
    /\ key \in issuers \/ (key \in Ids /\ batches[key] # None)
    /\ archived' = archived \cup {key}
    /\ UNCHANGED <<admin, issuers, batches, published, ledger>>

Restore(key) ==
    /\ key \in archived
    /\ archived' = archived \ {key}
    /\ UNCHANGED <<admin, issuers, batches, published, ledger>>

-----------------------------------------------------------------------------
Governance(signers) ==
    \E a \in Addresses : Initialize(a) \/ AddIssuer(signers, a) \/ RemoveIssuer(signers, a)

Issuance(signers) ==
    \E b \in Ids, i \in Addresses :
        \/ MarkCredited(signers, b, i)
        \/ \E root \in Roots, weight \in Weights : Register(signers, b, root, weight, i)

Network == CloseLedger \/ \E key \in Addresses \cup Ids : Archive(key) \/ Restore(key)

Next == Network \/ \E signers \in SUBSET Addresses : Governance(signers) \/ Issuance(signers)

Spec == Init /\ [][Next]_vars

-----------------------------------------------------------------------------
About(event, kind, key) ==
    /\ event.kind = kind
    /\ key = IF kind \in {Registered, Credited} THEN event.id ELSE event.address

EventsOf(stream, kind, key) == {n \in DOMAIN stream : About(stream[n], kind, key)}

\* "Exactly once": no batch is registered twice or credited twice, whoever tries, whoever was
\* revoked and whatever was archived in between.
EachBatchOnce ==
    \A b \in Ids : \A kind \in {Registered, Credited} :
        \A m, n \in EventsOf(published, kind, b) : m = n

\* What a stream tells of a batch: the record it was registered with, the ledger it was
\* credited in, and nothing else.
Tells(stream, b, record) ==
    LET registered == EventsOf(stream, Registered, b)
        credited == EventsOf(stream, Credited, b)
    IN  IF record = None THEN registered = {} /\ credited = {}
        ELSE /\ \E n \in registered : record = [stream[n].record EXCEPT !.credited = record.credited]
             /\ IF record.credited = None THEN credited = {}
                ELSE \E n \in credited : stream[n].ledger = record.credited

\* Up to event n, the latest event about an issuer added it.
ListedBefore(stream, i, n) ==
    \E m \in EventsOf(stream, Added, i) :
        m < n /\ \A k \in EventsOf(stream, Removed, i) : k < m \/ k > n

\* By whom an event about a batch was made, if it is one.
By(event, i) ==
    \/ event.kind = Registered /\ i = event.record.issuer
    \/ event.kind = Credited /\ i = event.address

\* Every batch in the stream was registered and credited by an issuer on the list at that
\* time: revoking a key later does not put what it did in doubt.
StreamIsByIssuers ==
    \A n \in DOMAIN published, i \in Addresses :
        By(published[n], i) => ListedBefore(published, i, n)

\* The stream is the registry.
StreamIsTheRegistry == (\A b \in Ids : Tells(published, b, batches[b])) /\ StreamIsByIssuers

=============================================================================
