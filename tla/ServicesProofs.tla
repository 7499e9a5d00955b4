--------------------------- MODULE ServicesProofs ---------------------------
(***************************************************************************)
(* Proofs about the smaller services, for any number of codes, backends,   *)
(* handlers, uploads, photos, clients and days: the registry contract, the *)
(* catalogue of materials, pairing, photos, the dashboard, the rate limiter*)
(* and the audit report.  Each has its invariant, where need be of what    *)
(* holds as long as the steps it cannot stand have not been met; the       *)
(* theorems say nothing less than the runs check, and also of what comes   *)
(* after those steps, which the runs do not explore.                       *)
(***************************************************************************)
EXTENDS MCServices, TLAPS, FiniteSetTheorems, SequenceTheorems, SumTheorems

\* Every service is one part of MCServices: a step is a step of one of them, and what it has met
\* it has met for good.
MCvars == <<part, met, edits, vars, catalogued, paired, kept, limited, reported, shown>>

LEMMA OnePart ==
    ASSUME [MCNext]_MCvars
    PROVE  /\ part' = part /\ met \subseteq met'
           /\ (part = "catalogue" /\ Catalogue!Next /\ CatalogueMeets \subseteq met') \/ UNCHANGED catalogued
           /\ (part = "phone" /\ Phone!Next /\ PhoneMeets \subseteq met') \/ UNCHANGED paired
           /\ (part = "evidence" /\ Evidence!Next /\ EvidenceMeets \subseteq met') \/ UNCHANGED kept
           /\ (part = "guard" /\ Guard!Next) \/ UNCHANGED limited
           /\ (part = "proofs" /\ Report!Rewrite) \/ (part = "custody" /\ Report!Custody) \/ UNCHANGED reported
           /\ (part = "dashboard" /\ Dashboard!Next) \/ UNCHANGED shown
<1>1. CASE Serves("registry", Next, {}) /\ UNCHANGED <<edits, catalogued, paired, kept, limited, reported, shown>>
  BY <1>1 DEF Serves
<1>2. CASE Serves("catalogue", Catalogue!Next, CatalogueMeets)
           /\ UNCHANGED <<vars, paired, kept, limited, reported, shown>>
  BY <1>2 DEF Serves
<1>3. CASE Serves("phone", Phone!Next, PhoneMeets)
           /\ UNCHANGED <<edits, vars, catalogued, kept, limited, reported, shown>>
  BY <1>3 DEF Serves
<1>4. CASE Serves("evidence", Evidence!Next, EvidenceMeets)
           /\ UNCHANGED <<edits, vars, catalogued, paired, limited, reported, shown>>
  BY <1>4 DEF Serves
<1>5. CASE /\ Serves("guard", Guard!Next, {})
           /\ UNCHANGED <<edits, vars, catalogued, paired, kept, reported, shown>>
  BY <1>5 DEF Serves
<1>6. CASE /\ \/ Serves("proofs", Report!Rewrite /\ Cardinality(Reweighed(rows')) <= OtherWeights, {})
              \/ Serves("custody", Report!Custody, {})
           /\ UNCHANGED <<edits, vars, catalogued, paired, kept, limited, shown>>
  BY <1>6 DEF Serves
<1>7. CASE /\ Serves("dashboard", Dashboard!Next, {})
           /\ UNCHANGED <<edits, vars, catalogued, paired, kept, limited, reported>>
  BY <1>7 DEF Serves
<1>8. CASE UNCHANGED MCvars
  BY <1>8 DEF MCvars
<1> QED BY <1>1, <1>2, <1>3, <1>4, <1>5, <1>6, <1>7, <1>8 DEF MCNext

-----------------------------------------------------------------------------
(***************************************************************************)
(* The registry contract: a batch is registered once and credited once, and *)
(* whoever has the event stream has the registry                           *)
(***************************************************************************)
(* A stream, and an event published after all the others                   *)

LEMMA AfterTheOthers ==
    ASSUME NEW s \in Seq(Event), NEW e \in Event
    PROVE  /\ Append(s, e) \in Seq(Event)
           /\ Len(s) \in Nat /\ Len(Append(s, e)) = Len(s) + 1
           /\ DOMAIN s = 1..Len(s)
           /\ DOMAIN Append(s, e) = 1..(Len(s) + 1)
           /\ \A n \in 1..Len(s) : Append(s, e)[n] = s[n]
           /\ Append(s, e)[Len(s) + 1] = e
OBVIOUS

LEMMA EventsAreEarlier ==
    ASSUME NEW s \in Seq(Event), NEW kind, NEW topic, NEW n \in EventsOf(s, kind, topic)
    PROVE  n \in 1..Len(s) /\ n \in Nat /\ n < Len(s) + 1 /\ About(s[n], kind, topic)
BY DEF EventsOf

LEMMA EventsAfter ==
    ASSUME NEW s \in Seq(Event), NEW e \in Event, NEW kind, NEW topic
    PROVE  EventsOf(Append(s, e), kind, topic) =
              EventsOf(s, kind, topic) \cup {n \in {Len(s) + 1} : About(e, kind, topic)}
<1> DEFINE t == Append(s, e)
<1>1. /\ Len(s) \in Nat /\ DOMAIN s = 1..Len(s) /\ DOMAIN t = 1..(Len(s) + 1)
      /\ \A n \in 1..Len(s) : t[n] = s[n]
      /\ t[Len(s) + 1] = e
  BY AfterTheOthers
<1>2. EventsOf(t, kind, topic) = {n \in 1..(Len(s) + 1) : About(t[n], kind, topic)}
  BY <1>1 DEF EventsOf
<1>3. EventsOf(s, kind, topic) = {n \in 1..Len(s) : About(s[n], kind, topic)}
  BY <1>1 DEF EventsOf
<1>4. 1..(Len(s) + 1) = 1..Len(s) \cup {Len(s) + 1} BY <1>1
<1> HIDE DEF t
<1>5. EventsOf(t, kind, topic) = EventsOf(s, kind, topic) \cup {n \in {Len(s) + 1} : About(e, kind, topic)}
  BY <1>1, <1>2, <1>3, <1>4
<1> QED BY <1>5 DEF t

\* An event that is not about a topic leaves its events as they are.
LEMMA NotAbout ==
    ASSUME NEW s \in Seq(Event), NEW e \in Event, NEW kind, NEW topic, ~ About(e, kind, topic)
    PROVE  EventsOf(Append(s, e), kind, topic) = EventsOf(s, kind, topic)
<1>1. EventsOf(Append(s, e), kind, topic) =
         EventsOf(s, kind, topic) \cup {n \in {Len(s) + 1} : About(e, kind, topic)}
  BY EventsAfter
<1>2. {n \in {Len(s) + 1} : About(e, kind, topic)} = {} OBVIOUS
<1> QED BY <1>1, <1>2

\* One that is about it is the latest of them.
LEMMA IsAbout ==
    ASSUME NEW s \in Seq(Event), NEW e \in Event, NEW kind, NEW topic, About(e, kind, topic)
    PROVE  EventsOf(Append(s, e), kind, topic) = EventsOf(s, kind, topic) \cup {Len(s) + 1}
<1>1. EventsOf(Append(s, e), kind, topic) =
         EventsOf(s, kind, topic) \cup {n \in {Len(s) + 1} : About(e, kind, topic)}
  BY EventsAfter
<1>2. {n \in {Len(s) + 1} : About(e, kind, topic)} = {Len(s) + 1} OBVIOUS
<1> QED BY <1>1, <1>2

\* Either way, the earlier ones stay and only this one is new.
LEMMA EventsStay ==
    ASSUME NEW s \in Seq(Event), NEW e \in Event, NEW kind, NEW topic
    PROVE  /\ EventsOf(s, kind, topic) \subseteq EventsOf(Append(s, e), kind, topic)
           /\ EventsOf(Append(s, e), kind, topic) \subseteq EventsOf(s, kind, topic) \cup {Len(s) + 1}
<1>1. CASE About(e, kind, topic)
  <2>1. EventsOf(Append(s, e), kind, topic) = EventsOf(s, kind, topic) \cup {Len(s) + 1} BY <1>1, IsAbout
  <2> QED BY <2>1
<1>2. CASE ~ About(e, kind, topic)
  <2>1. EventsOf(Append(s, e), kind, topic) = EventsOf(s, kind, topic) BY <1>2, NotAbout
  <2> QED BY <2>1
<1> QED BY <1>1, <1>2

\* What the stream has said of an issuer is not unsaid.
LEMMA ListedStays ==
    ASSUME NEW s \in Seq(Event), NEW e \in Event, NEW i, NEW n \in 1..Len(s), ListedBefore(s, i, n)
    PROVE  ListedBefore(Append(s, e), i, n)
<1>1. PICK m \in EventsOf(s, Added, i) :
         m < n /\ \A k \in EventsOf(s, Removed, i) : k < m \/ k > n
  BY DEF ListedBefore
<1>2. EventsOf(s, Added, i) \subseteq EventsOf(Append(s, e), Added, i)
  BY EventsStay
<1>3. ASSUME NEW k \in EventsOf(Append(s, e), Removed, i) PROVE k < m \/ k > n
  <2>0. EventsOf(Append(s, e), Removed, i)
           \subseteq EventsOf(s, Removed, i) \cup {Len(s) + 1}
    BY EventsStay
  <2>1. k \in EventsOf(s, Removed, i) \/ k = Len(s) + 1 BY <1>3, <2>0
  <2>2. Len(s) \in Nat BY AfterTheOthers
  <2> QED BY <1>1, <2>1, <2>2
<1> QED BY <1>1, <1>2, <1>3 DEF ListedBefore

\* One who is listed now stays listed over an event that does not remove them.
LEMMA ListedGoesOn ==
    ASSUME NEW s \in Seq(Event), NEW e \in Event, NEW i, ~ About(e, Removed, i),
           ListedBefore(s, i, Len(s) + 1)
    PROVE  /\ ListedBefore(Append(s, e), i, Len(s) + 1)
           /\ ListedBefore(Append(s, e), i, Len(s) + 2)
<1>1. PICK m \in EventsOf(s, Added, i) :
         /\ m < Len(s) + 1
         /\ \A k \in EventsOf(s, Removed, i) : k < m \/ k > Len(s) + 1
  BY DEF ListedBefore
<1>0. EventsOf(s, Added, i) \subseteq EventsOf(Append(s, e), Added, i)
  BY EventsStay
<1>2. m \in EventsOf(Append(s, e), Added, i) /\ m \in Nat BY <1>0, EventsAreEarlier
<1>3. EventsOf(Append(s, e), Removed, i) = EventsOf(s, Removed, i) BY NotAbout
<1>4. Len(s) \in Nat BY AfterTheOthers
<1>5. \A k \in EventsOf(Append(s, e), Removed, i) : k < m
  <2> TAKE k \in EventsOf(Append(s, e), Removed, i)
  <2>1. k \in EventsOf(s, Removed, i) BY <1>3
  <2>2. k \in Nat /\ k < Len(s) + 1 BY <2>1, EventsAreEarlier
  <2> QED BY <1>1, <1>4, <2>1, <2>2
<1>6. m < Len(s) + 1 /\ m < Len(s) + 2 BY <1>1, <1>2, <1>4
<1> QED BY <1>2, <1>5, <1>6 DEF ListedBefore

\* One whom the next event adds is listed after it.
LEMMA ListedOnceAdded ==
    ASSUME NEW s \in Seq(Event), NEW e \in Event, NEW i, About(e, Added, i),
           ~ About(e, Removed, i)
    PROVE  ListedBefore(Append(s, e), i, Len(s) + 2)
<1>1. Len(s) \in Nat BY AfterTheOthers
<1>2. EventsOf(Append(s, e), Added, i) = EventsOf(s, Added, i) \cup {Len(s) + 1}
  BY IsAbout
<1>3. EventsOf(Append(s, e), Removed, i) = EventsOf(s, Removed, i) BY NotAbout
<1>4. \A k \in EventsOf(s, Removed, i) : k < Len(s) + 1 BY EventsAreEarlier
<1>5. Len(s) + 1 < Len(s) + 2 BY <1>1
<1>6. Len(s) + 1 \in EventsOf(Append(s, e), Added, i) BY <1>2
<1> QED BY <1>3, <1>4, <1>5, <1>6 DEF ListedBefore

-----------------------------------------------------------------------------
(* The inductive invariant, one part at a time                             *)

\* The list is what the stream says so far: without it, an issuer whom the stream never
\* named could register.
ListIsInStream == \A i \in issuers : ListedBefore(published, i, Len(published) + 1)

RegistryInv == TypeOK /\ EachBatchOnce /\ StreamIsTheRegistry /\ ListIsInStream

\* An event that tells of no batch says nothing new of any.
LEMMA TellsTheSame ==
    ASSUME NEW s \in Seq(Event), NEW e \in Event, NEW b, NEW record,
           ~ About(e, Registered, b), ~ About(e, Credited, b), Tells(s, b, record)
    PROVE  Tells(Append(s, e), b, record)
<1>1. /\ EventsOf(Append(s, e), Registered, b) = EventsOf(s, Registered, b)
      /\ EventsOf(Append(s, e), Credited, b) = EventsOf(s, Credited, b)
  BY NotAbout
<1>2. \A kind : \A n \in EventsOf(s, kind, b) : Append(s, e)[n] = s[n]
  BY AfterTheOthers, EventsAreEarlier
<1> QED BY <1>1, <1>2 DEF Tells

\* An event that no issuer made leaves the others as they were made.
LEMMA MadeTheSame ==
    ASSUME TypeOK, StreamIsByIssuers, NEW e \in Event, Publish(e),
           \A i \in Addresses : By(e, i) => ListedBefore(published', i, Len(published) + 1)
    PROVE  StreamIsByIssuers'
<1>1. published \in Seq(Event) /\ published' = Append(published, e) BY DEF TypeOK, Publish
<1>2. SUFFICES ASSUME NEW n \in DOMAIN published', NEW i \in Addresses, By(published'[n], i)
               PROVE  ListedBefore(published', i, n)
  BY DEF StreamIsByIssuers
<1>3. n \in 1..Len(published) \/ n = Len(published) + 1 BY <1>1, AfterTheOthers
<1>4. CASE n \in 1..Len(published)
  <2>1. published'[n] = published[n] /\ n \in DOMAIN published BY <1>1, <1>4, AfterTheOthers
  <2>2. ListedBefore(published, i, n) BY <1>2, <2>1 DEF StreamIsByIssuers
  <2> QED BY <1>1, <1>4, <2>2, ListedStays
<1>5. CASE n = Len(published) + 1
  <2>1. published'[n] = e BY <1>1, <1>5, AfterTheOthers
  <2> QED BY <1>2, <1>5, <2>1
<1> QED BY <1>3, <1>4, <1>5

\* An event that tells of no batch leaves each as unique.
LEMMA OnceTheSame ==
    ASSUME TypeOK, EachBatchOnce, NEW e \in Event, Publish(e),
           \A b \in Ids : \A kind \in {Registered, Credited} :
              About(e, kind, b) => EventsOf(published, kind, b) = {}
    PROVE  EachBatchOnce'
<1>1. published \in Seq(Event) /\ published' = Append(published, e) BY DEF TypeOK, Publish
<1>2. SUFFICES ASSUME NEW b \in Ids, NEW kind \in {Registered, Credited},
                      NEW m \in EventsOf(published', kind, b), NEW n \in EventsOf(published', kind, b)
               PROVE  m = n
  BY DEF EachBatchOnce
<1>3. CASE About(e, kind, b)
  <2>1. EventsOf(published, kind, b) = {} BY <1>3
  <2>2. EventsOf(published', kind, b) \subseteq {Len(published) + 1} BY <1>1, <1>3, <2>1, IsAbout
  <2> QED BY <1>2, <2>2
<1>4. CASE ~ About(e, kind, b)
  BY <1>1, <1>4, NotAbout DEF EachBatchOnce
<1> QED BY <1>3, <1>4

LEMMA ListTheSame ==
    ASSUME TypeOK, ListIsInStream, NEW e \in Event, Publish(e),
           \A i \in issuers' :
              /\ ~ About(e, Removed, i)
              /\ i \in issuers \/ About(e, Added, i)
    PROVE  ListIsInStream'
<1>1. published \in Seq(Event) /\ published' = Append(published, e) BY DEF TypeOK, Publish
<1>2. Len(published') + 1 = Len(published) + 2 BY <1>1, AfterTheOthers
<1>3. SUFFICES ASSUME NEW i \in issuers' PROVE ListedBefore(published', i, Len(published) + 2)
  BY <1>2 DEF ListIsInStream
<1>4. CASE i \in issuers BY <1>1, <1>4, ListedGoesOn DEF ListIsInStream
<1>5. CASE About(e, Added, i) BY <1>1, <1>5, ListedOnceAdded
<1> QED BY <1>4, <1>5

-----------------------------------------------------------------------------
(* The first state                                                         *)

LEMMA RegistryInit == Init => RegistryInv
<1> SUFFICES ASSUME Init PROVE RegistryInv OBVIOUS
<1>1. published = <<>> BY DEF Init
<1>2. TypeOK BY RegistryAssumption DEF Init, TypeOK
<1>3. \A kind, topic : EventsOf(published, kind, topic) = {} BY <1>1 DEF EventsOf
<1>4. EachBatchOnce BY <1>3 DEF EachBatchOnce
<1>5. \A b \in Ids : Tells(published, b, batches[b]) BY <1>3 DEF Init, Tells
<1>6. StreamIsByIssuers BY <1>1 DEF StreamIsByIssuers
<1>7. ListIsInStream BY DEF Init, ListIsInStream
<1> QED BY <1>2, <1>4, <1>5, <1>6, <1>7 DEF RegistryInv, StreamIsTheRegistry

-----------------------------------------------------------------------------
(* Governance                                                              *)

\* An event about an address: it says nothing of a batch, and nobody made it.
Governed(e) == \E kind \in {Initialized, Added, Removed}, a \in Addresses : e = [kind |-> kind, address |-> a]

LEMMA GovernedEvent ==
    ASSUME NEW e, Governed(e)
    PROVE  /\ e \in Event
           /\ \A b \in Ids : ~ About(e, Registered, b) /\ ~ About(e, Credited, b)
           /\ \A i \in Addresses : ~ By(e, i)
<1>1. PICK kind \in {Initialized, Added, Removed}, a \in Addresses : e = [kind |-> kind, address |-> a]
  BY DEF Governed
<1>2. e \in Event BY <1>1 DEF Event
<1>3. e.kind # Registered /\ e.kind # Credited
  BY <1>1 DEF Initialized, Added, Removed, Registered, Credited
<1> QED BY <1>2, <1>3 DEF About, By

LEMMA GovernanceKeeps ==
    ASSUME RegistryInv, NEW e, Governed(e), Publish(e), UNCHANGED <<batches, archived, ledger>>,
           admin' \in Addresses \cup {None}, issuers' \subseteq Addresses,
           \A i \in issuers' : ~ About(e, Removed, i) /\ (i \in issuers \/ About(e, Added, i))
    PROVE  RegistryInv'
<1>1. TypeOK /\ e \in Event /\ published' = Append(published, e) /\ published \in Seq(Event)
  BY GovernedEvent DEF RegistryInv, TypeOK, Publish
<1>2. TypeOK' BY <1>1, AfterTheOthers DEF TypeOK
<1>3. EachBatchOnce'
  <2>1. \A b \in Ids : \A kind \in {Registered, Credited} : ~ About(e, kind, b) BY GovernedEvent
  <2> QED BY <1>1, <2>1, OnceTheSame DEF RegistryInv
<1>4. \A b \in Ids : Tells(published', b, batches'[b])
  <2> TAKE b \in Ids
  <2>1. Tells(published, b, batches[b]) BY DEF RegistryInv, StreamIsTheRegistry
  <2>2. ~ About(e, Registered, b) /\ ~ About(e, Credited, b) BY GovernedEvent
  <2>3. Tells(Append(published, e), b, batches[b]) BY <1>1, <2>1, <2>2, TellsTheSame
  <2> QED BY <1>1, <2>3
<1>5. StreamIsByIssuers'
  <2>1. \A i \in Addresses : ~ By(e, i) BY GovernedEvent
  <2> QED BY <1>1, <2>1, MadeTheSame DEF RegistryInv, StreamIsTheRegistry
<1>6. ListIsInStream' BY <1>1, ListTheSame DEF RegistryInv
<1> QED BY <1>2, <1>3, <1>4, <1>5, <1>6 DEF RegistryInv, StreamIsTheRegistry

LEMMA InitializeKeeps == ASSUME RegistryInv, NEW a \in Addresses, Initialize(a) PROVE RegistryInv'
<1> DEFINE e == [kind |-> Initialized, address |-> a]
<1>1. Governed(e) BY DEF Governed
<1>2. \A i : ~ About(e, Removed, i) BY DEF About, Initialized, Removed
<1>3. /\ Publish(e) /\ UNCHANGED <<batches, archived, ledger>>
      /\ admin' = a /\ issuers' = issuers /\ issuers \subseteq Addresses
  BY DEF Initialize, RegistryInv, TypeOK
<1> HIDE DEF e
<1> QED BY <1>1, <1>2, <1>3, GovernanceKeeps

LEMMA AddIssuerKeeps ==
    ASSUME RegistryInv, NEW signers, NEW i \in Addresses, AddIssuer(signers, i) PROVE RegistryInv'
<1> DEFINE e == [kind |-> Added, address |-> i]
<1>1. Governed(e) BY DEF Governed
<1>2. \A j : ~ About(e, Removed, j) BY DEF About, Added, Removed
<1>3. About(e, Added, i) BY DEF About, Added, Registered, Credited
<1>4. /\ Publish(e) /\ UNCHANGED <<batches, archived, ledger>>
      /\ admin' = admin /\ admin \in Addresses \cup {None}
      /\ issuers' = issuers \cup {i} /\ issuers \subseteq Addresses
  BY DEF AddIssuer, RegistryInv, TypeOK
<1> HIDE DEF e
<1> QED BY <1>1, <1>2, <1>3, <1>4, GovernanceKeeps

LEMMA RemoveIssuerKeeps ==
    ASSUME RegistryInv, NEW signers, NEW i \in Addresses, RemoveIssuer(signers, i) PROVE RegistryInv'
<1> DEFINE e == [kind |-> Removed, address |-> i]
<1>1. Governed(e) BY DEF Governed
<1>2. \A j : j # i => ~ About(e, Removed, j) BY DEF About, Removed, Registered, Credited
<1>3. /\ Publish(e) /\ UNCHANGED <<batches, archived, ledger>>
      /\ admin' = admin /\ admin \in Addresses \cup {None}
      /\ issuers' = issuers \ {i} /\ issuers \subseteq Addresses
  BY DEF RemoveIssuer, RegistryInv, TypeOK
<1> HIDE DEF e
<1> QED BY <1>1, <1>2, <1>3, GovernanceKeeps

-----------------------------------------------------------------------------
(* Issuance                                                                *)

\* A stream with an event about one batch, made by an issuer who is on the list, keeps the
\* invariant, if that is the first such event and the record is what it tells.
LEMMA IssuanceKeeps ==
    ASSUME RegistryInv, NEW e \in Event, Publish(e), UNCHANGED <<admin, issuers, archived, ledger>>,
           NEW b \in Ids, NEW i \in issuers, NEW kind \in {Registered, Credited},
           \A k, topic : About(e, k, topic) => k = kind /\ topic = b,
           \A j \in Addresses : By(e, j) => j = i,
           EventsOf(published, kind, b) = {},
           batches' \in [Ids -> BatchRecord \cup {None}],
           \A c \in Ids \ {b} : batches'[c] = batches[c],
           Tells(published', b, batches'[b])
    PROVE  RegistryInv'
<1>1. /\ TypeOK /\ published' = Append(published, e) /\ published \in Seq(Event)
      /\ issuers' = issuers /\ issuers \subseteq Addresses
  BY DEF RegistryInv, TypeOK, Publish
<1>2. TypeOK' BY <1>1, AfterTheOthers DEF TypeOK
<1>3. EachBatchOnce' BY <1>1, OnceTheSame DEF RegistryInv
<1>4. \A c \in Ids : Tells(published', c, batches'[c])
  <2> TAKE c \in Ids
  <2>1. CASE c = b BY <2>1
  <2>2. CASE c # b
    <3>1. Tells(published, c, batches[c]) BY DEF RegistryInv, StreamIsTheRegistry
    <3>2. ~ About(e, Registered, c) /\ ~ About(e, Credited, c) BY <2>2
    <3>3. Tells(Append(published, e), c, batches[c]) BY <1>1, <3>1, <3>2, TellsTheSame
    <3> QED BY <1>1, <2>2, <3>3
  <2> QED BY <2>1, <2>2
<1>0. \A j : ~ About(e, Removed, j)
  <2>1. Removed # Registered /\ Removed # Credited BY DEF Removed, Registered, Credited
  <2> QED BY <2>1
<1>5. StreamIsByIssuers'
  <2>1. ~ About(e, Removed, i) BY <1>0
  <2>2. ListedBefore(published, i, Len(published) + 1) BY DEF RegistryInv, ListIsInStream
  <2>3. ListedBefore(published', i, Len(published) + 1) BY <1>1, <2>1, <2>2, ListedGoesOn
  <2> QED BY <1>1, <2>3, MadeTheSame DEF RegistryInv, StreamIsTheRegistry
<1>6. ListIsInStream' BY <1>0, <1>1, ListTheSame DEF RegistryInv
<1> QED BY <1>2, <1>3, <1>4, <1>5, <1>6 DEF RegistryInv, StreamIsTheRegistry

\* Of an id that is free the stream has told nothing.
LEMMA NothingToldOfFree ==
    ASSUME RegistryInv, NEW b \in Ids, batches[b] = None
    PROVE  EventsOf(published, Registered, b) = {} /\ EventsOf(published, Credited, b) = {}
BY DEF RegistryInv, StreamIsTheRegistry, Tells

LEMMA RegisterKeeps ==
    ASSUME RegistryInv, NEW signers, NEW b \in Ids, NEW root \in Roots, NEW weight \in Weights,
           NEW i \in Addresses, Register(signers, b, root, weight, i)
    PROVE  RegistryInv'
<1>1. PICK record : record = [root |-> root, weight |-> weight, issuer |-> i, registered |-> ledger,
                              credited |-> None]
  OBVIOUS
<1>2. PICK e : e = [kind |-> Registered, id |-> b, record |-> record] OBVIOUS
<1>3. /\ batches' = [batches EXCEPT ![b] = record] /\ Publish(e)
      /\ UNCHANGED <<admin, issuers, archived, ledger>>
      /\ i \in issuers /\ weight # 0 /\ batches[b] = None
  BY <1>1, <1>2 DEF Register, IssuerSigns, FreeId
<1>4. /\ ledger \in 0..MaxLedger /\ batches \in [Ids -> BatchRecord \cup {None}]
      /\ published \in Seq(Event) /\ published' = Append(published, e)
  BY <1>3 DEF RegistryInv, TypeOK, Publish
<1>5. record \in BatchRecord /\ record # None BY <1>1, <1>3, <1>4, NoneAssumption DEF BatchRecord
<1>6. e \in Event BY <1>2, <1>5 DEF Event
<1>7. /\ \A k, topic : About(e, k, topic) => k = Registered /\ topic = b
      /\ About(e, Registered, b)
      /\ \A j \in Addresses : By(e, j) => j = i
  BY <1>1, <1>2 DEF About, By, Registered, Credited
<1>8. EventsOf(published, Registered, b) = {} /\ EventsOf(published, Credited, b) = {}
  BY <1>3, NothingToldOfFree
<1>9. Tells(published', b, batches'[b])
  <2>1. batches'[b] = record BY <1>3, <1>4
  <2>2. EventsOf(published', Registered, b) = EventsOf(published, Registered, b) \cup {Len(published) + 1}
    BY <1>4, <1>6, <1>7, IsAbout
  <2>3. Registered # Credited BY DEF Registered, Credited
  <2>4. EventsOf(published', Credited, b) = {} BY <1>4, <1>6, <1>7, <1>8, <2>3, NotAbout
  <2>5. published'[Len(published) + 1] = e BY <1>4, <1>6, AfterTheOthers
  <2>6. e.record = record /\ record.credited = None BY <1>1, <1>2
  <2>7. record = [record EXCEPT !.credited = record.credited] BY <1>1
  <2> QED BY <1>5, <2>1, <2>2, <2>4, <2>5, <2>6, <2>7 DEF Tells
<1>10. /\ batches' \in [Ids -> BatchRecord \cup {None}]
       /\ \A c \in Ids \ {b} : batches'[c] = batches[c]
  BY <1>3, <1>4, <1>5
<1> QED BY <1>3, <1>6, <1>7, <1>8, <1>9, <1>10, IssuanceKeeps

LEMMA MarkCreditedKeeps ==
    ASSUME RegistryInv, NEW signers, NEW b \in Ids, NEW i \in Addresses, MarkCredited(signers, b, i)
    PROVE  RegistryInv'
<1>1. PICK e : e = [kind |-> Credited, id |-> b, address |-> i, ledger |-> ledger] OBVIOUS
<1>2. /\ batches' = [batches EXCEPT ![b].credited = ledger] /\ Publish(e)
      /\ UNCHANGED <<admin, issuers, archived, ledger>>
      /\ i \in issuers /\ batches[b] # None /\ batches[b].credited = None
  BY <1>1 DEF MarkCredited, IssuerSigns, Creditable
<1>3. /\ ledger \in 0..MaxLedger /\ batches \in [Ids -> BatchRecord \cup {None}]
      /\ published \in Seq(Event) /\ published' = Append(published, e)
  BY <1>2 DEF RegistryInv, TypeOK, Publish
<1>4. batches[b] \in BatchRecord BY <1>2, <1>3
<1>5. PICK record : record = [batches[b] EXCEPT !.credited = ledger] OBVIOUS
<1>6. record \in BatchRecord /\ record.credited = ledger /\ record # None
  BY <1>3, <1>4, <1>5, NoneAssumption DEF BatchRecord
<1>7. batches'[b] = record /\ \A c \in Ids \ {b} : batches'[c] = batches[c] BY <1>2, <1>3, <1>5
<1>8. batches' \in [Ids -> BatchRecord \cup {None}] BY <1>2, <1>3, <1>5, <1>6
<1>9. e \in Event BY <1>1, <1>3 DEF Event
<1>10. /\ \A k, topic : About(e, k, topic) => k = Credited /\ topic = b
       /\ About(e, Credited, b) /\ ~ About(e, Registered, b)
       /\ \A j \in Addresses : By(e, j) => j = i
  BY <1>1 DEF About, By, Registered, Credited
<1>11. Tells(published, b, batches[b]) BY DEF RegistryInv, StreamIsTheRegistry
<1>12. EventsOf(published, Credited, b) = {} BY <1>2, <1>11 DEF Tells
<1>13. Tells(published', b, batches'[b])
  <2>1. PICK n \in EventsOf(published, Registered, b) :
           batches[b] = [published[n].record EXCEPT !.credited = batches[b].credited]
    BY <1>2, <1>11 DEF Tells
  <2>2. published'[n] = published[n] BY <1>3, <1>9, AfterTheOthers, EventsAreEarlier
  <2>3. EventsOf(published', Registered, b) = EventsOf(published, Registered, b)
    BY <1>3, <1>9, <1>10, NotAbout
  <2>4. record = [published'[n].record EXCEPT !.credited = record.credited]
    BY <1>4, <1>5, <1>6, <2>1, <2>2 DEF BatchRecord
  <2>5. EventsOf(published', Credited, b) = EventsOf(published, Credited, b) \cup {Len(published) + 1}
    BY <1>3, <1>9, <1>10, IsAbout
  <2>6. published'[Len(published) + 1].ledger = record.credited
    BY <1>1, <1>3, <1>6, <1>9, AfterTheOthers
  <2>7. record.credited # None BY <1>3, <1>6, RegistryAssumption
  <2> QED BY <1>6, <1>7, <2>1, <2>3, <2>4, <2>5, <2>6, <2>7 DEF Tells
<1> QED BY <1>2, <1>7, <1>8, <1>9, <1>10, <1>12, <1>13, IssuanceKeeps

-----------------------------------------------------------------------------
(* The network, and every step                                             *)

LEMMA NetworkKeeps == ASSUME RegistryInv, Network \/ UNCHANGED vars PROVE RegistryInv'
<1>1. UNCHANGED <<admin, issuers, batches, published>> BY DEF Network, CloseLedger, Archive, Restore, vars
<1>2. TypeOK'
  <2>1. CASE CloseLedger BY <2>1, RegistryAssumption DEF RegistryInv, TypeOK, CloseLedger
  <2>2. CASE \E topic \in Addresses \cup Ids : Archive(topic) \/ Restore(topic)
    BY <2>2 DEF RegistryInv, TypeOK, Archive, Restore
  <2>3. CASE UNCHANGED vars BY <2>3 DEF RegistryInv, TypeOK, vars
  <2> QED BY <2>1, <2>2, <2>3 DEF Network
<1>3. EachBatchOnce' BY <1>1 DEF RegistryInv, EachBatchOnce
<1>4. StreamIsTheRegistry' BY <1>1 DEF RegistryInv, StreamIsTheRegistry, StreamIsByIssuers
<1>5. ListIsInStream' BY <1>1 DEF RegistryInv, ListIsInStream
<1> QED BY <1>2, <1>3, <1>4, <1>5 DEF RegistryInv

LEMMA RegistryStep == RegistryInv /\ [Next]_vars => RegistryInv'
<1> SUFFICES ASSUME RegistryInv, [Next]_vars PROVE RegistryInv' OBVIOUS
<1>1. CASE Network \/ UNCHANGED vars BY <1>1, NetworkKeeps
<1>2. ASSUME NEW signers \in SUBSET Addresses, Governance(signers) PROVE RegistryInv'
  BY <1>2, InitializeKeeps, AddIssuerKeeps, RemoveIssuerKeeps DEF Governance
<1>3. ASSUME NEW signers \in SUBSET Addresses, Issuance(signers) PROVE RegistryInv'
  BY <1>3, RegisterKeeps, MarkCreditedKeeps DEF Issuance
<1> QED BY <1>1, <1>2, <1>3 DEF Next

\* The inductive invariant holds in every reachable state.
THEOREM RegistryInvHolds == Spec => []RegistryInv
BY RegistryInit, RegistryStep, PTL DEF Spec

-----------------------------------------------------------------------------
(* What follows                                                            *)

\* "Exactly once": whatever the issuers try, however often one is revoked and let in again,
\* and whatever is archived and restored, register() and mark_credited() each succeed at most
\* once for a batch.
THEOREM BatchesAreUnique == Spec => []EachBatchOnce
BY RegistryInvHolds, PTL DEF RegistryInv

\* Whoever has the events has the registry: what register() and mark_credited() wrote, and
\* that whoever had them write it was on the list of issuers then.
THEOREM StreamRebuildsRegistry == Spec => []StreamIsTheRegistry
BY RegistryInvHolds, PTL DEF RegistryInv

-----------------------------------------------------------------------------
(***************************************************************************)
(* The catalogue of materials                                              *)
(***************************************************************************)

\* A call names a backend and a code, and what create() and update() write is not "absent".
ServingOK(c) ==
    c.op # "idle" =>
        /\ c.at \in Backends /\ c.code \in Codes
        /\ c.op \in {"create", "update"} => c.status \in {"active", "retired"}

\* While a removal is under way, so is nothing else: what it found unused stays so, and what the
\* others found known is known when they use it.
UsesApart ==
    /\ \A p, q \in Procs : serving[p].op = "remove" /\ serving[q].op # "idle" => p = q
    /\ \A p \in Procs : serving[p].op = "remove" => serving[p].code \notin used[serving[p].at]
    /\ \A p \in Procs : serving[p].op \in {"open", "ingest"} =>
          serving[p].code \in Catalogue!Known(catalogue[serving[p].at])
    /\ \A b \in Backends : used[b] \subseteq Catalogue!Known(catalogue[b])

CopyIsKnown(copy) ==
    copy # None =>
        copy.origin \in Backends /\ Catalogue!Known(copy.list) \subseteq Catalogue!Known(catalogue[copy.origin])

\* Nothing the phone has of a backend is more than that backend has.
PhoneIsBehind ==
    /\ queue \subseteq Catalogue!Known(catalogue[url])
    /\ material \in Catalogue!Known(catalogue[url])
    /\ \A b \in Backends : Seeded \subseteq Catalogue!Known(catalogue[b])
    /\ CopyIsKnown(cache)
    /\ \A i \in 1..MaxFetches : CopyIsKnown(fetches[i])

CatalogueInv ==
    /\ Catalogue!TypeOK
    /\ \A p \in Procs : ServingOK(serving[p])
    /\ part = "catalogue" =>
          /\ "removal and call" \notin met => UsesApart
          /\ met \cap {"removal", "sign in"} = {} => PhoneIsBehind

LEMMA IdleServing == Catalogue!Idle \in Catalogue!Call /\ Catalogue!Idle.op = "idle"
BY DEF Catalogue!Idle, Catalogue!Call

LEMMA CatalogueInit == MCInit => CatalogueInv
<1> SUFFICES ASSUME MCInit PROVE CatalogueInv OBVIOUS
<1> USE DEF MCInit, Catalogue!Init
<1>1. \A p \in Procs : serving[p].op = "idle" BY IdleServing
<1>2. Catalogue!TypeOK
  <2>1. serving \in [Procs -> Catalogue!Call] BY IdleServing
  <2>2. material \in Codes BY ServicesAssumption DEF Catalogue!MaterialsAssumption
  <2> QED BY <2>1, <2>2 DEF Catalogue!TypeOK
<1>3. \A b \in Backends : Catalogue!Known(catalogue[b]) = Seeded OBVIOUS
<1>4. UsesApart BY <1>1, <1>3 DEF UsesApart
<1>5. PhoneIsBehind
  <2>1. url \in Backends OBVIOUS
  <2>2. \A i \in 1..MaxFetches : fetches[i] = None OBVIOUS
  <2> QED BY <1>3, <2>1, <2>2 DEF PhoneIsBehind, CopyIsKnown
<1> QED BY <1>1, <1>2, <1>4, <1>5 DEF CatalogueInv, ServingOK

-----------------------------------------------------------------------------
\* What one step of the server does to what it serves, and what the phone notices of it.
LEMMA ServerMoves ==
    ASSUME Catalogue!TypeOK, \A p \in Procs : ServingOK(serving[p]),
           NEW p \in Procs, NEW c \in Catalogue!Call, ServingOK(c),
           serving' = [serving EXCEPT ![p] = c],
           catalogue' \in [Backends -> Catalogue!Listing], used' \in [Backends -> SUBSET Codes],
           queue' \subseteq queue, UNCHANGED <<url, cache, material, fetches>>
    PROVE  /\ Catalogue!TypeOK' /\ (\A q \in Procs : ServingOK(serving[q]))'
           /\ serving'[p] = c /\ \A q \in Procs \ {p} : serving'[q] = serving[q]
<1>1. serving'[p] = c /\ \A q \in Procs \ {p} : serving'[q] = serving[q] BY DEF Catalogue!TypeOK
<1>2. \A q \in Procs : ServingOK(serving'[q]) BY <1>1
<1>3. (\A q \in Procs : ServingOK(serving[q]))' BY <1>2 DEF ServingOK
<1>4. serving' \in [Procs -> Catalogue!Call] BY DEF Catalogue!TypeOK
<1>5. Catalogue!TypeOK' BY <1>4 DEF Catalogue!TypeOK
<1> QED BY <1>1, <1>3, <1>5

\* As long as catalogues only grow, the phone stays behind.
LEMMA PhoneStaysBehind ==
    ASSUME Catalogue!TypeOK, PhoneIsBehind,
           \A b \in Backends : Catalogue!Known(catalogue[b]) \subseteq Catalogue!Known(catalogue'[b]),
           queue' \subseteq queue, UNCHANGED <<url, cache, material, fetches>>
    PROVE  PhoneIsBehind'
<1>1. url \in Backends BY DEF Catalogue!TypeOK
<1>2. ASSUME NEW copy, CopyIsKnown(copy) PROVE CopyIsKnown(copy)' BY <1>2 DEF CopyIsKnown
<1>3. CopyIsKnown(cache)' BY <1>2 DEF PhoneIsBehind, CopyIsKnown
<1>4. ASSUME NEW i \in 1..MaxFetches PROVE CopyIsKnown(fetches[i])' BY <1>2 DEF PhoneIsBehind, CopyIsKnown
<1> QED BY <1>1, <1>3, <1>4 DEF PhoneIsBehind

\* What the rest of a proof about a step of the server needs: what it meets, and how uses fare.
ServerStep ==
    /\ Catalogue!TypeOK' /\ (\A q \in Procs : ServingOK(serving[q]))'
    /\ UsesApart /\ "removal and call" \notin CatalogueMeets => UsesApart'
    /\ PhoneIsBehind /\ CatalogueMeets \cap {"removal", "sign in"} = {} => PhoneIsBehind'

LEMMA NoRemoval ==
    ASSUME CatalogueMeets \cap {"removal", "sign in"} = {}
    PROVE  url' = url /\ \A b \in Backends : Catalogue!Known(catalogue[b]) \subseteq Catalogue!Known(catalogue'[b])
BY DEF CatalogueMeets, If

LEMMA RemovalAlone ==
    ASSUME "removal and call" \notin CatalogueMeets, serving' \in [Procs -> Catalogue!Call]
    PROVE  \A p, q \in Procs : serving'[p].op = "remove" /\ serving'[q].op # "idle" => p = q
<1>1. \A q \in Procs : serving'[q].op # "idle" => serving'[q].op \in {"create", "update", "remove", "ingest", "open"}
  BY DEF Catalogue!Call
<1> QED BY <1>1 DEF CatalogueMeets, Two, If

LEMMA StartsKeeps ==
    ASSUME Catalogue!TypeOK, \A p \in Procs : ServingOK(serving[p]),
           NEW p \in Procs, NEW op, NEW b \in Backends, NEW x \in Codes, NEW status,
           Catalogue!Starts(p, op, b, x, status),
           \/ op = "create" /\ status \in {"active", "retired"}
           \/ op = "update" /\ status \in {"active", "retired"}
           \/ op = "remove" /\ status = "absent" /\ x \notin used[b]
           \/ op = "open" /\ status = None /\ x \in Catalogue!Known(catalogue[b])
           \/ op = "ingest" /\ status = None /\ x \in Catalogue!Known(catalogue[b])
    PROVE  ServerStep
<1>1. PICK c : c = [op |-> op, at |-> b, code |-> x, status |-> status] OBVIOUS
<1>2. /\ serving' = [serving EXCEPT ![p] = c]
      /\ UNCHANGED <<catalogue, used, url, cache, material, fetches, queue>>
  BY <1>1 DEF Catalogue!Starts, Catalogue!phone
<1>3. c \in Catalogue!Call /\ ServingOK(c) BY <1>1 DEF Catalogue!Call, Catalogue!Status, ServingOK
<1>4. /\ Catalogue!TypeOK' /\ (\A q \in Procs : ServingOK(serving[q]))'
      /\ serving'[p] = c /\ \A q \in Procs \ {p} : serving'[q] = serving[q]
  BY <1>2, <1>3, ServerMoves DEF Catalogue!TypeOK
<1>5. ASSUME UsesApart, "removal and call" \notin CatalogueMeets PROVE UsesApart'
  <2>1. \A q, r \in Procs : serving'[q].op = "remove" /\ serving'[r].op # "idle" => q = r
    BY <1>4, <1>5, RemovalAlone DEF Catalogue!TypeOK
  <2>2. /\ c.op = "remove" => c.code \notin used[c.at]
        /\ c.op \in {"open", "ingest"} => c.code \in Catalogue!Known(catalogue[c.at])
    BY <1>1
  <2>3. ASSUME NEW q \in Procs
        PROVE  /\ serving'[q].op = "remove" => serving'[q].code \notin used[serving'[q].at]
               /\ serving'[q].op \in {"open", "ingest"} =>
                     serving'[q].code \in Catalogue!Known(catalogue[serving'[q].at])
    <3>1. CASE q = p BY <1>4, <2>2, <3>1
    <3>2. CASE q # p BY <1>4, <1>5, <3>2 DEF UsesApart
    <3> QED BY <3>1, <3>2
  <2> QED BY <1>2, <1>5, <2>1, <2>3 DEF UsesApart
<1>6. PhoneIsBehind => PhoneIsBehind' BY <1>2, PhoneStaysBehind
<1> QED BY <1>4, <1>5, <1>6 DEF ServerStep

\* A call ends, and its row is written, or deleted, or there is a use of it now.
LEMMA EndsKeeps ==
    ASSUME Catalogue!TypeOK, \A p \in Procs : ServingOK(serving[p]),
           NEW p \in Procs, serving' = [serving EXCEPT ![p] = Catalogue!Idle],
           catalogue' \in [Backends -> Catalogue!Listing], used' \in [Backends -> SUBSET Codes],
           queue' \subseteq queue, UNCHANGED <<url, cache, material, fetches>>,
           UsesApart =>
              /\ \A b \in Backends : used'[b] \subseteq Catalogue!Known(catalogue'[b])
              /\ \A q \in Procs \ {p} :
                    /\ serving[q].op = "remove" => used' = used
                    /\ serving[q].op \in {"open", "ingest"} =>
                          Catalogue!Known(catalogue[serving[q].at]) \subseteq Catalogue!Known(catalogue'[serving[q].at])
    PROVE  ServerStep
<1>1. /\ Catalogue!TypeOK' /\ (\A q \in Procs : ServingOK(serving[q]))'
      /\ serving'[p] = Catalogue!Idle /\ \A q \in Procs \ {p} : serving'[q] = serving[q]
  <2>1. ServingOK(Catalogue!Idle) BY IdleServing DEF ServingOK
  <2> QED BY <2>1, IdleServing, ServerMoves
<1>2. ASSUME UsesApart PROVE UsesApart'
  <2>1. \A q, r \in Procs : serving'[q].op = "remove" /\ serving'[r].op # "idle" => q = r
    BY <1>1, <1>2, IdleServing DEF UsesApart
  <2>2. \A q \in Procs : serving'[q].op = "remove" => serving'[q].code \notin used'[serving'[q].at]
    BY <1>1, <1>2, IdleServing DEF UsesApart
  <2>3. \A q \in Procs : serving'[q].op \in {"open", "ingest"} =>
           serving'[q].code \in Catalogue!Known(catalogue'[serving'[q].at])
    BY <1>1, <1>2, IdleServing DEF UsesApart
  <2> QED BY <1>2, <2>1, <2>2, <2>3 DEF UsesApart
<1>3. PhoneIsBehind /\ CatalogueMeets \cap {"removal", "sign in"} = {} => PhoneIsBehind'
  BY NoRemoval, PhoneStaysBehind
<1> QED BY <1>1, <1>2, <1>3 DEF ServerStep

\* A row that is written is known from then on, and so is every other that was.
LEMMA WrittenIsKnown ==
    ASSUME Catalogue!TypeOK, NEW b \in Backends, NEW x \in Codes, NEW status \in Catalogue!Status,
           catalogue' = [catalogue EXCEPT ![b][x] = status]
    PROVE  /\ catalogue' \in [Backends -> Catalogue!Listing]
           /\ status # "absent" =>
                 \A o \in Backends : Catalogue!Known(catalogue[o]) \subseteq Catalogue!Known(catalogue'[o])
           /\ \A o \in Backends : Catalogue!Known(catalogue[o]) \ (IF o = b THEN {x} ELSE {})
                                     \subseteq Catalogue!Known(catalogue'[o])
<1>1. catalogue \in [Backends -> Catalogue!Listing] BY DEF Catalogue!TypeOK
<1>2. catalogue[b] \in Catalogue!Listing BY <1>1
<1>3. PICK list : list = [catalogue[b] EXCEPT ![x] = status] OBVIOUS
<1>4. list \in Catalogue!Listing /\ list[x] = status /\ \A y \in Codes \ {x} : list[y] = catalogue[b][y]
  BY <1>2, <1>3 DEF Catalogue!Listing
<1>5. catalogue' = [catalogue EXCEPT ![b] = list] BY <1>3
<1>6. catalogue' \in [Backends -> Catalogue!Listing] BY <1>1, <1>4, <1>5
<1>7. catalogue'[b] = list /\ \A o \in Backends \ {b} : catalogue'[o] = catalogue[o] BY <1>1, <1>5
<1> QED BY <1>4, <1>6, <1>7 DEF Catalogue!Known

LEMMA SavesKeep ==
    ASSUME Catalogue!TypeOK, \A p \in Procs : ServingOK(serving[p]), NEW p \in Procs,
           Catalogue!CreateSave(p) \/ Catalogue!UpdateSave(p)
    PROVE  ServerStep
<1>1. PICK b, x, status : b = serving[p].at /\ x = serving[p].code /\ status = serving[p].status OBVIOUS
<1>2. /\ catalogue' = [catalogue EXCEPT ![b][x] = status]
      /\ serving[p].op \in {"create", "update"}
      /\ serving' = [serving EXCEPT ![p] = Catalogue!Idle]
      /\ UNCHANGED <<used, url, cache, material, fetches, queue>>
  BY <1>1 DEF Catalogue!CreateSave, Catalogue!UpdateSave, Catalogue!Writes, Catalogue!At, Catalogue!Ends, Catalogue!phone
<1>3. b \in Backends /\ x \in Codes /\ status \in {"active", "retired"} BY <1>1, <1>2 DEF ServingOK
<1>4. status \in Catalogue!Status BY <1>3 DEF Catalogue!Status
<1>5. /\ catalogue' \in [Backends -> Catalogue!Listing]
      /\ \A o \in Backends : Catalogue!Known(catalogue[o]) \subseteq Catalogue!Known(catalogue'[o])
  BY <1>2, <1>3, <1>4, WrittenIsKnown
<1>6. \A q \in Procs : serving[q].op # "idle" => serving[q].at \in Backends BY DEF ServingOK
<1>7. used' \in [Backends -> SUBSET Codes] BY <1>2 DEF Catalogue!TypeOK
<1>8. UsesApart =>
        /\ \A o \in Backends : used'[o] \subseteq Catalogue!Known(catalogue'[o])
        /\ \A q \in Procs \ {p} :
              /\ serving[q].op = "remove" => used' = used
              /\ serving[q].op \in {"open", "ingest"} =>
                    Catalogue!Known(catalogue[serving[q].at]) \subseteq Catalogue!Known(catalogue'[serving[q].at])
  BY <1>2, <1>5, <1>6 DEF UsesApart
<1> QED BY <1>2, <1>5, <1>7, <1>8, EndsKeeps

LEMMA RemoveKeeps ==
    ASSUME Catalogue!TypeOK, \A p \in Procs : ServingOK(serving[p]), NEW p \in Procs,
           Catalogue!RemoveDelete(p)
    PROVE  ServerStep
<1>1. PICK b, x : b = serving[p].at /\ x = serving[p].code OBVIOUS
<1>2. /\ catalogue' = [catalogue EXCEPT ![b][x] = "absent"] \/ catalogue' = catalogue
      /\ serving[p].op = "remove"
      /\ serving' = [serving EXCEPT ![p] = Catalogue!Idle]
      /\ UNCHANGED <<used, url, cache, material, fetches, queue>>
  BY <1>1 DEF Catalogue!RemoveDelete, Catalogue!Writes, Catalogue!At, Catalogue!Ends, Catalogue!phone
<1>3. b \in Backends /\ x \in Codes BY <1>1, <1>2 DEF ServingOK
<1>4. /\ catalogue' \in [Backends -> Catalogue!Listing]
      /\ \A o \in Backends : Catalogue!Known(catalogue[o]) \ (IF o = b THEN {x} ELSE {})
                                \subseteq Catalogue!Known(catalogue'[o])
  <2>1. CASE catalogue' = catalogue BY <2>1 DEF Catalogue!TypeOK
  <2>2. CASE catalogue' = [catalogue EXCEPT ![b][x] = "absent"]
    <3>1. PICK status : status = "absent" OBVIOUS
    <3>2. status \in Catalogue!Status /\ catalogue' = [catalogue EXCEPT ![b][x] = status]
      BY <2>2, <3>1 DEF Catalogue!Status
    <3> QED BY <1>3, <3>2, WrittenIsKnown
  <2> QED BY <1>2, <2>1, <2>2
<1>5. used' \in [Backends -> SUBSET Codes] BY <1>2 DEF Catalogue!TypeOK
<1>6. ASSUME UsesApart
      PROVE  /\ \A o \in Backends : used'[o] \subseteq Catalogue!Known(catalogue'[o])
             /\ \A q \in Procs \ {p} : serving[q].op \notin {"open", "ingest"}
  <2>1. x \notin used[b] BY <1>1, <1>2, <1>6 DEF UsesApart
  <2>2. \A o \in Backends : used[o] \subseteq Catalogue!Known(catalogue[o]) \ (IF o = b THEN {x} ELSE {})
    BY <1>6, <2>1 DEF UsesApart
  <2>3. \A q \in Procs \ {p} : serving[q].op = "idle" BY <1>2, <1>6 DEF UsesApart
  <2> QED BY <1>2, <1>4, <2>2, <2>3
<1>7. UsesApart =>
        /\ \A o \in Backends : used'[o] \subseteq Catalogue!Known(catalogue'[o])
        /\ \A q \in Procs \ {p} :
              /\ serving[q].op = "remove" => used' = used
              /\ serving[q].op \in {"open", "ingest"} =>
                    Catalogue!Known(catalogue[serving[q].at]) \subseteq Catalogue!Known(catalogue'[serving[q].at])
  BY <1>2, <1>6
<1> QED BY <1>2, <1>4, <1>5, <1>7, EndsKeeps

LEMMA UseKeeps ==
    ASSUME Catalogue!TypeOK, \A p \in Procs : ServingOK(serving[p]), NEW p \in Procs,
           Catalogue!OpenSave(p) \/ Catalogue!IngestSave(p)
    PROVE  ServerStep
<1>1. PICK b, x : b = serving[p].at /\ x = serving[p].code OBVIOUS
<1>2. /\ used' = [used EXCEPT ![b] = @ \cup {x}]
      /\ serving[p].op \in {"open", "ingest"}
      /\ serving' = [serving EXCEPT ![p] = Catalogue!Idle]
      /\ queue' \subseteq queue /\ UNCHANGED <<catalogue, url, cache, material, fetches>>
  BY <1>1 DEF Catalogue!OpenSave, Catalogue!IngestSave, Catalogue!At, Catalogue!Ends, Catalogue!phone
<1>3. b \in Backends /\ x \in Codes BY <1>1, <1>2 DEF ServingOK
<1>4. /\ used' \in [Backends -> SUBSET Codes]
      /\ \A o \in Backends : used'[o] = IF o = b THEN used[o] \cup {x} ELSE used[o]
  BY <1>2, <1>3 DEF Catalogue!TypeOK
<1>5. ASSUME UsesApart
      PROVE  /\ \A o \in Backends : used'[o] \subseteq Catalogue!Known(catalogue'[o])
             /\ \A q \in Procs \ {p} : serving[q].op # "remove"
  <2>1. x \in Catalogue!Known(catalogue[b]) BY <1>1, <1>2, <1>5 DEF UsesApart
  <2>2. \A o \in Backends : used'[o] \subseteq Catalogue!Known(catalogue[o])
    BY <1>4, <1>5, <2>1 DEF UsesApart
  <2>3. \A q \in Procs \ {p} : serving[q].op # "remove" BY <1>2, <1>5 DEF UsesApart
  <2> QED BY <1>2, <2>2, <2>3
<1>6. catalogue' \in [Backends -> Catalogue!Listing] BY <1>2 DEF Catalogue!TypeOK
<1>7. UsesApart =>
        /\ \A o \in Backends : used'[o] \subseteq Catalogue!Known(catalogue'[o])
        /\ \A q \in Procs \ {p} :
              /\ serving[q].op = "remove" => used' = used
              /\ serving[q].op \in {"open", "ingest"} =>
                    Catalogue!Known(catalogue[serving[q].at]) \subseteq Catalogue!Known(catalogue'[serving[q].at])
  BY <1>2, <1>5
<1> QED BY <1>2, <1>4, <1>6, <1>7, EndsKeeps

LEMMA ReadsKeep ==
    ASSUME Catalogue!TypeOK, \A p \in Procs : ServingOK(serving[p]), NEW p \in Procs,
           Catalogue!Operator(p) \/ \E x \in Codes : Catalogue!IngestRead(p, x)
    PROVE  ServerStep
<1>1. Managed \subseteq Backends /\ url \in Backends
  BY ServicesAssumption DEF Catalogue!MaterialsAssumption, Catalogue!TypeOK
<1>2. ASSUME NEW b \in Backends, NEW x \in Codes, Catalogue!CreateRead(p, b, x) PROVE ServerStep
  <2>1. PICK status \in {"active", "retired"} : Catalogue!Starts(p, "create", b, x, status)
    BY <1>2 DEF Catalogue!CreateRead
  <2> QED BY <2>1, StartsKeeps
<1>3. ASSUME NEW b \in Backends, NEW x \in Codes, Catalogue!UpdateRead(p, b, x) PROVE ServerStep
  <2>1. PICK status \in {"active", "retired"} : Catalogue!Starts(p, "update", b, x, status)
    BY <1>3 DEF Catalogue!UpdateRead
  <2> QED BY <2>1, StartsKeeps
<1>4. ASSUME NEW b \in Backends, NEW x \in Codes, Catalogue!RemoveRead(p, b, x) PROVE ServerStep
  <2>1. x \notin used[b] /\ Catalogue!Starts(p, "remove", b, x, "absent")
    BY <1>4 DEF Catalogue!RemoveRead, Catalogue!Removable
  <2> QED BY <2>1, StartsKeeps
<1>5. ASSUME NEW b \in Backends, NEW x \in Codes, Catalogue!OpenRead(p, b, x) PROVE ServerStep
  <2>1. x \in Catalogue!Known(catalogue[b]) /\ Catalogue!Starts(p, "open", b, x, None)
    BY <1>5 DEF Catalogue!OpenRead, Catalogue!Openable, Catalogue!Known
  <2> QED BY <2>1, StartsKeeps
<1>6. ASSUME NEW x \in Codes, Catalogue!IngestRead(p, x) PROVE ServerStep
  <2>1. PICK b : b = url OBVIOUS
  <2>2. x \in Catalogue!Known(catalogue[b]) /\ Catalogue!Starts(p, "ingest", b, x, None)
    BY <1>6, <2>1 DEF Catalogue!IngestRead, Catalogue!Ingestible, Catalogue!Known, Catalogue!Starts
  <2> QED BY <1>1, <2>1, <2>2, StartsKeeps
<1> QED BY <1>1, <1>2, <1>3, <1>4, <1>5, <1>6 DEF Catalogue!Operator

-----------------------------------------------------------------------------
\* The phone acts, and the server stands.
LEMMA PhoneActs ==
    ASSUME Catalogue!TypeOK, \A p \in Procs : ServingOK(serving[p]), UNCHANGED <<catalogue, used, serving>>,
           url' \in Backends, cache' \in Catalogue!Copy \cup {None}, material' \in Codes,
           fetches' \in [1..MaxFetches -> Catalogue!Copy \cup {None}], queue' \subseteq Codes,
           PhoneIsBehind /\ url' = url =>
              /\ queue' \subseteq queue \cup {material}
              /\ material' \in Catalogue!Known(catalogue[url])
              /\ CopyIsKnown(cache') /\ \A i \in 1..MaxFetches : CopyIsKnown(fetches'[i])
    PROVE  ServerStep
<1>1. Catalogue!TypeOK' BY DEF Catalogue!TypeOK
<1>2. (\A q \in Procs : ServingOK(serving[q]))' BY DEF ServingOK
<1>3. UsesApart => UsesApart' BY DEF UsesApart
<1>4. ASSUME PhoneIsBehind, CatalogueMeets \cap {"removal", "sign in"} = {} PROVE PhoneIsBehind'
  <2>1. url' = url BY <1>4, NoRemoval
  <2>2. CopyIsKnown(cache)' /\ \A i \in 1..MaxFetches : CopyIsKnown(fetches[i])'
    BY <1>4, <2>1 DEF CopyIsKnown
  <2> QED BY <1>4, <2>1, <2>2 DEF PhoneIsBehind
<1> QED BY <1>1, <1>2, <1>3, <1>4 DEF ServerStep

\* An answer is of the backend that was asked, as it is.
LEMMA FetchingIsKnown ==
    ASSUME Catalogue!TypeOK, NEW b \in Backends, Catalogue!Fetching(b)
    PROVE  /\ fetches' \in [1..MaxFetches -> Catalogue!Copy \cup {None}]
           /\ PhoneIsBehind => \A i \in 1..MaxFetches : CopyIsKnown(fetches'[i])
<1>1. PICK n, copy : n = (CHOOSE i \in Catalogue!Free : TRUE) /\ copy = [origin |-> b, list |-> catalogue[b]]
  OBVIOUS
<1>2. fetches' = [fetches EXCEPT ![n] = copy] BY <1>1 DEF Catalogue!Fetching
<1>3. copy \in Catalogue!Copy BY <1>1 DEF Catalogue!Copy, Catalogue!TypeOK
<1>4. CopyIsKnown(copy) BY <1>1 DEF CopyIsKnown
<1>5. \A i \in 1..MaxFetches : fetches'[i] = copy \/ fetches'[i] = fetches[i] BY <1>2 DEF Catalogue!TypeOK
<1>6. fetches' \in [1..MaxFetches -> Catalogue!Copy \cup {None}] BY <1>2, <1>3 DEF Catalogue!TypeOK
<1> QED BY <1>4, <1>5, <1>6 DEF PhoneIsBehind

\* What can be picked from a copy is known to the backend of the phone.
LEMMA PickableIsKnown ==
    ASSUME Catalogue!TypeOK, PhoneIsBehind, NEW copy, CopyIsKnown(copy)
    PROVE  Catalogue!PickableFrom(copy) \subseteq Catalogue!Known(catalogue[url])
<1>1. url \in Backends BY DEF Catalogue!TypeOK
<1>2. Seeded \subseteq Catalogue!Known(catalogue[url]) BY <1>1 DEF PhoneIsBehind
<1>3. ASSUME Catalogue!Cached(copy) PROVE Catalogue!Active(copy.list) \subseteq Catalogue!Known(catalogue[url])
  <2>1. Catalogue!Known(copy.list) \subseteq Catalogue!Known(catalogue[url])
    BY <1>3 DEF Catalogue!Cached, CopyIsKnown
  <2> QED BY <2>1 DEF Catalogue!Active, Catalogue!Known
<1> QED BY <1>2, <1>3 DEF Catalogue!PickableFrom

LEMMA PickableIsCode ==
    ASSUME NEW copy PROVE Catalogue!PickableFrom(copy) \subseteq Codes
BY ServicesAssumption DEF Catalogue!PickableFrom, Catalogue!Active, Catalogue!MaterialsAssumption

LEMMA AnswerKeeps ==
    ASSUME Catalogue!TypeOK, \A p \in Procs : ServingOK(serving[p]), NEW i \in 1..MaxFetches, Catalogue!Answer(i)
    PROVE  ServerStep
<1>1. PICK copy : copy = fetches[i] OBVIOUS
<1>2. /\ copy # None
      /\ \/ cache' = cache /\ material' = material
         \/ cache' = copy /\ (material' = material \/ material' \in Catalogue!PickableFrom(copy))
      /\ fetches' = [fetches EXCEPT ![i] = None]
      /\ UNCHANGED <<catalogue, used, serving, url, queue>>
  BY <1>1 DEF Catalogue!Answer, Catalogue!Reconciled, Catalogue!server
<1>3. copy \in Catalogue!Copy BY <1>1, <1>2 DEF Catalogue!TypeOK
<1>4. fetches' \in [1..MaxFetches -> Catalogue!Copy \cup {None}] BY <1>2 DEF Catalogue!TypeOK
<1>5. \A j \in 1..MaxFetches : fetches'[j] = None \/ fetches'[j] = fetches[j] BY <1>2 DEF Catalogue!TypeOK
<1>6. /\ url' \in Backends /\ queue' \subseteq Codes /\ material' \in Codes
      /\ cache' \in Catalogue!Copy \cup {None}
  BY <1>2, <1>3, PickableIsCode DEF Catalogue!TypeOK
<1>7. ASSUME PhoneIsBehind
      PROVE  /\ material' \in Catalogue!Known(catalogue[url])
             /\ CopyIsKnown(cache') /\ \A j \in 1..MaxFetches : CopyIsKnown(fetches'[j])
  <2>1. CopyIsKnown(copy) BY <1>1, <1>7 DEF PhoneIsBehind
  <2>2. Catalogue!PickableFrom(copy) \subseteq Catalogue!Known(catalogue[url]) BY <1>7, <2>1, PickableIsKnown
  <2>3. CopyIsKnown(None) BY DEF CopyIsKnown
  <2>4. \A j \in 1..MaxFetches : CopyIsKnown(fetches'[j]) BY <1>5, <1>7, <2>3 DEF PhoneIsBehind
  <2> QED BY <1>2, <1>7, <2>1, <2>2, <2>4 DEF PhoneIsBehind
<1> QED BY <1>2, <1>4, <1>6, <1>7, PhoneActs

LEMMA SelectionKeeps ==
    ASSUME Catalogue!TypeOK, \A p \in Procs : ServingOK(serving[p]), NEW x \in Codes,
           Catalogue!Pick(x) \/ Catalogue!SelectJob(x)
    PROVE  ServerStep
<1>1. /\ material' = x /\ UNCHANGED <<catalogue, used, serving, url, cache, fetches, queue>>
      /\ x \in Catalogue!PickableFrom(cache) \/ x \in Catalogue!Known(catalogue[url])
  BY DEF Catalogue!Pick, Catalogue!SelectJob, Catalogue!Pickable, Catalogue!server
<1>2. ASSUME PhoneIsBehind PROVE x \in Catalogue!Known(catalogue[url])
  BY <1>1, <1>2, PickableIsKnown DEF PhoneIsBehind
<1> QED BY <1>1, <1>2, PhoneActs DEF Catalogue!TypeOK, PhoneIsBehind

LEMMA RestOfPhoneKeeps ==
    ASSUME Catalogue!TypeOK, \A p \in Procs : ServingOK(serving[p]),
           \/ Catalogue!Refresh \/ Catalogue!Sign
           \/ \E i \in 1..MaxFetches : Catalogue!Fail(i)
           \/ \E b \in Backends : Catalogue!SignIn(b)
    PROVE  ServerStep
<1>1. CASE Catalogue!Refresh
  <2>1. PICK b \in Backends : b = url BY DEF Catalogue!TypeOK
  <2>2. Catalogue!Fetching(b) BY <1>1, <2>1 DEF Catalogue!Refresh, Catalogue!Fetching
  <2>3. UNCHANGED <<catalogue, used, serving, url, cache, material, queue>>
    BY <1>1 DEF Catalogue!Refresh, Catalogue!server
  <2> QED BY <2>2, <2>3, FetchingIsKnown, PhoneActs DEF Catalogue!TypeOK, PhoneIsBehind
<1>2. CASE Catalogue!Sign
  <2>1. queue' = queue \cup {material} /\ UNCHANGED <<catalogue, used, serving, url, cache, material, fetches>>
    BY <1>2 DEF Catalogue!Sign, Catalogue!server
  <2> QED BY <2>1, PhoneActs DEF Catalogue!TypeOK, PhoneIsBehind
<1>3. ASSUME NEW i \in 1..MaxFetches, Catalogue!Fail(i) PROVE ServerStep
  <2>1. /\ fetches' = [fetches EXCEPT ![i] = None]
        /\ UNCHANGED <<catalogue, used, serving, url, cache, material, queue>>
    BY <1>3 DEF Catalogue!Fail, Catalogue!server
  <2>2. fetches' \in [1..MaxFetches -> Catalogue!Copy \cup {None}] BY <2>1 DEF Catalogue!TypeOK
  <2>3. \A j \in 1..MaxFetches : fetches'[j] = None \/ fetches'[j] = fetches[j] BY <2>1 DEF Catalogue!TypeOK
  <2>4. CopyIsKnown(None) BY DEF CopyIsKnown
  <2>5. PhoneIsBehind => \A j \in 1..MaxFetches : CopyIsKnown(fetches'[j]) BY <2>3, <2>4 DEF PhoneIsBehind
  <2> QED BY <2>1, <2>2, <2>5, PhoneActs DEF Catalogue!TypeOK, PhoneIsBehind
<1>4. ASSUME NEW b \in Backends, Catalogue!SignIn(b) PROVE ServerStep
  <2>1. Catalogue!Fetching(b) /\ url' = b /\ url # b /\ UNCHANGED <<catalogue, used, serving, cache, material, queue>>
    BY <1>4 DEF Catalogue!SignIn, Catalogue!server
  <2>2. fetches' \in [1..MaxFetches -> Catalogue!Copy \cup {None}] BY <2>1, FetchingIsKnown
  <2> QED BY <2>1, <2>2, PhoneActs DEF Catalogue!TypeOK
<1> QED BY <1>1, <1>2, <1>3, <1>4

-----------------------------------------------------------------------------
LEMMA CatalogueStep == CatalogueInv /\ [MCNext]_MCvars => CatalogueInv'
<1> SUFFICES ASSUME CatalogueInv, [MCNext]_MCvars PROVE CatalogueInv' OBVIOUS
<1>1. Catalogue!TypeOK /\ \A p \in Procs : ServingOK(serving[p]) BY DEF CatalogueInv
<1>2. part' = part /\ met \subseteq met' BY OnePart
<1>3. CASE part = "catalogue" /\ Catalogue!Next /\ CatalogueMeets \subseteq met'
  <2>1. ServerStep
    BY <1>1, <1>3, ReadsKeep, SavesKeep, RemoveKeeps, UseKeeps, AnswerKeeps, SelectionKeeps, RestOfPhoneKeeps
       DEF Catalogue!Next
  <2>2. "removal and call" \notin met' => "removal and call" \notin met \cup CatalogueMeets BY <1>2, <1>3
  <2>3. met' \cap {"removal", "sign in"} = {} => (met \cup CatalogueMeets) \cap {"removal", "sign in"} = {}
    BY <1>2, <1>3
  <2> QED BY <1>3, <2>1, <2>2, <2>3 DEF CatalogueInv, ServerStep
<1>4. CASE UNCHANGED catalogued
  <2>1. UNCHANGED <<catalogue, used, serving, url, cache, material, fetches, queue>> BY <1>4 DEF catalogued
  <2>2. Catalogue!TypeOK' BY <1>1, <2>1 DEF Catalogue!TypeOK
  <2>3. (\A p \in Procs : ServingOK(serving[p]))' BY <1>1, <2>1 DEF ServingOK
  <2>4. (UsesApart => UsesApart') /\ (PhoneIsBehind => PhoneIsBehind')
    BY <2>1 DEF UsesApart, PhoneIsBehind, CopyIsKnown
  <2>5. "removal and call" \notin met' => "removal and call" \notin met BY <1>2
  <2>6. met' \cap {"removal", "sign in"} = {} => met \cap {"removal", "sign in"} = {} BY <1>2
  <2> QED BY <1>2, <2>2, <2>3, <2>4, <2>5, <2>6 DEF CatalogueInv
<1> QED BY <1>3, <1>4, OnePart

\* The invariant of the catalogue, in every reachable state.
THEOREM CatalogueInvHolds == MCSpec => []CatalogueInv
BY CatalogueInit, CatalogueStep, PTL DEF MCSpec, MCvars

\* Until a call passes a removal, a code that has events or batches is in the catalogue; until a code is
\* removed or the phone signs in elsewhere, so is every code it has signed: whatever it had cached.
THEOREM CodesAreKnown == MCSpec => []EveryCodeIsKnown
<1>1. CatalogueInv => EveryCodeIsKnown
  BY DEF CatalogueInv, UsesApart, PhoneIsBehind, EveryCodeIsKnown, Catalogue!UsedIsKnown, Catalogue!SignedIsKnown
<1> QED BY <1>1, CatalogueInvHolds, PTL

-----------------------------------------------------------------------------
(***************************************************************************)
(* Pairing                                                                 *)
(***************************************************************************)

\* Nothing pairs the phone as a collector or with a row that is not there, and the mobile app,
\* which does not look its key up, never changes it.
PhoneTyped ==
    /\ Phone!TypeOK
    /\ Len(devices) <= MaxKeys
    /\ \A i \in Phone!Slots : loads[i] # None =>
          /\ loads[i].device # 0 => loads[i].collector \in Collectors
          /\ app = "mobile" => loads[i].device = 0 /\ ~ loads[i].revoked
    /\ \A i \in Phone!Slots : enrols[i] # None /\ enrols[i].at = "answered" => enrols[i].device # 0

\* One handler at a time looks the key up or enrols it.
SignInsApart ==
    \A i, j \in Phone!Slots :
        /\ loads[i] # None /\ loads[j] # None => i = j
        /\ enrols[i] # None /\ enrols[j] # None => i = j
        /\ loads[i] = None \/ enrols[j] = None

\* The row d is the phone's, and it is collector c's.
EnrolledAs(d, c) == d \in Phone!RowsOf(key) /\ devices[d].collector = c

\* What a handler will pair the phone with is what the server has of its key, and a phone that
\* is paired has none that would.
HandlersAgree ==
    /\ form => pairing = None
    /\ \A i \in Phone!Slots : loads[i] # None =>
          /\ pairing = None
          /\ loads[i].device # 0 => EnrolledAs(loads[i].device, loads[i].collector)
    /\ \A i \in Phone!Slots : enrols[i] # None =>
          /\ pairing = None /\ enrols[i].key = key /\ enrols[i].collector = chosen
          /\ enrols[i].at = "answered" => EnrolledAs(enrols[i].device, enrols[i].collector)
    /\ \A i \in Phone!Slots : syncs[i] # None => syncs[i] = pairing
    /\ pairing # None => EnrolledAs(pairing.device, pairing.collector)

\* The key of a mobile phone that is not paired is free, but for an enrolment that was answered.
KeyIsFree ==
    (/\ app = "mobile" /\ pairing = None
     /\ \A i \in Phone!Slots : enrols[i] # None => enrols[i].at # "answered") => Phone!RowsOf(key) = {}

PhoneInv ==
    /\ PhoneTyped
    /\ part = "phone" =>
          /\ met \subseteq {"lost answer"} => SignInsApart /\ HandlersAgree
          /\ met = {} => KeyIsFree

\* One slot of a table of handlers gets v.
LEMMA SlotSet ==
    ASSUME NEW n \in Nat, NEW S, NEW f \in [1..n -> S], NEW i \in 1..n, NEW v \in S
    PROVE  /\ [f EXCEPT ![i] = v] \in [1..n -> S]
           /\ [f EXCEPT ![i] = v][i] = v
           /\ \A j \in (1..n) \ {i} : [f EXCEPT ![i] = v][j] = f[j]
OBVIOUS

LEMMA FewSlots ==
    ASSUME NEW n \in Nat, NEW S \in SUBSET (1..n), NEW T \in SUBSET (1..n),
           ~ (Cardinality(S) + Cardinality(T) > 1)
    PROVE  /\ \A i, j \in S : i = j
           /\ \A i, j \in T : i = j
           /\ S = {} \/ T = {}
<1>1. IsFiniteSet(1..n) BY 1 \in Int /\ n \in Int, FS_Interval
<1>2. IsFiniteSet(S) /\ IsFiniteSet(T) BY <1>1, FS_Subset
<1>3. Cardinality(S) \in Nat /\ Cardinality(T) \in Nat BY <1>2, FS_CardinalityType
<1>4. ASSUME NEW U, IsFiniteSet(U), NEW i \in U PROVE Cardinality(U) >= 1
  BY <1>4, FS_EmptySet, FS_CardinalityType
<1>5. ASSUME NEW U, IsFiniteSet(U), NEW i \in U, NEW j \in U, i # j PROVE Cardinality(U) >= 2
  <2>1. IsFiniteSet(U \ {i}) /\ Cardinality(U \ {i}) = Cardinality(U) - 1
    BY <1>5, FS_RemoveElement
  <2>2. Cardinality(U \ {i}) >= 1 BY <1>4, <1>5, <2>1
  <2>3. Cardinality(U) \in Nat BY <1>5, FS_CardinalityType
  <2> QED BY <2>1, <2>2, <2>3
<1>6. \A i, j \in S : i = j BY <1>2, <1>3, <1>5
<1>7. \A i, j \in T : i = j BY <1>2, <1>3, <1>5
<1>8. ASSUME NEW i \in S, NEW j \in T PROVE FALSE BY <1>2, <1>3, <1>4
<1> QED BY <1>6, <1>7, <1>8

\* Where nothing but a lost answer has been met, the handlers did not pass each other, no list of
\* hubs was fetched across a change of the pairing, and the choice stood.
Quiet ==
    /\ ~ (Cardinality(Underway(loads')) + Cardinality(Underway(enrols')) > 1)
    /\ pairing' # pairing => Underway(syncs) \cap Underway(syncs') = {}
    /\ chosen' # chosen => Underway(enrols) = {}

LEMMA QuietSteps ==
    /\ PhoneMeets \subseteq {"lost answer"} => Quiet
    /\ PhoneMeets = {} =>
          \A i \in Underway(enrols) : ~ (enrols[i].at = "answered" /\ enrols'[i] = None /\ pairing' = pairing)
<1>1. "sign ins" # "lost answer" /\ "sync and pairing" # "lost answer" /\ "choice" # "lost answer" OBVIOUS
<1> QED BY <1>1 DEF PhoneMeets, If, Quiet

LEMMA QuietApart ==
    ASSUME Phone!TypeOK', Quiet
    PROVE  SignInsApart'
<1>1. MaxHandlers \in Nat BY ServicesAssumption DEF Phone!PairingAssumption
<1>2. DOMAIN loads' = 1..MaxHandlers /\ DOMAIN enrols' = 1..MaxHandlers
  BY DEF Phone!TypeOK, Phone!Slots
<1>3. Underway(loads') \in SUBSET (1..MaxHandlers) /\ Underway(enrols') \in SUBSET (1..MaxHandlers)
  BY <1>2 DEF Underway
<1>4. /\ \A i, j \in Underway(loads') : i = j
      /\ \A i, j \in Underway(enrols') : i = j
      /\ Underway(loads') = {} \/ Underway(enrols') = {}
  BY <1>1, <1>3, FewSlots DEF Quiet
<1> QED BY <1>2, <1>4 DEF SignInsApart, Underway, Phone!Slots

LEMMA PhoneInit == MCInit => PhoneInv
<1> SUFFICES ASSUME MCInit PROVE PhoneInv OBVIOUS
<1> USE DEF MCInit, Phone!Init
<1>1. MaxKeys \in Nat \ {0} /\ MaxSignOuts \in Nat BY ServicesAssumption DEF Phone!PairingAssumption
<1>2. Phone!TypeOK
  <2>1. devices \in Seq(Phone!Device) OBVIOUS
  <2>2. 1 \in Phone!PhoneKeys BY <1>1 DEF Phone!PhoneKeys
  <2>3. app \in {"capture", "mobile"} /\ chosen \in Collectors OBVIOUS
  <2>4. /\ loads \in [Phone!Slots -> Phone!Load \cup {None}]
        /\ enrols \in [Phone!Slots -> Phone!Enrol \cup {None}]
        /\ syncs \in [Phone!Slots -> Phone!Pair \cup {None}]
    OBVIOUS
  <2>5. pairing \in Phone!Pair \cup {None} /\ form \in BOOLEAN OBVIOUS
  <2>6. key \in Phone!PhoneKeys BY <2>2
  <2>7. signOuts \in 0..MaxSignOuts BY <1>1
  <2> HIDE DEF MCInit, Phone!Init
  <2> QED BY <2>1, <2>3, <2>4, <2>5, <2>6, <2>7 DEF Phone!TypeOK
<1>3. Len(devices) = 0 /\ Phone!RowsOf(key) = {} BY DEF Phone!RowsOf
<1>4. PhoneTyped BY <1>1, <1>2, <1>3 DEF PhoneTyped
<1>5. SignInsApart /\ HandlersAgree BY DEF SignInsApart, HandlersAgree
<1>6. KeyIsFree BY <1>3 DEF KeyIsFree
<1> QED BY <1>4, <1>5, <1>6 DEF PhoneInv

\* No answer to an enrolment is dropped.
NothingLost ==
    \A i \in Underway(enrols) : ~ (enrols[i].at = "answered" /\ enrols'[i] = None /\ pairing' = pairing)

\* What every handler has to keep.
PhoneKeeps ==
    /\ PhoneTyped'
    /\ SignInsApart /\ HandlersAgree /\ Quiet => HandlersAgree'
    /\ SignInsApart /\ HandlersAgree /\ KeyIsFree /\ NothingLost => KeyIsFree'

\* The fields of TypeOK, over a range of numbers.
LEMMA PhoneTypes ==
    ASSUME PhoneTyped
    PROVE  /\ MaxHandlers \in Nat /\ MaxKeys \in Nat \ {0} /\ Phone!Slots = 1..MaxHandlers
           /\ devices \in Seq(Phone!Device) /\ Len(devices) <= MaxKeys
           /\ key \in Phone!PhoneKeys /\ chosen \in Collectors /\ pairing \in Phone!Pair \cup {None}
           /\ app \in {"capture", "mobile"} /\ form \in BOOLEAN /\ signOuts \in 0..MaxSignOuts
           /\ loads \in [Phone!Slots -> Phone!Load \cup {None}]
           /\ enrols \in [Phone!Slots -> Phone!Enrol \cup {None}]
           /\ syncs \in [Phone!Slots -> Phone!Pair \cup {None}]
<1>1. Phone!TypeOK /\ Len(devices) <= MaxKeys BY DEF PhoneTyped
<1>2. MaxHandlers \in Nat /\ MaxKeys \in Nat \ {0} BY ServicesAssumption DEF Phone!PairingAssumption
<1> QED BY <1>1, <1>2 DEF Phone!TypeOK, Phone!Slots

LEMMA NoneIsNoRecord == None \notin Phone!Pair /\ None \notin Phone!Load /\ None \notin Phone!Enrol
BY ServicesAssumption DEF Phone!PairingAssumption

\* The rows of the server.
LEMMA Rows ==
    ASSUME PhoneTyped, NEW k, NEW d \in Phone!RowsOf(k)
    PROVE  /\ d \in 1..MaxKeys /\ d \in 0..MaxKeys /\ d # 0 /\ d \in Phone!PhoneKeys
           /\ devices[d].collector \in Collectors /\ devices[d].revoked \in BOOLEAN
<1>1. devices \in Seq(Phone!Device) /\ Len(devices) <= MaxKeys /\ MaxKeys \in Nat BY PhoneTypes
<1>2. d \in 1..Len(devices) BY <1>1 DEF Phone!RowsOf
<1>3. d \in 1..MaxKeys BY <1>1, <1>2
<1>4. devices[d] \in Phone!Device BY <1>1, <1>2
<1> QED BY <1>1, <1>3, <1>4 DEF Phone!Device, Phone!PhoneKeys

LEMMA LookupKeeps ==
    ASSUME PhoneTyped, NEW i \in Phone!Slots, Phone!Lookup(i)
    PROVE  PhoneKeeps
<1>1. PICK found : found = IF app = "capture" THEN Phone!RowsOf(key) ELSE {} OBVIOUS
<1>2. PICK d : d = CHOOSE e \in found : TRUE OBVIOUS
<1>3. PICK v : v = IF found = {} THEN [device |-> 0, revoked |-> FALSE, collector |-> None]
                   ELSE [device |-> d, revoked |-> devices[d].revoked, collector |-> devices[d].collector]
  OBVIOUS
<1>4. /\ loads' = [loads EXCEPT ![i] = v] /\ pairing = None
      /\ UNCHANGED <<devices, app, key, pairing, form, chosen, enrols, syncs, signOuts>>
  BY <1>1, <1>2, <1>3, Zenon DEF Phone!Lookup, Phone!SignInPage
<1>5. /\ v \in Phone!Load
      /\ v.device # 0 => EnrolledAs(v.device, v.collector) /\ v.collector \in Collectors
      /\ app = "mobile" => v.device = 0 /\ ~ v.revoked
  <2>1. CASE found = {}
    <3>1. v = [device |-> 0, revoked |-> FALSE, collector |-> None] BY <1>3, <2>1
    <3>2. 0 \in 0..MaxKeys BY PhoneTypes
    <3> QED BY <3>1, <3>2 DEF Phone!Load
  <2>2. CASE found # {}
    <3>1. d \in Phone!RowsOf(key) /\ app # "mobile" BY <1>1, <1>2, <2>2
    <3>2. v = [device |-> d, revoked |-> devices[d].revoked, collector |-> devices[d].collector]
      BY <1>3, <2>2
    <3>3. d \in 0..MaxKeys /\ devices[d].collector \in Collectors /\ devices[d].revoked \in BOOLEAN
      BY <3>1, Rows
    <3> QED BY <3>1, <3>2, <3>3 DEF Phone!Load, EnrolledAs
  <2> QED BY <2>1, <2>2
<1>6. loads' \in [Phone!Slots -> Phone!Load \cup {None}] BY <1>4, <1>5, PhoneTypes
<1>7. loads'[i] = v /\ \A j \in Phone!Slots \ {i} : loads'[j] = loads[j] BY <1>4, PhoneTypes
<1>8. Phone!TypeOK' BY <1>4, <1>6 DEF PhoneTyped, Phone!TypeOK
<1>9. PhoneTyped' BY <1>4, <1>5, <1>7, <1>8 DEF PhoneTyped, Phone!Slots
<1>10. HandlersAgree => HandlersAgree' BY <1>4, <1>5, <1>7 DEF HandlersAgree, EnrolledAs, Phone!Slots, Phone!RowsOf
<1>11. KeyIsFree => KeyIsFree' BY <1>4 DEF KeyIsFree, Phone!Slots, Phone!RowsOf
<1> QED BY <1>9, <1>10, <1>11 DEF PhoneKeeps

LEMMA WelcomeBackKeeps ==
    ASSUME PhoneTyped, NEW i \in Phone!Slots, Phone!WelcomeBack(i)
    PROVE  PhoneKeeps
<1>1. PICK hub \in Hubs :
         /\ pairing' = [device |-> loads[i].device, collector |-> loads[i].collector, hub |-> hub]
         /\ loads[i] # None /\ loads[i].device # 0
         /\ loads' = [loads EXCEPT ![i] = None] /\ form' = FALSE
         /\ UNCHANGED <<devices, app, key, chosen, enrols, syncs, signOuts>>
  BY DEF Phone!WelcomeBack, Phone!WelcomedAs
<1>2. loads[i] \in Phone!Load /\ loads[i].collector \in Collectors BY <1>1, PhoneTypes DEF PhoneTyped
<1>3. loads[i].device \in Phone!PhoneKeys BY <1>1, <1>2, PhoneTypes DEF Phone!Load, Phone!PhoneKeys
<1>4. pairing' \in Phone!Pair /\ pairing'.device = loads[i].device /\ pairing'.collector = loads[i].collector
  BY <1>1, <1>2, <1>3 DEF Phone!Pair
<1>5. loads' \in [Phone!Slots -> Phone!Load \cup {None}] BY <1>1, PhoneTypes
<1>6. loads'[i] = None /\ \A j \in Phone!Slots \ {i} : loads'[j] = loads[j] BY <1>1, PhoneTypes
<1>7. Phone!TypeOK' BY <1>1, <1>4, <1>5 DEF PhoneTyped, Phone!TypeOK
<1>8. PhoneTyped' BY <1>1, <1>6, <1>7 DEF PhoneTyped, Phone!Slots
<1>9. ASSUME SignInsApart, HandlersAgree, Quiet PROVE HandlersAgree'
  <2>1. \A j \in Phone!Slots : loads'[j] = None /\ enrols[j] = None BY <1>1, <1>6, <1>9 DEF SignInsApart
  <2>2. pairing = None /\ EnrolledAs(pairing'.device, pairing'.collector)
    BY <1>1, <1>4, <1>9 DEF HandlersAgree
  <2>3. pairing' # pairing BY <1>4, <2>2, NoneIsNoRecord
  <2>4. \A j \in Phone!Slots : syncs[j] = None
    BY <1>1, <1>9, <2>3, PhoneTypes DEF Quiet, Underway
  <2> QED BY <1>1, <2>1, <2>2, <2>4 DEF HandlersAgree, EnrolledAs, Phone!Slots, Phone!RowsOf
<1>10. KeyIsFree' BY <1>4, NoneIsNoRecord DEF KeyIsFree
<1> QED BY <1>8, <1>9, <1>10 DEF PhoneKeeps

LEMMA OfferFormKeeps ==
    ASSUME PhoneTyped, NEW i \in Phone!Slots, Phone!OfferForm(i)
    PROVE  PhoneKeeps
<1>1. /\ loads[i] # None /\ key' = Phone!NextKey(loads[i]) /\ key' \in Phone!PhoneKeys
      /\ form' = Phone!SignInPage /\ chosen' \in Collectors
      /\ loads' = [loads EXCEPT ![i] = None]
      /\ UNCHANGED <<devices, app, pairing, enrols, syncs, signOuts>>
  BY DEF Phone!OfferForm
<1>2. loads' \in [Phone!Slots -> Phone!Load \cup {None}] BY <1>1, PhoneTypes
<1>3. loads'[i] = None /\ \A j \in Phone!Slots \ {i} : loads'[j] = loads[j] BY <1>1, PhoneTypes
<1>4. form' \in BOOLEAN /\ (form' => pairing = None) BY <1>1 DEF Phone!SignInPage
<1>5. Phone!TypeOK' BY <1>1, <1>2, <1>4 DEF PhoneTyped, Phone!TypeOK
<1>6. PhoneTyped' BY <1>1, <1>3, <1>5 DEF PhoneTyped, Phone!Slots
<1>7. ASSUME SignInsApart, HandlersAgree PROVE HandlersAgree'
  <2>1. \A j \in Phone!Slots : loads'[j] = None /\ enrols[j] = None BY <1>1, <1>3, <1>7 DEF SignInsApart
  <2>2. pairing = None BY <1>1, <1>7 DEF HandlersAgree
  <2> QED BY <1>1, <1>4, <1>7, <2>1, <2>2 DEF HandlersAgree, EnrolledAs, Phone!Slots, Phone!RowsOf
<1>8. ASSUME KeyIsFree PROVE KeyIsFree'
  <2>1. app = "mobile" => key' = key BY <1>1 DEF PhoneTyped, Phone!NextKey
  <2> QED BY <1>1, <1>8, <2>1 DEF KeyIsFree, Phone!Slots, Phone!RowsOf
<1> QED BY <1>6, <1>7, <1>8 DEF PhoneKeeps

LEMMA ChooseKeeps ==
    ASSUME PhoneTyped, NEW c \in Collectors, Phone!Choose(c)
    PROVE  PhoneKeeps
<1>1. c # chosen /\ chosen' = c
      /\ UNCHANGED <<devices, app, key, pairing, form, loads, enrols, syncs, signOuts>>
  BY DEF Phone!Choose, Phone!handlers
<1>2. PhoneTyped' BY <1>1 DEF PhoneTyped, Phone!TypeOK, Phone!Slots
<1>3. ASSUME HandlersAgree, Quiet PROVE HandlersAgree'
  <2>1. \A j \in Phone!Slots : enrols[j] = None BY <1>1, <1>3, PhoneTypes DEF Quiet, Underway
  <2> QED BY <1>1, <1>3, <2>1 DEF HandlersAgree, EnrolledAs, Phone!Slots, Phone!RowsOf
<1>4. KeyIsFree => KeyIsFree' BY <1>1 DEF KeyIsFree, Phone!Slots, Phone!RowsOf
<1> QED BY <1>2, <1>3, <1>4 DEF PhoneKeeps

LEMMA StartEnrolKeeps ==
    ASSUME PhoneTyped, NEW i \in Phone!Slots, Phone!StartEnrol(i)
    PROVE  PhoneKeeps
<1>1. PICK v : v = [at |-> "posting", key |-> key, collector |-> chosen, device |-> 0] OBVIOUS
<1>2. /\ form /\ enrols[i] = None /\ enrols' = [enrols EXCEPT ![i] = v]
      /\ UNCHANGED <<devices, app, key, pairing, form, chosen, loads, syncs, signOuts>>
  BY <1>1 DEF Phone!StartEnrol, Phone!Free
<1>3. v \in Phone!Enrol /\ v.at # "answered" /\ v.key = key /\ v.collector = chosen
  <2>1. 0 \in 0..MaxKeys BY PhoneTypes
  <2> QED BY <1>1, <2>1, PhoneTypes DEF Phone!Enrol
<1>4. enrols' \in [Phone!Slots -> Phone!Enrol \cup {None}] BY <1>2, <1>3, PhoneTypes
<1>5. enrols'[i] = v /\ \A j \in Phone!Slots \ {i} : enrols'[j] = enrols[j] BY <1>2, PhoneTypes
<1>6. Phone!TypeOK' BY <1>2, <1>4 DEF PhoneTyped, Phone!TypeOK
<1>7. PhoneTyped' BY <1>2, <1>3, <1>5, <1>6 DEF PhoneTyped, Phone!Slots
<1>8. HandlersAgree => HandlersAgree'
  BY <1>2, <1>3, <1>5 DEF HandlersAgree, EnrolledAs, Phone!Slots, Phone!RowsOf
<1>9. KeyIsFree => KeyIsFree' BY <1>2, <1>3, <1>5 DEF KeyIsFree, Phone!Slots, Phone!RowsOf
<1> QED BY <1>7, <1>8, <1>9 DEF PhoneKeeps


LEMMA ServeEnrolKeeps ==
    ASSUME PhoneTyped, NEW i \in Phone!Slots, Phone!ServeEnrol(i)
    PROVE  PhoneKeeps
<1>1. PICK enrolled : enrolled = [key |-> enrols[i].key, collector |-> enrols[i].collector, revoked |-> FALSE] OBVIOUS
<1>2. PICK n : n = Len(devices) + 1 OBVIOUS
<1>3. PICK v : v = [enrols[i] EXCEPT !.at = "answered", !.device = n] OBVIOUS
<1>4. /\ enrols[i] # None /\ enrols[i].at = "posting" /\ Len(devices) < MaxKeys
      /\ devices' = Append(devices, enrolled)
      /\ UNCHANGED <<app, key, pairing, form, chosen, loads, syncs, signOuts>>
  BY <1>1 DEF Phone!ServeEnrol
<1>5. enrols[i] \in Phone!Enrol BY <1>4, PhoneTypes
<1>6. enrols' = [enrols EXCEPT ![i] = v]
  BY <1>2, <1>3, PhoneTypes DEF Phone!ServeEnrol
<1>7. Len(devices) \in Nat /\ MaxKeys \in Nat BY PhoneTypes
<1>8. n \in 0..MaxKeys /\ n # 0 /\ n <= MaxKeys BY <1>2, <1>4, <1>7
<1>9. /\ v \in Phone!Enrol /\ v.at = "answered" /\ v.device = n
      /\ v.key = enrols[i].key /\ v.collector = enrols[i].collector
  BY <1>3, <1>5, <1>8 DEF Phone!Enrol
<1>10. enrolled \in Phone!Device BY <1>1, <1>5 DEF Phone!Enrol, Phone!Device
<1>11. /\ devices' \in Seq(Phone!Device) /\ Len(devices') = n /\ devices'[n] = enrolled
       /\ \A d \in 1..Len(devices) : devices'[d] = devices[d]
       /\ DOMAIN devices = 1..Len(devices) /\ DOMAIN devices' = 1..n
  BY <1>2, <1>4, <1>10, PhoneTypes
<1>12. enrols' \in [Phone!Slots -> Phone!Enrol \cup {None}] BY <1>6, <1>9, PhoneTypes
<1>13. enrols'[i] = v /\ \A j \in Phone!Slots \ {i} : enrols'[j] = enrols[j] BY <1>6, PhoneTypes
<1>14. Phone!TypeOK' BY <1>4, <1>11, <1>12 DEF PhoneTyped, Phone!TypeOK
<1>15. PhoneTyped' BY <1>4, <1>8, <1>9, <1>11, <1>13, <1>14 DEF PhoneTyped, Phone!Slots
<1>16. ASSUME SignInsApart, HandlersAgree PROVE HandlersAgree'
  <2>1. enrols[i].key = key /\ enrols[i].collector = chosen /\ pairing = None BY <1>4, <1>16 DEF HandlersAgree
  <2>2. n \in DOMAIN devices' /\ devices'[n].key = key /\ devices'[n].collector = chosen
    <3>1. n \in DOMAIN devices' BY <1>7, <1>11, <1>2
    <3>2. devices'[n].key = key /\ devices'[n].collector = chosen BY <1>1, <1>11, <2>1
    <3> QED BY <3>1, <3>2
  <2>3. \A j \in Phone!Slots : loads[j] = None /\ (j # i => enrols[j] = None)
    BY <1>4, <1>16 DEF SignInsApart
  <2>4. \A j \in Phone!Slots : loads'[j] = None /\ (j # i => enrols'[j] = None) BY <1>4, <1>13, <2>3
  <2>5. enrols'[i].key = key /\ enrols'[i].collector = chosen /\ enrols'[i].device = n
    BY <1>9, <1>13, <2>1
  <2>6. \A j \in Phone!Slots : syncs'[j] = None \/ syncs'[j] = pairing BY <1>4, <1>16 DEF HandlersAgree
  <2>7. ~ form' \/ pairing' = None BY <1>4, <2>1
  <2> QED BY <1>4, <2>1, <2>2, <2>4, <2>5, <2>6, <2>7
        DEF HandlersAgree, EnrolledAs, Phone!RowsOf, Phone!Slots
<1>17. KeyIsFree' BY <1>9, <1>13, NoneIsNoRecord DEF KeyIsFree, Phone!Slots
<1> QED BY <1>15, <1>16, <1>17 DEF PhoneKeeps

LEMMA FailEnrolKeeps ==
    ASSUME PhoneTyped, NEW i \in Phone!Slots, Phone!FailEnrol(i)
    PROVE  PhoneKeeps
<1>1. /\ enrols[i] # None /\ enrols' = [enrols EXCEPT ![i] = None]
      /\ form' = (app = "mobile" /\ form)
      /\ UNCHANGED <<devices, app, key, pairing, chosen, loads, syncs, signOuts>>
  BY DEF Phone!FailEnrol
<1>2. enrols' \in [Phone!Slots -> Phone!Enrol \cup {None}] BY <1>1, PhoneTypes
<1>3. enrols'[i] = None /\ \A j \in Phone!Slots \ {i} : enrols'[j] = enrols[j] BY <1>1, PhoneTypes
<1>4. form' \in BOOLEAN /\ (form' => form) BY <1>1
<1>5. Phone!TypeOK' BY <1>1, <1>2, <1>4 DEF PhoneTyped, Phone!TypeOK
<1>6. PhoneTyped' BY <1>1, <1>3, <1>5 DEF PhoneTyped, Phone!Slots
<1>7. HandlersAgree => HandlersAgree'
  BY <1>1, <1>3, <1>4 DEF HandlersAgree, EnrolledAs, Phone!Slots, Phone!RowsOf
<1>8. ASSUME KeyIsFree, NothingLost PROVE KeyIsFree'
  <2>1. enrols[i].at # "answered" BY <1>1, <1>3, <1>8, PhoneTypes DEF NothingLost, Underway
  <2> QED BY <1>1, <1>3, <1>8, <2>1 DEF KeyIsFree, Phone!Slots, Phone!RowsOf
<1> QED BY <1>6, <1>7, <1>8 DEF PhoneKeeps

LEMMA FinishEnrolKeeps ==
    ASSUME PhoneTyped, NEW i \in Phone!Slots, Phone!FinishEnrol(i)
    PROVE  PhoneKeeps
<1>1. PICK hub \in Hubs :
         /\ pairing' = [device |-> enrols[i].device, collector |-> Phone!PairedWith(i), hub |-> hub]
         /\ enrols[i] # None /\ enrols[i].at = "answered"
         /\ enrols' = [enrols EXCEPT ![i] = None] /\ form' = FALSE
         /\ UNCHANGED <<devices, app, key, chosen, loads, syncs, signOuts>>
  BY DEF Phone!FinishEnrol
<1>2. enrols[i] \in Phone!Enrol /\ enrols[i].device # 0 BY <1>1, PhoneTypes DEF PhoneTyped
<1>3. enrols[i].device \in Phone!PhoneKeys BY <1>2, PhoneTypes DEF Phone!Enrol, Phone!PhoneKeys
<1>4. Phone!PairedWith(i) \in {chosen, enrols[i].collector} BY DEF Phone!PairedWith
<1>5. Phone!PairedWith(i) \in Collectors BY <1>2, <1>4, PhoneTypes DEF Phone!Enrol
<1>6. /\ pairing' \in Phone!Pair /\ pairing'.device = enrols[i].device
      /\ pairing'.collector = Phone!PairedWith(i)
  BY <1>1, <1>3, <1>5 DEF Phone!Pair
<1>7. enrols' \in [Phone!Slots -> Phone!Enrol \cup {None}] BY <1>1, PhoneTypes
<1>8. enrols'[i] = None /\ \A j \in Phone!Slots \ {i} : enrols'[j] = enrols[j] BY <1>1, PhoneTypes
<1>9. Phone!TypeOK' BY <1>1, <1>6, <1>7 DEF PhoneTyped, Phone!TypeOK
<1>10. PhoneTyped' BY <1>1, <1>8, <1>9 DEF PhoneTyped, Phone!Slots
<1>11. ASSUME SignInsApart, HandlersAgree, Quiet PROVE HandlersAgree'
  <2>1. \A j \in Phone!Slots : loads[j] = None /\ enrols'[j] = None BY <1>1, <1>8, <1>11 DEF SignInsApart
  <2>2. pairing = None /\ EnrolledAs(enrols[i].device, enrols[i].collector) /\ enrols[i].collector = chosen
    BY <1>1, <1>11 DEF HandlersAgree
  <2>3. EnrolledAs(pairing'.device, pairing'.collector) BY <1>4, <1>6, <2>2
  <2>4. pairing' # pairing BY <1>6, <2>2, NoneIsNoRecord
  <2>5. \A j \in Phone!Slots : syncs[j] = None BY <1>1, <1>11, <2>4, PhoneTypes DEF Quiet, Underway
  <2> QED BY <1>1, <2>1, <2>3, <2>5 DEF HandlersAgree, EnrolledAs, Phone!Slots, Phone!RowsOf
<1>12. KeyIsFree' BY <1>6, NoneIsNoRecord DEF KeyIsFree
<1> QED BY <1>10, <1>11, <1>12 DEF PhoneKeeps

LEMMA SwitchHubKeeps ==
    ASSUME PhoneTyped, NEW hub \in Hubs, Phone!SwitchHub(hub)
    PROVE  PhoneKeeps
<1>1. pairing \in Phone!Pair BY PhoneTypes DEF Phone!SwitchHub
<1>2. /\ pairing # None /\ pairing.hub # hub /\ pairing' = [pairing EXCEPT !.hub = hub]
      /\ UNCHANGED <<devices, app, key, form, chosen, loads, enrols, syncs, signOuts>>
  BY DEF Phone!SwitchHub, Phone!handlers
<1>3. /\ pairing' \in Phone!Pair /\ pairing'.hub = hub
      /\ pairing'.device = pairing.device /\ pairing'.collector = pairing.collector
  BY <1>1, <1>2 DEF Phone!Pair
<1>4. Phone!TypeOK' BY <1>2, <1>3 DEF PhoneTyped, Phone!TypeOK
<1>5. PhoneTyped' BY <1>2, <1>4 DEF PhoneTyped, Phone!Slots
<1>6. ASSUME HandlersAgree, Quiet PROVE HandlersAgree'
  <2>1. pairing' # pairing BY <1>2, <1>3
  <2>2. \A j \in Phone!Slots : syncs[j] = None BY <1>2, <1>6, <2>1, PhoneTypes DEF Quiet, Underway
  <2>3. ~ form /\ \A j \in Phone!Slots : loads[j] = None /\ enrols[j] = None
    BY <1>2, <1>6 DEF HandlersAgree
  <2> QED BY <1>2, <1>3, <1>6, <2>2, <2>3 DEF HandlersAgree, EnrolledAs, Phone!Slots, Phone!RowsOf
<1>7. KeyIsFree' BY <1>3, NoneIsNoRecord DEF KeyIsFree
<1> QED BY <1>5, <1>6, <1>7 DEF PhoneKeeps

LEMMA StartSyncKeeps ==
    ASSUME PhoneTyped, NEW i \in Phone!Slots, Phone!StartSync(i)
    PROVE  PhoneKeeps
<1>1. /\ syncs' = [syncs EXCEPT ![i] = pairing]
      /\ UNCHANGED <<devices, app, key, pairing, form, chosen, loads, enrols, signOuts>>
  BY DEF Phone!StartSync
<1>2. syncs' \in [Phone!Slots -> Phone!Pair \cup {None}] BY <1>1, PhoneTypes
<1>3. syncs'[i] = pairing /\ \A j \in Phone!Slots \ {i} : syncs'[j] = syncs[j] BY <1>1, PhoneTypes
<1>4. Phone!TypeOK' BY <1>1, <1>2 DEF PhoneTyped, Phone!TypeOK
<1>5. PhoneTyped' BY <1>1, <1>4 DEF PhoneTyped, Phone!Slots
<1>6. HandlersAgree => HandlersAgree'
  BY <1>1, <1>3 DEF HandlersAgree, EnrolledAs, Phone!Slots, Phone!RowsOf
<1>7. KeyIsFree => KeyIsFree' BY <1>1 DEF KeyIsFree, Phone!Slots, Phone!RowsOf
<1> QED BY <1>5, <1>6, <1>7 DEF PhoneKeeps

\* The pairing that a fetch of the hubs puts back is the one the phone has.
LEMMA FinishSyncKeeps ==
    ASSUME PhoneTyped, NEW i \in Phone!Slots, Phone!FinishSync(i) \/ Phone!EndSync(i)
    PROVE  PhoneKeeps
<1>1. /\ syncs[i] # None /\ syncs' = [syncs EXCEPT ![i] = None]
      /\ pairing' = syncs[i] \/ pairing' = pairing
      /\ UNCHANGED <<devices, app, key, form, chosen, loads, enrols, signOuts>>
  BY DEF Phone!FinishSync, Phone!EndSync
<1>2. syncs' \in [Phone!Slots -> Phone!Pair \cup {None}] /\ pairing' \in Phone!Pair \cup {None}
  BY <1>1, PhoneTypes
<1>3. syncs'[i] = None /\ \A j \in Phone!Slots \ {i} : syncs'[j] = syncs[j] BY <1>1, PhoneTypes
<1>4. Phone!TypeOK' BY <1>1, <1>2 DEF PhoneTyped, Phone!TypeOK
<1>5. PhoneTyped' BY <1>1, <1>4 DEF PhoneTyped, Phone!Slots
<1>6. HandlersAgree => pairing' = pairing BY <1>1 DEF HandlersAgree
<1>7. HandlersAgree => HandlersAgree'
  BY <1>1, <1>3, <1>6 DEF HandlersAgree, EnrolledAs, Phone!Slots, Phone!RowsOf
<1>8. HandlersAgree /\ KeyIsFree => KeyIsFree'
  BY <1>1, <1>6 DEF KeyIsFree, Phone!Slots, Phone!RowsOf
<1> QED BY <1>5, <1>7, <1>8 DEF PhoneKeeps

LEMMA SignOutKeeps ==
    ASSUME PhoneTyped, Phone!SignOut
    PROVE  PhoneKeeps
<1>1. /\ app = "capture" /\ pairing # None /\ signOuts' = signOuts + 1 /\ signOuts < MaxSignOuts
      /\ pairing' = None /\ form' = FALSE
      /\ UNCHANGED <<devices, app, key, chosen, loads, enrols, syncs>>
  BY DEF Phone!SignOut, Phone!handlers
<1>2. signOuts' \in 0..MaxSignOuts
  <2>1. MaxSignOuts \in Nat BY ServicesAssumption DEF Phone!PairingAssumption
  <2>2. signOuts \in 0..MaxSignOuts BY PhoneTypes
  <2>3. signOuts' = signOuts + 1 /\ signOuts < MaxSignOuts BY <1>1
  <2> QED BY <2>1, <2>2, <2>3
<1>3. Phone!TypeOK' BY <1>1, <1>2 DEF PhoneTyped, Phone!TypeOK
<1>4. PhoneTyped' BY <1>1, <1>3 DEF PhoneTyped, Phone!Slots
<1>5. ASSUME HandlersAgree, Quiet PROVE HandlersAgree'
  <2>1. \A j \in Phone!Slots : syncs[j] = None BY <1>1, <1>5, PhoneTypes DEF Quiet, Underway
  <2>2. \A j \in Phone!Slots : loads[j] = None /\ enrols[j] = None BY <1>1, <1>5 DEF HandlersAgree
  <2> QED BY <1>1, <2>1, <2>2 DEF HandlersAgree, Phone!Slots
<1>6. KeyIsFree' BY <1>1 DEF KeyIsFree
<1> QED BY <1>4, <1>5, <1>6 DEF PhoneKeeps

LEMMA RevokeKeeps ==
    ASSUME PhoneTyped, NEW d \in Phone!PhoneKeys, Phone!Revoke(d)
    PROVE  PhoneKeeps
<1>1. PICK revokedRow : revokedRow = [devices[d] EXCEPT !.revoked = TRUE] OBVIOUS
<1>2. d \in DOMAIN devices /\ devices \in Seq(Phone!Device) BY PhoneTypes DEF Phone!Revoke
<1>3. devices[d] \in Phone!Device BY <1>2
<1>4. revokedRow \in Phone!Device /\ revokedRow.key = devices[d].key /\ revokedRow.collector = devices[d].collector
  BY <1>1, <1>3 DEF Phone!Device
<1>5. devices' = [devices EXCEPT ![d] = revokedRow]
      /\ UNCHANGED <<app, key, pairing, form, chosen, loads, enrols, syncs, signOuts>>
  BY <1>1 DEF Phone!Revoke, Phone!handlers
<1>6. /\ devices' \in Seq(Phone!Device) /\ Len(devices') = Len(devices) /\ DOMAIN devices' = DOMAIN devices
      /\ devices'[d] = revokedRow /\ \A e \in DOMAIN devices \ {d} : devices'[e] = devices[e]
  BY <1>2, <1>4, <1>5
<1>7. \A e \in DOMAIN devices :
         devices'[e].key = devices[e].key /\ devices'[e].collector = devices[e].collector
  BY <1>4, <1>6
<1>8. Phone!TypeOK' BY <1>5, <1>6 DEF PhoneTyped, Phone!TypeOK
<1>9. PhoneTyped' BY <1>5, <1>6, <1>8 DEF PhoneTyped, Phone!Slots
<1>10. Phone!RowsOf(key)' = Phone!RowsOf(key) BY <1>5, <1>6, <1>7 DEF Phone!RowsOf
<1>11. HandlersAgree => HandlersAgree'
  BY <1>5, <1>6, <1>7 DEF HandlersAgree, EnrolledAs, Phone!RowsOf, Phone!Slots
<1>12. KeyIsFree => KeyIsFree' BY <1>5, <1>10 DEF KeyIsFree, Phone!Slots
<1> QED BY <1>9, <1>11, <1>12 DEF PhoneKeeps

LEMMA PhoneStep == PhoneInv /\ [MCNext]_MCvars => PhoneInv'
<1> SUFFICES ASSUME PhoneInv, [MCNext]_MCvars PROVE PhoneInv' OBVIOUS
<1>1. PhoneTyped BY DEF PhoneInv
<1>2. part' = part /\ met \subseteq met' BY OnePart
<1>3. CASE part = "phone" /\ Phone!Next /\ PhoneMeets \subseteq met'
  <2>1. PhoneKeeps
    BY <1>1, <1>3, LookupKeeps, WelcomeBackKeeps, OfferFormKeeps, ChooseKeeps, StartEnrolKeeps,
       ServeEnrolKeeps, FailEnrolKeeps, FinishEnrolKeeps, SwitchHubKeeps, StartSyncKeeps,
       FinishSyncKeeps, SignOutKeeps, RevokeKeeps
       DEF Phone!Next
  <2>2. Phone!TypeOK' BY <2>1 DEF PhoneKeeps, PhoneTyped
  <2>3. ASSUME met' \subseteq {"lost answer"} PROVE (SignInsApart /\ HandlersAgree)'
    <3>1. Quiet BY <1>3, <2>3, QuietSteps
    <3>2. SignInsApart /\ HandlersAgree BY <1>2, <1>3, <2>3 DEF PhoneInv
    <3> QED BY <2>1, <2>2, <3>1, <3>2, QuietApart DEF PhoneKeeps
  <2>4. ASSUME met' = {} PROVE KeyIsFree'
    <3>1. NothingLost BY <1>3, <2>4, QuietSteps DEF NothingLost
    <3>2. SignInsApart /\ HandlersAgree /\ KeyIsFree BY <1>2, <1>3, <2>4 DEF PhoneInv
    <3> QED BY <2>1, <3>1, <3>2 DEF PhoneKeeps
  <2> QED BY <2>1, <2>3, <2>4 DEF PhoneInv, PhoneKeeps
<1>4. CASE UNCHANGED paired
  <2>1. UNCHANGED <<devices, app, key, pairing, form, chosen, loads, enrols, syncs, signOuts>>
    BY <1>4 DEF paired
  <2>2. PhoneTyped' BY <1>1, <2>1 DEF PhoneTyped, Phone!TypeOK, Phone!Slots
  <2>3. /\ SignInsApart => SignInsApart'
        /\ HandlersAgree => HandlersAgree'
        /\ KeyIsFree => KeyIsFree'
    BY <2>1 DEF SignInsApart, HandlersAgree, KeyIsFree, EnrolledAs, Phone!Slots, Phone!RowsOf
  <2>4. /\ met' \subseteq {"lost answer"} => met \subseteq {"lost answer"}
        /\ met' = {} => met = {}
    BY <1>2
  <2> QED BY <1>2, <2>2, <2>3, <2>4 DEF PhoneInv
<1> QED BY <1>3, <1>4, OnePart

\* The invariant of pairing, in every reachable state.
THEOREM PhoneInvHolds == MCSpec => []PhoneInv
BY PhoneInit, PhoneStep, PTL DEF MCSpec, MCvars

\* While the handlers that pair a phone do not pass each other and the choice on the form
\* stands, what it signs the server can verify; and a mobile phone that is not paired can be
\* enrolled, unless the answer that enrolled its key was lost.
THEOREM PairedIsEnrolled == MCSpec => []PairingIsEnrolledAlone
<1>1. PhoneInv => PairingIsEnrolledAlone
  <2> SUFFICES ASSUME PhoneInv, part = "phone" PROVE PairingIsEnrolledAlone BY DEF PairingIsEnrolledAlone
  <2>1. met \subseteq {"lost answer"} => Phone!PairingIsEnrolled
    BY DEF PhoneInv, HandlersAgree, EnrolledAs, Phone!PairingIsEnrolled
  <2>2. met = {} => Phone!MobileCanEnrol BY DEF PhoneInv, KeyIsFree, Phone!MobileCanEnrol
  <2> QED BY <2>1, <2>2 DEF PairingIsEnrolledAlone
<1> QED BY <1>1, PhoneInvHolds, PTL

-----------------------------------------------------------------------------
(***************************************************************************)
(* Photos                                                                  *)
(***************************************************************************)

LEMMA IdleUpload == Evidence!Idle \in Evidence!Call /\ Evidence!Idle.at = "idle"
BY DEF Evidence!Idle, Evidence!Call

\* Every upload under way is of the photo its weigh-in declares.
UploadsGenuine ==
    \A u \in Uploads : uploading[u].at # "idle" =>
        uploading[u].event \in WeighIns /\ uploading[u].photo = PhotoHash[uploading[u].event]

\* No photo that is stored or marked is written again: one write at a time, of what is not whole.
UploadsApart ==
    /\ \A u \in Uploads : uploading[u].at = "stored" => blobs[uploading[u].photo] = "whole"
    /\ store = "directory" =>
          \A u, v \in Uploads :
              uploading[u].at = "writing" =>
                  /\ blobs[uploading[u].photo] # "whole"
                  /\ uploading[v].at = "writing" /\ uploading[u].photo = uploading[v].photo => u = v
    /\ \A e \in marked : blobs[PhotoHash[e]] = "whole"
    /\ \A e \in WeighIns : <<e, "torn">> \notin caches

EvidenceInv ==
    /\ Evidence!TypeOK
    /\ UploadsGenuine
    /\ (part = "evidence" /\ met = {}) => UploadsApart

LEMMA EvidenceInit == MCInit => EvidenceInv
<1> SUFFICES ASSUME MCInit PROVE EvidenceInv OBVIOUS
<1> USE DEF MCInit, Evidence!Init
<1>1. blobs \in [Photos -> Evidence!Bytes] BY DEF Evidence!Bytes
<1>2. \A u \in Uploads : uploading[u].at = "idle" BY IdleUpload
<1>3. uploading \in [Uploads -> Evidence!Call] BY IdleUpload
<1>4. Evidence!TypeOK BY <1>1, <1>3 DEF Evidence!TypeOK
<1> QED BY <1>2, <1>4 DEF EvidenceInv, UploadsGenuine, UploadsApart

\* An upload goes on as c, and what is stored changes or does not.
LEMMA UploadGoesOn ==
    ASSUME Evidence!TypeOK, UploadsGenuine, NEW u \in Uploads, NEW c \in Evidence!Call,
           uploading' = [uploading EXCEPT ![u] = c],
           c.at # "idle" => c.event \in WeighIns /\ c.photo = PhotoHash[c.event],
           blobs' \in [Photos -> Evidence!Bytes], UNCHANGED store,
           marked' = marked \/ (uploading[u].at = "stored" /\ marked' = marked \cup {uploading[u].event}),
           caches' = caches
    PROVE  Evidence!TypeOK' /\ UploadsGenuine'
<1>1. uploading' \in [Uploads -> Evidence!Call] BY DEF Evidence!TypeOK
<1>2. uploading'[u] = c /\ \A v \in Uploads \ {u} : uploading'[v] = uploading[v] BY DEF Evidence!TypeOK
<1>3. marked' \subseteq WeighIns BY DEF Evidence!TypeOK, UploadsGenuine
<1>4. UploadsGenuine' BY <1>2 DEF UploadsGenuine
<1> QED BY <1>1, <1>3, <1>4 DEF Evidence!TypeOK

LEMMA AttachKeeps ==
    ASSUME Evidence!TypeOK, UploadsGenuine, NEW u \in Uploads, NEW e \in WeighIns, NEW ph \in Photos,
           Evidence!Attach(u, e, ph)
    PROVE  /\ Evidence!TypeOK' /\ UploadsGenuine'
           /\ UploadsApart => UploadsApart'
<1>1. PICK c : c = [at |-> "checked", event |-> e, photo |-> ph] OBVIOUS
<1>2. c \in Evidence!Call /\ c.at = "checked" BY <1>1 DEF Evidence!Call
<1>3. /\ uploading' = [uploading EXCEPT ![u] = c] /\ UNCHANGED <<store, blobs, marked, caches>>
      /\ c.event = e /\ c.photo = PhotoHash[e]
  BY <1>1 DEF Evidence!Attach, Evidence!Genuine
<1>4. Evidence!TypeOK' /\ UploadsGenuine' BY <1>2, <1>3, UploadGoesOn DEF Evidence!TypeOK
<1>5. uploading'[u] = c /\ \A v \in Uploads \ {u} : uploading'[v] = uploading[v]
  BY <1>3 DEF Evidence!TypeOK
<1>6. UploadsApart => UploadsApart' BY <1>2, <1>3, <1>5 DEF UploadsApart
<1> QED BY <1>4, <1>6

LEMMA StartWriteKeeps ==
    ASSUME Evidence!TypeOK, UploadsGenuine, NEW u \in Uploads, Evidence!StartWrite(u)
    PROVE  /\ Evidence!TypeOK' /\ UploadsGenuine'
           /\ UploadsApart /\ EvidenceMeets = {} => UploadsApart'
<1>1. PICK c : c = [uploading[u] EXCEPT !.at = "writing"] OBVIOUS
<1>2. PICK ph : ph = uploading[u].photo OBVIOUS
<1>3. uploading[u] \in Evidence!Call /\ uploading[u].at = "checked"
  BY DEF Evidence!StartWrite, Evidence!TypeOK
<1>4. /\ c \in Evidence!Call /\ c.at = "writing" /\ c.photo = ph /\ c.event = uploading[u].event
  BY <1>1, <1>2, <1>3 DEF Evidence!Call
<1>5. /\ uploading' = [uploading EXCEPT ![u] = c] /\ UNCHANGED <<store, marked, caches>>
      /\ blobs' = IF store = "directory" THEN [blobs EXCEPT ![ph] = "torn"] ELSE blobs
  BY <1>1, <1>2 DEF Evidence!StartWrite
<1>6. blobs' \in [Photos -> Evidence!Bytes] BY <1>5 DEF Evidence!TypeOK, Evidence!Bytes
<1>7. c.event \in WeighIns /\ ph = PhotoHash[c.event] /\ ph \in Photos
  BY <1>2, <1>3, <1>4, ServicesAssumption DEF UploadsGenuine, Evidence!PhotosAssumption
<1>8. Evidence!TypeOK' /\ UploadsGenuine' BY <1>4, <1>5, <1>6, <1>7, UploadGoesOn
<1>9. uploading'[u] = c /\ \A v \in Uploads \ {u} : uploading'[v] = uploading[v]
  BY <1>5 DEF Evidence!TypeOK
<1>10. ASSUME UploadsApart, EvidenceMeets = {} PROVE UploadsApart'
  <2>1. CASE store # "directory" BY <1>4, <1>5, <1>9, <1>10, <2>1 DEF UploadsApart
  <2>2. CASE store = "directory"
    <3>1. blobs[ph] # "whole" /\ Evidence!Writers(ph) = {}
      BY <1>2, <1>3, <1>4, <1>9, <1>10, <2>2 DEF EvidenceMeets, If
    <3>2. blobs'[ph] = "torn" /\ \A x \in Photos \ {ph} : blobs'[x] = blobs[x]
      BY <1>5, <1>7, <2>2 DEF Evidence!TypeOK
    <3>3. \A v \in Uploads : ~ (uploading[v].at = "writing" /\ uploading[v].photo = ph)
      BY <3>1 DEF Evidence!Writers
    <3>4. \A v \in Uploads : uploading[v].at # "idle" => uploading[v].photo \in Photos
      BY ServicesAssumption DEF UploadsGenuine, Evidence!PhotosAssumption
    <3>5. \A v \in Uploads : uploading'[v].at = "stored" => blobs'[uploading'[v].photo] = "whole"
      BY <1>4, <1>9, <1>10, <3>1, <3>2, <3>4 DEF UploadsApart
    <3>6. ASSUME NEW v \in Uploads, NEW w \in Uploads, uploading'[v].at = "writing"
          PROVE  /\ blobs'[uploading'[v].photo] # "whole"
                 /\ uploading'[w].at = "writing" /\ uploading'[v].photo = uploading'[w].photo => v = w
      BY <1>4, <1>9, <1>10, <2>2, <3>2, <3>3, <3>4, <3>6 DEF UploadsApart
    <3>7. \A e \in marked : PhotoHash[e] # ph BY <1>10, <3>1 DEF UploadsApart
    <3>8. \A e \in marked' : blobs'[PhotoHash[e]] = "whole"
      BY <1>5, <1>10, <3>2, <3>7, ServicesAssumption DEF UploadsApart, Evidence!TypeOK, Evidence!PhotosAssumption
    <3> QED BY <1>5, <1>10, <3>5, <3>6, <3>8 DEF UploadsApart
  <2> QED BY <2>1, <2>2
<1> QED BY <1>8, <1>10

LEMMA EndWriteKeeps ==
    ASSUME Evidence!TypeOK, UploadsGenuine, NEW u \in Uploads, Evidence!EndWrite(u)
    PROVE  /\ Evidence!TypeOK' /\ UploadsGenuine'
           /\ UploadsApart => UploadsApart'
<1>1. PICK c : c = [uploading[u] EXCEPT !.at = "stored"] OBVIOUS
<1>2. PICK ph : ph = uploading[u].photo OBVIOUS
<1>3. uploading[u] \in Evidence!Call /\ uploading[u].at = "writing"
  BY DEF Evidence!EndWrite, Evidence!TypeOK
<1>4. /\ c \in Evidence!Call /\ c.at = "stored" /\ c.photo = ph /\ c.event = uploading[u].event
  BY <1>1, <1>2, <1>3 DEF Evidence!Call
<1>5. PICK bytes \in {"torn", "whole"} :
         /\ bytes = "torn" => store = "directory" /\ Evidence!Writers(ph) # {u}
         /\ blobs' = [blobs EXCEPT ![ph] = bytes]
         /\ uploading' = [uploading EXCEPT ![u] = c] /\ UNCHANGED <<store, marked, caches>>
  BY <1>1, <1>2 DEF Evidence!EndWrite
<1>6. blobs' \in [Photos -> Evidence!Bytes] BY <1>5 DEF Evidence!TypeOK, Evidence!Bytes
<1>7. c.event \in WeighIns /\ ph = PhotoHash[c.event] /\ ph \in Photos
  BY <1>2, <1>3, <1>4, ServicesAssumption DEF UploadsGenuine, Evidence!PhotosAssumption
<1>8. Evidence!TypeOK' /\ UploadsGenuine' BY <1>4, <1>5, <1>6, <1>7, UploadGoesOn
<1>9. uploading'[u] = c /\ \A v \in Uploads \ {u} : uploading'[v] = uploading[v]
  BY <1>5 DEF Evidence!TypeOK
<1>10. ASSUME UploadsApart PROVE UploadsApart'
  <2>1. bytes = "whole"
    <3>1. ASSUME store = "directory" PROVE Evidence!Writers(ph) = {u}
      BY <1>2, <1>3, <1>10, <3>1 DEF UploadsApart, Evidence!Writers
    <3> QED BY <1>5, <3>1
  <2>2. blobs'[ph] = "whole" /\ \A x \in Photos \ {ph} : blobs'[x] = blobs[x]
    BY <1>5, <1>7, <2>1 DEF Evidence!TypeOK
  <2>3. \A v \in Uploads : uploading[v].at # "idle" => uploading[v].photo \in Photos
    BY ServicesAssumption DEF UploadsGenuine, Evidence!PhotosAssumption
  <2>4. \A v \in Uploads : uploading'[v].at = "stored" => blobs'[uploading'[v].photo] = "whole"
    BY <1>4, <1>9, <1>10, <2>2, <2>3 DEF UploadsApart
  <2>5. ASSUME NEW v \in Uploads, NEW w \in Uploads, uploading'[v].at = "writing", store = "directory"
        PROVE  /\ blobs'[uploading'[v].photo] # "whole"
               /\ uploading'[w].at = "writing" /\ uploading'[v].photo = uploading'[w].photo => v = w
    <3>1. v # u /\ uploading'[v] = uploading[v] BY <1>4, <1>9, <2>5
    <3>2. uploading[v].photo # ph BY <1>2, <1>3, <1>10, <2>5, <3>1 DEF UploadsApart
    <3>3. blobs'[uploading[v].photo] = blobs[uploading[v].photo] BY <2>2, <2>3, <2>5, <3>1, <3>2
    <3> QED BY <1>4, <1>9, <1>10, <2>5, <3>1, <3>2, <3>3 DEF UploadsApart
  <2>6. \A e \in marked : blobs'[PhotoHash[e]] = "whole"
    BY <1>10, <2>2, ServicesAssumption DEF UploadsApart, Evidence!TypeOK, Evidence!PhotosAssumption
  <2> QED BY <1>5, <1>10, <2>4, <2>5, <2>6 DEF UploadsApart
<1> QED BY <1>8, <1>10

LEMMA MarkOrDieKeeps ==
    ASSUME Evidence!TypeOK, UploadsGenuine, NEW u \in Uploads, Evidence!Mark(u) \/ Evidence!Die(u)
    PROVE  /\ Evidence!TypeOK' /\ UploadsGenuine'
           /\ UploadsApart => UploadsApart'
<1>1. PICK c : c = Evidence!Idle OBVIOUS
<1>2. c \in Evidence!Call /\ c.at = "idle" BY <1>1, IdleUpload
<1>3. /\ uploading' = [uploading EXCEPT ![u] = c] /\ UNCHANGED <<store, blobs, caches>>
      /\ marked' = marked \/ (uploading[u].at = "stored" /\ marked' = marked \cup {uploading[u].event})
  BY <1>1 DEF Evidence!Mark, Evidence!Markable, Evidence!Die
<1>4. Evidence!TypeOK' /\ UploadsGenuine' BY <1>2, <1>3, UploadGoesOn DEF Evidence!TypeOK
<1>5. uploading'[u] = c /\ \A v \in Uploads \ {u} : uploading'[v] = uploading[v]
  BY <1>3 DEF Evidence!TypeOK
<1>6. ASSUME UploadsApart PROVE UploadsApart'
  <2>1. \A e \in marked' : blobs[PhotoHash[e]] = "whole"
    BY <1>3, <1>6 DEF UploadsApart, UploadsGenuine
  <2> QED BY <1>2, <1>3, <1>5, <1>6, <2>1 DEF UploadsApart
<1> QED BY <1>4, <1>6

LEMMA ServeKeeps ==
    ASSUME Evidence!TypeOK, UploadsGenuine, NEW e \in WeighIns, Evidence!Serve(e)
    PROVE  /\ Evidence!TypeOK' /\ UploadsGenuine'
           /\ UploadsApart => UploadsApart'
<1>1. /\ blobs[PhotoHash[e]] \in Evidence!Bytes \ {"absent"} /\ e \in marked
      /\ caches' = caches \cup {<<e, blobs[PhotoHash[e]]>>}
      /\ UNCHANGED <<store, blobs, marked, uploading>>
  BY ServicesAssumption DEF Evidence!Serve, Evidence!TypeOK, Evidence!PhotosAssumption
<1>2. Evidence!TypeOK' BY <1>1 DEF Evidence!TypeOK
<1>3. UploadsGenuine' BY <1>1 DEF UploadsGenuine
<1>4. ASSUME UploadsApart PROVE UploadsApart'
  <2>1. \A d \in WeighIns : <<d, "torn">> \notin caches' BY <1>1, <1>4 DEF UploadsApart
  <2> QED BY <1>1, <1>4, <2>1 DEF UploadsApart
<1> QED BY <1>2, <1>3, <1>4

LEMMA EvidenceStep == EvidenceInv /\ [MCNext]_MCvars => EvidenceInv'
<1> SUFFICES ASSUME EvidenceInv, [MCNext]_MCvars PROVE EvidenceInv' OBVIOUS
<1>1. Evidence!TypeOK /\ UploadsGenuine BY DEF EvidenceInv
<1>2. CASE part = "evidence" /\ Evidence!Next /\ EvidenceMeets \subseteq met'
  <2>1. /\ Evidence!TypeOK' /\ UploadsGenuine'
        /\ UploadsApart /\ EvidenceMeets = {} => UploadsApart'
    BY <1>1, <1>2, AttachKeeps, StartWriteKeeps, EndWriteKeeps, MarkOrDieKeeps, ServeKeeps DEF Evidence!Next
  <2>2. met' = {} => met = {} /\ EvidenceMeets = {} BY <1>2, OnePart
  <2>3. part' = part BY OnePart
  <2> QED BY <2>1, <2>2, <2>3 DEF EvidenceInv
<1>3. CASE UNCHANGED kept
  <2>1. UNCHANGED <<store, blobs, marked, uploading, caches>> BY <1>3 DEF kept
  <2>2. Evidence!TypeOK' BY <1>1, <2>1 DEF Evidence!TypeOK
  <2>3. UploadsGenuine' BY <1>1, <2>1 DEF UploadsGenuine
  <2>4. UploadsApart => UploadsApart' BY <2>1 DEF UploadsApart
  <2>5. part' = part /\ (met' = {} => met = {}) BY OnePart
  <2> QED BY <2>2, <2>3, <2>4, <2>5 DEF EvidenceInv
<1> QED BY <1>2, <1>3, OnePart

\* The invariant of photos, in every reachable state.
THEOREM EvidenceInvHolds == MCSpec => []EvidenceInv
BY EvidenceInit, EvidenceStep, PTL DEF MCSpec, MCvars

\* As long as no upload is repeated into a directory, a row is marked only once the bytes are
\* stored, they stay stored, and nobody is served others, whichever uploads race or die.
THEOREM PhotosAreStored == MCSpec => []EvidenceStoredAlone
<1>1. EvidenceInv => EvidenceStoredAlone
  BY DEF EvidenceInv, UploadsApart, EvidenceStoredAlone, Evidence!EvidenceStored, Evidence!EvidenceServed
<1> QED BY <1>1, EvidenceInvHolds, PTL

-----------------------------------------------------------------------------
(***************************************************************************)
(* The dashboard                                                           *)
(***************************************************************************)

\* The browser stays on a page of the dashboard, and its account is one of the staff's or nobody's.
DashboardInv == page \in Dashboard!Pages /\ operator \in Dashboard!Staff \cup {"none"}

LEMMA DashboardInit == MCInit => DashboardInv
BY DEF MCInit, DashboardInv, Dashboard!Init, Dashboard!Pages

LEMMA DashboardStep == DashboardInv /\ [MCNext]_MCvars => DashboardInv'
<1> SUFFICES ASSUME DashboardInv, [MCNext]_MCvars PROVE DashboardInv' OBVIOUS
<1>1. CASE Dashboard!SignIn BY <1>1 DEF DashboardInv, Dashboard!SignIn
<1>2. CASE Dashboard!SignOut BY <1>2 DEF DashboardInv, Dashboard!SignOut
<1>3. CASE Dashboard!Elsewhere \/ Dashboard!SignInRequester \/ Dashboard!SignOutRequester
  BY <1>3 DEF DashboardInv, Dashboard!Elsewhere, Dashboard!SignInRequester, Dashboard!SignOutRequester
<1>4. CASE \/ Dashboard!Open \/ Dashboard!ReadRow \/ Dashboard!FailRow
           \/ Dashboard!ReadWho \/ Dashboard!FailWho \/ Dashboard!Show
  BY <1>4 DEF DashboardInv, Dashboard!Open, Dashboard!ReadRow, Dashboard!FailRow, Dashboard!ReadWho,
              Dashboard!FailWho, Dashboard!Show
<1>5. CASE \/ \E c \in Dashboard!Controls : Dashboard!Submit(c)
           \/ Dashboard!Serve \/ Dashboard!Refuse \/ Dashboard!Break
  BY <1>5 DEF DashboardInv, Dashboard!Submit, Dashboard!Serve, Dashboard!Refuse, Dashboard!Break
<1>6. CASE Dashboard!AnswerDone \/ Dashboard!AnswerRefused \/ Dashboard!NoAnswer
  BY <1>6 DEF DashboardInv, Dashboard!AnswerDone, Dashboard!AnswerRefused, Dashboard!NoAnswer, Dashboard!Redirect
<1>7. CASE Dashboard!Next BY <1>1, <1>2, <1>3, <1>4, <1>5, <1>6, <1>7 DEF Dashboard!Next
<1>8. CASE UNCHANGED shown BY <1>8 DEF DashboardInv, shown
<1> QED BY <1>7, <1>8, OnePart

\* The invariant of the dashboard, in every reachable state.
THEOREM DashboardInvHolds == MCSpec => []DashboardInv
BY DashboardInit, DashboardStep, PTL DEF MCSpec, MCvars

\* What a page that asks who is there offers for a row, the backend takes, but for the one thing
\* it offers in vain.
LEMMA OffersAreTaken ==
    ASSUME NEW pg \in Dashboard!Pages, Dashboard!PageOf(pg).asks = "beside", NEW who, NEW r,
           NEW c \in Dashboard!Offers(pg, who, r)
    PROVE  /\ who \in Dashboard!ActionOf(c).admits
           /\ c \notin Dashboard!Forms =>
                 ((\E to \in Dashboard!Statuses(pg) : <<r, to>> \in Dashboard!ActionOf(c).moves)
                     <=> ~ Dashboard!OfferedInVain(c, r))
<1> USE DEF Dashboard!Offers, Dashboard!ActionOf, Dashboard!Statuses, Dashboard!Forms, Dashboard!When,
            Dashboard!Action, Dashboard!Editors, Dashboard!OfferedInVain
<1>1. CASE pg = "requests"
  BY <1>1 DEF Dashboard!RequestControls, Dashboard!AssignAction, Dashboard!FulfilAction, Dashboard!CancelAction
<1>2. CASE pg = "redemptions" BY <1>2 DEF Dashboard!RedemptionControls, Dashboard!HandOverAction
<1>3. CASE pg = "withdrawals"
  BY <1>3 DEF Dashboard!WithdrawalControls, Dashboard!PayOutAction, Dashboard!RejectAction
<1>4. CASE pg = "payouts"
  BY <1>4 DEF Dashboard!PayoutControls, Dashboard!MarkPaidAction, Dashboard!CreatePayoutAction
<1>5. CASE pg = "collectors" BY <1>5 DEF Dashboard!CollectorControls, Dashboard!AddCollectorAction
<1>6. CASE pg = "rates" BY <1>6 DEF Dashboard!RateControls, Dashboard!AddRateAction
<1>7. CASE pg = "items" BY <1>7 DEF Dashboard!ItemControls, Dashboard!AddItemAction
<1>8. CASE pg = "materials"
  <2> USE DEF Dashboard!Active, Dashboard!Retired, Dashboard!InUse, Dashboard!Moves
  <2>1. CASE c = "edit" BY <1>8, <2>1 DEF Dashboard!MaterialTable, Dashboard!EditMaterialAction
  <2>2. CASE c = "retire"
    <3>1. who = "admin" /\ (r = "active" \/ r = "active, in use") BY <1>8, <2>2 DEF Dashboard!MaterialTable
    <3>2. <<"active", "retired">> \in Dashboard!RetireAction.moves BY DEF Dashboard!RetireAction
    <3>3. <<"active, in use", "retired, in use">> \in Dashboard!RetireAction.moves BY DEF Dashboard!RetireAction
    <3>4. who \in Dashboard!RetireAction.admits BY <3>1 DEF Dashboard!RetireAction
    <3> QED BY <1>8, <2>2, <3>1, <3>2, <3>3, <3>4
  <2>3. CASE c = "restore"
    <3>1. who = "admin" /\ (r = "retired" \/ r = "retired, in use") BY <1>8, <2>3 DEF Dashboard!MaterialTable
    <3>2. <<"retired", "active">> \in Dashboard!RestoreAction.moves BY DEF Dashboard!RestoreAction
    <3>3. <<"retired, in use", "active, in use">> \in Dashboard!RestoreAction.moves BY DEF Dashboard!RestoreAction
    <3>4. who \in Dashboard!RestoreAction.admits BY <3>1 DEF Dashboard!RestoreAction
    <3> QED BY <1>8, <2>3, <3>1, <3>2, <3>3, <3>4
  <2>4. CASE c = "delete" BY <1>8, <2>4 DEF Dashboard!MaterialTable, Dashboard!DeleteMaterialAction
  <2>5. CASE c = "addMaterial" BY <1>8, <2>5 DEF Dashboard!MaterialTable, Dashboard!AddMaterialAction
  <2>6. c \in {"edit", "retire", "restore", "delete", "addMaterial"} BY <1>8 DEF Dashboard!MaterialTable
  <2> QED BY <2>1, <2>2, <2>3, <2>4, <2>5, <2>6
<1>9. pg \in {"requests", "redemptions", "withdrawals", "payouts", "collectors", "rates", "items", "materials"}
  BY DEF Dashboard!Pages, Dashboard!PageOf, Dashboard!Page, Dashboard!BatchesPage, Dashboard!BatchPage,
         Dashboard!EventsPage, Dashboard!ReweighPage, Dashboard!ReportPage, Dashboard!EventProofPage,
         Dashboard!RequesterDashboardPage, Dashboard!RequesterWalletPage, Dashboard!RequesterRewardsPage,
         Dashboard!RequesterRequestPage, Dashboard!RequesterHistoryPage
<1> QED BY <1>1, <1>2, <1>3, <1>4, <1>5, <1>6, <1>7, <1>8, <1>9

\* Whatever account asks and whatever the row has become meanwhile: an operator's page offers nothing
\* that its account could not do; and of what it offers for the row as it is, the backend refuses to
\* delete a material in use, and nothing else.
THEOREM OfferedIsTaken == MCSpec => []ControlsAreLive
<1>1. DashboardInv => ControlsAreLive
  BY OffersAreTaken DEF DashboardInv, ControlsAreLive, Dashboard!ControlsAreLive, Dashboard!Accepts
<1> QED BY <1>1, DashboardInvHolds, PTL

-----------------------------------------------------------------------------
(***************************************************************************)
(* The rate limiter                                                         *)
(***************************************************************************)
\* What is assumed of the constants of the limiter.
LEMMA GuardConstants ==
    /\ Limit \in Nat \ {0} /\ Window \in Nat \ {0} /\ MaxTime \in Nat /\ None \notin Guard!Bucket
BY ServicesAssumption DEF Guard!RateLimitAssumption

\* The times from one to another.
Times(a, b) == {s \in 0..MaxTime : a <= s /\ s <= b}

\* What a limiter may have served one client, second by second.
Served == [0..MaxTime -> Nat]

\* What was served from one time to another.
Span(f, a, b) == SumFunctionOnSet(f, Times(a, b))

\* There are finitely many of them, whatever the ends.
LEMMA TimesFinite ==
    ASSUME NEW a, NEW b PROVE IsFiniteSet(Times(a, b)) /\ Times(a, b) \subseteq 0..MaxTime
<1>1. IsFiniteSet(0..MaxTime) BY GuardConstants, FS_Interval
<1>2. Times(a, b) \in SUBSET (0..MaxTime) BY DEF Times
<1> QED BY <1>1, <1>2, FS_Subset

\* A number of requests.
LEMMA SpanType ==
    ASSUME NEW f \in Served, NEW a, NEW b PROVE Span(f, a, b) \in Nat
<1>1. \A s \in Times(a, b) : f[s] \in Nat BY TimesFinite DEF Served
<1> QED BY <1>1, TimesFinite, SumOfNaturals DEF Span

\* A longer stretch serves no less.
LEMMA SpanGrows ==
    ASSUME NEW f \in Served, NEW a \in Int, NEW b \in Int, NEW c \in Int, NEW d \in Int, c <= a, b <= d
    PROVE  Span(f, a, b) <= Span(f, c, d)
<1>1. Times(a, b) \in SUBSET Times(c, d) BY DEF Times
<1>2. \A s \in Times(c, d) : f[s] \in Nat BY TimesFinite DEF Served
<1> QED BY <1>1, <1>2, TimesFinite, SumOfNaturals DEF Span

\* A stretch is its beginning and its end.
LEMMA SpanParts ==
    ASSUME NEW f \in Served, NEW a \in Int, NEW m \in Int, NEW b \in Int, a <= m, m <= b + 1
    PROVE  Span(f, a, b) = Span(f, a, m - 1) + Span(f, m, b)
<1>1. Times(a, m - 1) \in SUBSET Times(a, b) BY DEF Times
<1>2. Times(a, b) \ Times(a, m - 1) = Times(m, b) BY DEF Times
<1>3. \A s \in Times(a, b) : f[s] \in Int BY TimesFinite DEF Served
<1> QED BY <1>1, <1>2, <1>3, TimesFinite, SumOfParts DEF Span

\* A stretch of one second is that second.
LEMMA SpanOfOne ==
    ASSUME NEW f \in Served, NEW t \in 0..MaxTime PROVE Span(f, t, t) = f[t]
<1>1. Times(t, t) = {} \cup {t} BY DEF Times
<1>2. IsFiniteSet({t}) BY FS_Singleton
<1>3. f[t] \in Int BY DEF Served
<1>4. SumFunctionOnSet(f, {} \cup {t}) = f[t] + SumFunctionOnSet(f, {}) BY <1>2, <1>3, SumAdds
<1> QED BY <1>1, <1>3, <1>4, SumOfNothing DEF Span

\* A stretch depends on its own seconds alone.
LEMMA SpanSame ==
    ASSUME NEW f \in Served, NEW g, NEW a, NEW b, \A s \in Times(a, b) : g[s] = f[s]
    PROVE  Span(g, a, b) = Span(f, a, b)
<1>1. \A s \in Times(a, b) : f[s] \in Int /\ g[s] = f[s] BY TimesFinite DEF Served
<1> QED BY <1>1, TimesFinite, SumOfEqual DEF Span

\* One request more, at t.
OneMore(f, g, t) == g = [f EXCEPT ![t] = @ + 1]

\* What that leaves alone.
LEMMA OneMoreIs ==
    ASSUME NEW f \in Served, NEW t \in 0..MaxTime, NEW g, OneMore(f, g, t)
    PROVE  g \in Served /\ g[t] = f[t] + 1 /\ f[t] \in Nat /\ \A s \in 0..MaxTime \ {t} : g[s] = f[s]
BY DEF OneMore, Served

\* A request more at one time of it.
LEMMA SpanOfOneMore ==
    ASSUME NEW f \in Served, NEW g, NEW t, t \in 0..MaxTime, OneMore(f, g, t),
           NEW a \in Int, NEW b \in Int, a <= t, t <= b
    PROVE  Span(g, a, b) = Span(f, a, b) + 1
<1>1. g \in Served /\ \A s \in 0..MaxTime \ {t} : g[s] = f[s] BY OneMoreIs
<1>2. PICK T : T = Times(a, b) OBVIOUS
<1>3. t \in T /\ IsFiniteSet(T) /\ T \subseteq 0..MaxTime BY <1>2, TimesFinite DEF Times
<1>4. \A s \in T : f[s] \in Int /\ g[s] \in Int BY <1>1, <1>3 DEF Served
<1>5. \A s \in T \ {t} : g[s] = f[s] BY <1>1, <1>3
<1>6. SumFunctionOnSet(g, T) = SumFunctionOnSet(f, T) + (g[t] - f[t])
  <2>1. OnlyAt(f, g, T, t) BY <1>3, <1>4, <1>5, SumOnlyAt
  <2> QED BY <2>1 DEF OnlyAt
<1>7. g[t] = f[t] + 1 /\ f[t] \in Nat BY OneMoreIs
<1>8. SumFunctionOnSet(f, T) \in Nat BY <1>2, SpanType DEF Span
<1>9. SumFunctionOnSet(g, T) = SumFunctionOnSet(f, T) + 1 BY <1>6, <1>7, <1>8
<1> QED BY <1>2, <1>9 DEF Span

\* The window of the property is such a stretch.
LEMMA InWindowIsSpan ==
    ASSUME NEW k, NEW t \in 0..MaxTime PROVE Guard!InWindow(k, t) = Span(served[k], t - Window + 1, t)
<1>1. {s \in 0..t : t < s + Window} = Times(t - Window + 1, t) BY GuardConstants DEF Times
<1> QED BY <1>1 DEF Guard!InWindow, Span, SumFunctionOnSet, Guard!SumFunctionOnSet, FoldFunctionOnSet, Guard!FoldFunctionOnSet, MapThenFoldSet, Guard!MapThenFoldSet

\* What a bucket knows of what was served by time n, while it is open and once its time is up.
Counts(f, b, n) ==
    LET start == b.resetAt - Window
    IN /\ start \in 0..n /\ f[start] >= 1
       /\ Span(f, start, n) = b.count
       /\ Span(f, start - Window + 1, start - 1) <= Limit - 1

Expired(b, n) == b # None => b.resetAt <= n

LetThrough(f, b, n) ==
    /\ \A s \in 0..MaxTime : n < s => f[s] = 0
    /\ \A t \in 0..MaxTime : t <= n => Span(f, t - Window + 1, t) < 2 * Limit
    /\ Expired(b, n) => f[n] = 0 /\ Span(f, n - Window + 1, n) <= Limit - 1
    /\ ~ Expired(b, n) => Counts(f, b, n)

\* A second passes: nothing is served in it yet, and a bucket may run out.
LEMMA TimePasses ==
    ASSUME NEW f \in Served, NEW b \in Guard!Bucket \cup {None}, NEW n \in 0..MaxTime, n < MaxTime,
           LetThrough(f, b, n)
    PROVE  LetThrough(f, b, n + 1)
<1>1. /\ Limit \in Nat \ {0} /\ Window \in Nat \ {0} /\ MaxTime \in Nat /\ n \in Nat
      /\ n + 1 \in 0..MaxTime
  BY GuardConstants
<1>2. f[n + 1] = 0 BY <1>1 DEF LetThrough
<1>3. \A s \in 0..MaxTime : n + 1 < s => f[s] = 0 BY <1>1 DEF LetThrough
<1>4. ASSUME NEW a \in Int, a <= n + 1 PROVE Span(f, a, n + 1) = Span(f, a, n)
  <2>1. Span(f, a, n + 1) = Span(f, a, (n + 1) - 1) + Span(f, n + 1, n + 1) BY <1>1, <1>4, SpanParts
  <2>2. Span(f, n + 1, n + 1) = 0 BY <1>1, <1>2, SpanOfOne
  <2>3. (n + 1) - 1 = n BY <1>1
  <2>4. Span(f, a, n) \in Nat BY SpanType
  <2> QED BY <2>1, <2>2, <2>3, <2>4
<1>5. ASSUME Expired(b, n + 1) PROVE Span(f, (n + 1) - Window + 1, n + 1) <= Limit - 1
  <2>1. Span(f, (n + 1) - Window + 1, n + 1) = Span(f, (n + 1) - Window + 1, n) BY <1>1, <1>4
  <2>2. CASE Expired(b, n)
    <3>1. Span(f, (n + 1) - Window + 1, n) <= Span(f, n - Window + 1, n) BY <1>1, SpanGrows
    <3>2. Span(f, n - Window + 1, n) <= Limit - 1 BY <2>2 DEF LetThrough
    <3>3. Span(f, (n + 1) - Window + 1, n) \in Nat /\ Span(f, n - Window + 1, n) \in Nat BY SpanType
    <3> QED BY <1>1, <2>1, <3>1, <3>2, <3>3
  <2>3. CASE ~ Expired(b, n)
    <3>1. PICK start : start = b.resetAt - Window OBVIOUS
    <3>2. b \in Guard!Bucket /\ ~ (b.resetAt <= n) /\ b.resetAt <= n + 1 BY <1>5, <2>3 DEF Expired
    <3>3. b.resetAt \in Nat /\ b.count \in 1..Limit BY <1>1, <3>2 DEF Guard!Bucket
    <3>4. b.resetAt = n + 1 BY <1>1, <3>2, <3>3
    <3>5. start = (n + 1) - Window BY <1>1, <3>1, <3>4
    <3>6. start \in 0..n /\ f[start] >= 1 /\ Span(f, start, n) = b.count BY <2>3, <3>1 DEF LetThrough, Counts
    <3>7. Span(f, start, n) = Span(f, start, (start + 1) - 1) + Span(f, start + 1, n) BY <1>1, <3>6, SpanParts
    <3>8. (start + 1) - 1 = start BY <3>6
    <3>9. Span(f, start, start) = f[start] BY <1>1, <3>6, SpanOfOne
    <3>10. f[start] \in Nat BY <1>1, <3>6 DEF Served
    <3>11. Span(f, start + 1, n) \in Nat BY SpanType
    <3>12. Span(f, start + 1, n) <= Limit - 1 BY <1>1, <3>3, <3>6, <3>7, <3>8, <3>9, <3>10, <3>11
    <3>13. start + 1 = (n + 1) - Window + 1 BY <1>1, <3>5
    <3> QED BY <2>1, <3>12, <3>13
  <2> QED BY <2>2, <2>3
<1>6. ASSUME ~ Expired(b, n + 1) PROVE Counts(f, b, n + 1)
  <2>1. b \in Guard!Bucket /\ ~ (b.resetAt <= n + 1) BY <1>6 DEF Expired
  <2>2. b.resetAt \in Nat BY <1>1, <2>1 DEF Guard!Bucket
  <2>3. ~ Expired(b, n) BY <1>1, <2>1, <2>2, <1>6 DEF Expired
  <2>4. PICK start : start = b.resetAt - Window OBVIOUS
  <2>5. /\ start \in 0..n /\ f[start] >= 1 /\ Span(f, start, n) = b.count
        /\ Span(f, start - Window + 1, start - 1) <= Limit - 1
    BY <2>3, <2>4 DEF LetThrough, Counts
  <2>6. start \in 0..(n + 1) /\ start <= n + 1 /\ start \in Int BY <1>1, <2>5
  <2>7. Span(f, start, n + 1) = Span(f, start, n) BY <1>4, <2>6
  <2> QED BY <2>4, <2>5, <2>6, <2>7 DEF Counts
<1>7. ASSUME NEW t \in 0..MaxTime, t <= n + 1 PROVE Span(f, t - Window + 1, t) < 2 * Limit
  <2>1. CASE t <= n BY <2>1 DEF LetThrough
  <2>2. CASE t = n + 1
    <3>1. Span(f, (n + 1) - Window + 1, n + 1) = Span(f, (n + 1) - Window + 1, n) BY <1>1, <1>4
    <3>2. Span(f, (n + 1) - Window + 1, n) <= Span(f, n - Window + 1, n) BY <1>1, SpanGrows
    <3>3. Span(f, n - Window + 1, n) < 2 * Limit BY DEF LetThrough
    <3>4. Span(f, (n + 1) - Window + 1, n) \in Nat /\ Span(f, n - Window + 1, n) \in Nat BY SpanType
    <3> QED BY <1>1, <2>2, <3>1, <3>2, <3>3, <3>4
  <2> QED BY <1>1, <1>7, <2>1, <2>2
<1> QED BY <1>2, <1>3, <1>5, <1>6, <1>7 DEF LetThrough

\* A bucket opens, with a request.
LEMMA BucketOpens ==
    ASSUME NEW f \in Served, NEW b \in Guard!Bucket \cup {None}, NEW n \in 0..MaxTime,
           LetThrough(f, b, n), Expired(b, n),
           NEW g, OneMore(f, g, n), NEW c, c = [count |-> 1, resetAt |-> n + Window]
    PROVE  c \in Guard!Bucket /\ LetThrough(g, c, n)
<1>1. /\ Limit \in Nat \ {0} /\ Window \in Nat \ {0} /\ MaxTime \in Nat /\ n \in Nat
      /\ None \notin Guard!Bucket
  BY GuardConstants
<1>2. c \in Guard!Bucket
  <2>1. 1 \in 1..Limit /\ n + Window \in 0..(MaxTime + Window) BY <1>1
  <2> QED BY <2>1 DEF Guard!Bucket
<1>3. ~ Expired(c, n)
  <2>1. c # None /\ c.resetAt = n + Window BY <1>1, <1>2
  <2> QED BY <1>1, <2>1 DEF Expired
<1>4. g \in Served /\ f[n] = 0 /\ f[n] \in Nat /\ g[n] = 1 /\ \A s \in 0..MaxTime \ {n} : g[s] = f[s]
  BY OneMoreIs DEF LetThrough
<1>5. \A s \in 0..MaxTime : n < s => g[s] = 0 BY <1>1, <1>4 DEF LetThrough
<1>6. Span(g, n, n) = 1 BY <1>4, SpanOfOne
<1>7. Span(f, n - Window + 1, n) <= Limit - 1 /\ Span(f, n - Window + 1, n) \in Nat BY SpanType DEF LetThrough
<1>8. Counts(g, c, n)
  <2>1. c.resetAt - Window = n /\ c.count = 1 BY <1>1
  <2>2. Span(g, n - Window + 1, n - 1) = Span(f, n - Window + 1, n - 1)
    <3>1. \A s \in Times(n - Window + 1, n - 1) : s \in 0..MaxTime \ {n} BY <1>1 DEF Times
    <3>2. \A s \in Times(n - Window + 1, n - 1) : g[s] = f[s] BY <1>4, <3>1
    <3> QED BY <3>2, SpanSame
  <2>3. Span(f, n - Window + 1, n - 1) <= Span(f, n - Window + 1, n) BY <1>1, SpanGrows
  <2>4. Span(f, n - Window + 1, n - 1) \in Nat BY SpanType
  <2>5. Span(g, n - Window + 1, n - 1) <= Limit - 1 BY <1>1, <1>7, <2>2, <2>3, <2>4
  <2> QED BY <1>1, <1>4, <1>6, <2>1, <2>5 DEF Counts
<1>9. ASSUME NEW t \in 0..MaxTime, t <= n PROVE Span(g, t - Window + 1, t) < 2 * Limit
  <2>1. CASE t = n
    <3>1. n - Window + 1 \in Int /\ n - Window + 1 <= n /\ g[n] = f[n] + 1 BY <1>1, <1>4
    <3>2. Span(g, n - Window + 1, n) = Span(f, n - Window + 1, n) + 1 BY <3>1, SpanOfOneMore
    <3> QED BY <1>1, <1>7, <2>1, <3>2
  <2>2. CASE t # n
    <3>1. \A s \in Times(t - Window + 1, t) : s \in 0..MaxTime \ {n} BY <1>1, <1>9, <2>2 DEF Times
    <3>2. \A s \in Times(t - Window + 1, t) : g[s] = f[s] BY <1>4, <3>1
    <3>3. Span(g, t - Window + 1, t) = Span(f, t - Window + 1, t) BY <3>2, SpanSame
    <3> QED BY <1>9, <3>3 DEF LetThrough
  <2> QED BY <2>1, <2>2
<1> QED BY <1>2, <1>3, <1>5, <1>8, <1>9 DEF LetThrough

\* A request more in an open bucket.
LEMMA BucketCounts ==
    ASSUME NEW f \in Served, NEW b \in Guard!Bucket \cup {None}, NEW n \in 0..MaxTime,
           LetThrough(f, b, n), ~ Expired(b, n), b.count < Limit,
           NEW g, OneMore(f, g, n), NEW c, c = [b EXCEPT !.count = @ + 1]
    PROVE  c \in Guard!Bucket /\ LetThrough(g, c, n)
<1>1. /\ Limit \in Nat \ {0} /\ Window \in Nat \ {0} /\ MaxTime \in Nat /\ n \in Nat
      /\ None \notin Guard!Bucket
  BY GuardConstants
<1>2. b \in Guard!Bucket /\ ~ (b.resetAt <= n) BY DEF Expired
<1>3. b.count \in 1..Limit /\ b.resetAt \in 0..(MaxTime + Window) BY <1>2 DEF Guard!Bucket
<1>4. c.count = b.count + 1 /\ c.resetAt = b.resetAt BY <1>2 DEF Guard!Bucket
<1>5. c \in Guard!Bucket
  <2>1. b.count + 1 \in 1..Limit BY <1>1, <1>3
  <2>2. c = [count |-> b.count + 1, resetAt |-> b.resetAt] BY <1>2 DEF Guard!Bucket
  <2> QED BY <1>3, <2>1, <2>2 DEF Guard!Bucket
<1>6. ~ Expired(c, n)
  <2>1. c # None /\ ~ (c.resetAt <= n) BY <1>1, <1>2, <1>4, <1>5
  <2> QED BY <2>1 DEF Expired
<1>7. g \in Served /\ f[n] \in Nat /\ g[n] = f[n] + 1 /\ \A s \in 0..MaxTime \ {n} : g[s] = f[s]
  BY OneMoreIs
<1>8. \A s \in 0..MaxTime : n < s => g[s] = 0 BY <1>1, <1>7 DEF LetThrough
<1>9. PICK start : start = b.resetAt - Window OBVIOUS
<1>10. /\ start \in 0..n /\ f[start] >= 1 /\ Span(f, start, n) = b.count
       /\ Span(f, start - Window + 1, start - 1) <= Limit - 1
  BY <1>9 DEF LetThrough, Counts
<1>11. start \in Int /\ start <= n /\ start \in 0..MaxTime BY <1>1, <1>10
<1>12. Span(g, start, n) = b.count + 1
  <2>1. Span(g, start, n) = Span(f, start, n) + 1 BY <1>1, <1>11, SpanOfOneMore
  <2> QED BY <1>10, <2>1
<1>13. Span(g, start - Window + 1, start - 1) <= Limit - 1
  <2>1. \A s \in Times(start - Window + 1, start - 1) : s \in 0..MaxTime \ {n} BY <1>1, <1>11 DEF Times
  <2>2. \A s \in Times(start - Window + 1, start - 1) : g[s] = f[s] BY <1>7, <2>1
  <2>3. Span(g, start - Window + 1, start - 1) = Span(f, start - Window + 1, start - 1) BY <2>2, SpanSame
  <2> QED BY <1>10, <2>3
<1>14. Counts(g, c, n)
  <2>1. g[start] >= 1
    <3>1. f[start] \in Nat BY <1>11 DEF Served
    <3> QED BY <1>7, <1>10, <1>11, <3>1
  <2> QED BY <1>4, <1>9, <1>10, <1>12, <1>13, <2>1 DEF Counts
<1>15. ASSUME NEW t \in 0..MaxTime, t <= n PROVE Span(g, t - Window + 1, t) < 2 * Limit
  <2>1. CASE t = n
    <3>1. start - Window + 1 <= n - Window + 1 /\ start - Window + 1 \in Int /\ n - Window + 1 \in Int
          /\ start - Window + 1 <= start /\ start <= n + 1
      BY <1>1, <1>11
    <3>2. Span(g, n - Window + 1, n) <= Span(g, start - Window + 1, n) BY <1>1, <1>7, <3>1, SpanGrows
    <3>3. Span(g, start - Window + 1, n) = Span(g, start - Window + 1, start - 1) + Span(g, start, n)
      BY <1>1, <1>7, <1>11, <3>1, SpanParts
    <3>4. Span(g, n - Window + 1, n) \in Nat /\ Span(g, start - Window + 1, start - 1) \in Nat
      BY <1>7, SpanType
    <3> QED BY <1>1, <1>3, <1>12, <1>13, <2>1, <3>2, <3>3, <3>4
  <2>2. CASE t # n
    <3>1. \A s \in Times(t - Window + 1, t) : s \in 0..MaxTime \ {n} BY <1>1, <1>15, <2>2 DEF Times
    <3>2. \A s \in Times(t - Window + 1, t) : g[s] = f[s] BY <1>7, <3>1
    <3>3. Span(g, t - Window + 1, t) = Span(f, t - Window + 1, t) BY <3>2, SpanSame
    <3> QED BY <1>15, <3>3 DEF LetThrough
  <2> QED BY <2>1, <2>2
<1> QED BY <1>5, <1>6, <1>8, <1>14, <1>15 DEF LetThrough

\* The invariant: each client's requests are let through as its bucket says, so that before a bucket
\* opens fewer than the limit were served in the window that ends there.
GuardInv == Guard!TypeOK /\ \A k \in Keys : LetThrough(served[k], buckets[k], now)

\* At the start nothing was served.
LEMMA GuardInit == MCInit => GuardInv
<1> SUFFICES ASSUME Guard!Init PROVE GuardInv BY DEF MCInit
<1>1. /\ Limit \in Nat \ {0} /\ Window \in Nat \ {0} /\ MaxTime \in Nat BY GuardConstants
<1>2. Guard!TypeOK BY <1>1 DEF Guard!Init, Guard!TypeOK
<1>3. ASSUME NEW k \in Keys PROVE LetThrough(served[k], buckets[k], now)
  <2>1. PICK f : f = [t \in 0..MaxTime |-> 0] OBVIOUS
  <2>2. served[k] = f /\ buckets[k] = None /\ now = 0 BY <2>1 DEF Guard!Init
  <2>3. \A t \in 0..MaxTime : f[t] = 0 BY <2>1
  <2>4. \A a, b : Span(f, a, b) = 0
    <3> TAKE a, b
    <3>1. \A s \in Times(a, b) : f[s] = 0 BY <2>3, TimesFinite
    <3> QED BY <3>1, TimesFinite, SumOfZeros DEF Span
  <2>5. Expired(None, 0) BY DEF Expired
  <2>6. LetThrough(f, None, 0) BY <1>1, <2>3, <2>4, <2>5 DEF LetThrough
  <2> QED BY <2>2, <2>6
<1> QED BY <1>2, <1>3 DEF GuardInv

\* One bucket changes, or none, while time stands.
LEMMA BucketSteps ==
    ASSUME GuardInv, NEW k \in Keys, NEW c, NEW g \in Served, c \in Guard!Bucket \cup {None},
           buckets' = [buckets EXCEPT ![k] = c], served' = [served EXCEPT ![k] = g], now' = now,
           LetThrough(g, c, now)
    PROVE  GuardInv'
<1>1. /\ buckets \in [Keys -> Guard!Bucket \cup {None}] /\ served \in [Keys -> Served] /\ now \in 0..MaxTime
  BY DEF GuardInv, Guard!TypeOK, Served
<1>2. Guard!TypeOK'
  <2>1. buckets' \in [Keys -> Guard!Bucket \cup {None}] BY <1>1
  <2>2. served' \in [Keys -> Served] BY <1>1
  <2> QED BY <1>1, <2>1, <2>2 DEF Guard!TypeOK, Served
<1>3. \A j \in Keys : LetThrough(served'[j], buckets'[j], now') BY <1>1 DEF GuardInv
<1> QED BY <1>2, <1>3 DEF GuardInv

\* Every step of the limiter keeps it: a second, a bucket opened, counted in or dropped.
LEMMA GuardStep == GuardInv /\ [MCNext]_MCvars => GuardInv'
<1> SUFFICES ASSUME GuardInv, [MCNext]_MCvars PROVE GuardInv' OBVIOUS
<1>1. /\ buckets \in [Keys -> Guard!Bucket \cup {None}] /\ served \in [Keys -> Served] /\ now \in 0..MaxTime
  BY DEF GuardInv, Guard!TypeOK, Served
<1>2. CASE UNCHANGED limited
  <2>1. now' = now /\ buckets' = buckets /\ served' = served BY <1>2 DEF limited
  <2> QED BY <2>1 DEF GuardInv, Guard!TypeOK
<1>3. CASE Guard!Tick
  <2>1. now < MaxTime /\ now' = now + 1 /\ buckets' = buckets /\ served' = served BY <1>3 DEF Guard!Tick
  <2>2. now' \in 0..MaxTime BY <1>1, <2>1, GuardConstants
  <2>3. ASSUME NEW k \in Keys PROVE LetThrough(served'[k], buckets'[k], now')
    <3>1. LetThrough(served[k], buckets[k], now) BY DEF GuardInv
    <3>2. served[k] \in Served /\ buckets[k] \in Guard!Bucket \cup {None} BY <1>1
    <3>3. LetThrough(served[k], buckets[k], now + 1) BY <1>1, <2>1, <3>1, <3>2, TimePasses
    <3> QED BY <2>1, <3>3
  <2> QED BY <2>1, <2>2, <2>3 DEF GuardInv, Guard!TypeOK
<1>4. ASSUME NEW k \in Keys, Guard!Open(k) PROVE GuardInv'
  <2>1. PICK f : f = served[k] OBVIOUS
  <2>2. PICK g : g = [f EXCEPT ![now] = @ + 1] OBVIOUS
  <2>3. PICK c : c = [count |-> 1, resetAt |-> now + Window] OBVIOUS
  <2>4. /\ buckets' = [buckets EXCEPT ![k] = c] /\ served' = [served EXCEPT ![k] = g] /\ now' = now
        /\ Expired(buckets[k], now)
    BY <1>4, <2>1, <2>2, <2>3 DEF Guard!Open, Guard!Serves, Guard!Over, Expired
  <2>5. f \in Served /\ buckets[k] \in Guard!Bucket \cup {None} /\ LetThrough(f, buckets[k], now)
    BY <1>1, <2>1 DEF GuardInv
  <2>6. OneMore(f, g, now) BY <2>2 DEF OneMore
  <2>7. g \in Served BY <1>1, <2>5, <2>6, OneMoreIs
  <2>8. c \in Guard!Bucket /\ LetThrough(g, c, now) BY <1>1, <2>3, <2>4, <2>5, <2>6, BucketOpens
  <2> QED BY <2>4, <2>7, <2>8, BucketSteps
<1>5. ASSUME NEW k \in Keys, Guard!Count(k) PROVE GuardInv'
  <2>1. PICK f : f = served[k] OBVIOUS
  <2>2. PICK g : g = [f EXCEPT ![now] = @ + 1] OBVIOUS
  <2>3. PICK b : b = buckets[k] OBVIOUS
  <2>4. PICK c : c = [b EXCEPT !.count = @ + 1] OBVIOUS
  <2>5. /\ buckets' = [buckets EXCEPT ![k] = c] /\ served' = [served EXCEPT ![k] = g] /\ now' = now
        /\ ~ Expired(b, now) /\ b.count < Limit
    BY <1>5, <2>1, <2>2, <2>3, <2>4 DEF Guard!Count, Guard!Serves, Guard!Over, Guard!Room, Expired
  <2>6. f \in Served /\ b \in Guard!Bucket \cup {None} /\ LetThrough(f, b, now)
    BY <1>1, <2>1, <2>3 DEF GuardInv
  <2>7. OneMore(f, g, now) BY <2>2 DEF OneMore
  <2>8. g \in Served BY <1>1, <2>6, <2>7, OneMoreIs
  <2>9. c \in Guard!Bucket /\ LetThrough(g, c, now) BY <1>1, <2>4, <2>5, <2>6, <2>7, BucketCounts
  <2> QED BY <2>5, <2>8, <2>9, BucketSteps
<1>6. ASSUME NEW k \in Keys, Guard!Evict(k) PROVE GuardInv'
  <2>1. PICK f : f = served[k] OBVIOUS
  <2>2. /\ buckets' = [buckets EXCEPT ![k] = None] /\ served' = served /\ now' = now
        /\ Expired(buckets[k], now)
    BY <1>6 DEF Guard!Evict, Guard!Droppable, Guard!Over, Expired
  <2>3. served' = [served EXCEPT ![k] = f] /\ f \in Served BY <1>1, <2>1, <2>2
  <2>4. LetThrough(f, buckets[k], now) BY <2>1 DEF GuardInv
  <2>5. Expired(None, now) BY DEF Expired
  <2>6. LetThrough(f, None, now) BY <2>2, <2>4, <2>5 DEF LetThrough
  <2> QED BY <2>2, <2>3, <2>6, BucketSteps
<1>7. CASE Guard!Next BY <1>3, <1>4, <1>5, <1>6, <1>7 DEF Guard!Next
<1> QED BY <1>2, <1>7, OnePart

\* The invariant of the rate limiter, in every reachable state.
THEOREM GuardInvHolds == MCSpec => []GuardInv
BY GuardInit, GuardStep, PTL DEF MCSpec, MCvars

\* Whatever the limit and the window, and however a client times its requests, those let through
\* in a stretch of Window seconds are fewer than twice the limit.
THEOREM BurstsAreBounded == MCSpec => []FewerThanTwiceTheLimit
<1>1. GuardInv => FewerThanTwiceTheLimit
  <2> SUFFICES ASSUME GuardInv, NEW k \in Keys, NEW t \in 0..MaxTime PROVE Guard!InWindow(k, t) < 2 * Limit
    BY DEF FewerThanTwiceTheLimit, Guard!FewerThanTwiceTheLimit
  <2>1. /\ Limit \in Nat \ {0} /\ Window \in Nat \ {0} /\ MaxTime \in Nat BY GuardConstants
  <2>2. PICK f \in Served : f = served[k] BY DEF GuardInv, Guard!TypeOK, Served
  <2>3. PICK n \in 0..MaxTime : n = now BY DEF GuardInv, Guard!TypeOK
  <2>4. LetThrough(f, buckets[k], n) BY <2>2, <2>3 DEF GuardInv
  <2>5. Guard!InWindow(k, t) = Span(f, t - Window + 1, t) BY <2>2, InWindowIsSpan
  <2>6. CASE t <= n BY <2>4, <2>5, <2>6 DEF LetThrough
  <2>7. CASE n < t
    <3>1. Span(f, t - Window + 1, t) <= Span(f, n - Window + 1, t) BY <2>1, <2>7, SpanGrows
    <3>2. Span(f, n - Window + 1, t) = Span(f, n - Window + 1, (n + 1) - 1) + Span(f, n + 1, t)
      BY <2>1, <2>7, SpanParts
    <3>3. (n + 1) - 1 = n BY <2>1
    <3>4. \A s \in Times(n + 1, t) : f[s] = 0 BY <2>1, <2>4 DEF Times, LetThrough
    <3>5. Span(f, n + 1, t) = 0 BY <3>4, TimesFinite, SumOfZeros DEF Span
    <3>6. Span(f, n - Window + 1, n) < 2 * Limit BY <2>4 DEF LetThrough
    <3>7. Span(f, t - Window + 1, t) \in Nat /\ Span(f, n - Window + 1, n) \in Nat BY SpanType
    <3> QED BY <2>1, <2>5, <3>1, <3>2, <3>3, <3>5, <3>6, <3>7
  <2> QED BY <2>1, <2>6, <2>7
<1> QED BY <1>1, GuardInvHolds, PTL

-----------------------------------------------------------------------------
(***************************************************************************)
(* The chain of custody                                                     *)
(***************************************************************************)
\* What is assumed of the constants of the custody log.
LEMMA ReportConstants == MaxLeaves \in Nat /\ MaxKg \in Nat /\ LastDay \in Nat
BY ServicesAssumption DEF Report!AuditAssumption

\* There are finitely many days.
LEMMA DaysFinite ==
    ASSUME NEW M, M \subseteq 1..LastDay PROVE IsFiniteSet(M) /\ \A d \in M : d \in Nat /\ d >= 1
<1>1. IsFiniteSet(1..LastDay) BY ReportConstants, FS_Interval
<1>2. \A d \in 1..LastDay : d \in Nat /\ d >= 1 BY ReportConstants
<1> QED BY <1>1, <1>2, FS_Subset

\* The last of some days is one of them.
LEMMA LastOfDays ==
    ASSUME NEW M, M \subseteq 1..LastDay, M # {}
    PROVE  Report!Max(M) \in M /\ \A d \in M : d <= Report!Max(M)
<1>1. PICK T : T = {n \in Nat : \A d \in M : d <= n} OBVIOUS
<1>2. T \subseteq Nat /\ LastDay \in T BY <1>1, ReportConstants
<1>3. PICK n \in T : \A m \in T : n <= m BY <1>2, LeastNat
<1>4. n \in Nat /\ \A d \in M : d <= n BY <1>1
<1>5. n \in M
  <2> SUFFICES ASSUME n \notin M PROVE FALSE OBVIOUS
  <2>1. \A d \in M : d \in Nat /\ d >= 1 /\ d <= n /\ d # n BY <1>4, DaysFinite
  <2>2. n - 1 \in Nat
    <3>1. PICK d : d \in M OBVIOUS
    <3> QED BY <1>4, <2>1, <3>1
  <2>4. \A d \in M : d <= n - 1 BY <1>4, <2>1
  <2>3. n <= n - 1 BY <1>1, <1>3, <2>2, <2>4
  <2> QED BY <1>4, <2>3
<1>6. \E x \in M : \A y \in M : x >= y
  <2>1. \A y \in M : n >= y BY <1>4, ReportConstants
  <2> QED BY <1>5, <2>1
<1>7. Report!Max(M) \in M /\ \A y \in M : Report!Max(M) >= y BY <1>6 DEF Report!Max
<1>8. \A d \in M : d \in Nat BY ReportConstants
<1> QED BY <1>7, <1>8

\* The days before one, without it and with it.
Earlier(M, d) == {s \in M : s < d}
Until(M, d) == {s \in M : s <= d}

\* On each day what was lost is what was taken in and not given out.
Weighed(M, given, taken, lost) ==
    \A t \in M : given[t] \in Int /\ taken[t] \in Int /\ lost[t] = taken[t] - given[t]

\* By each day, what was lost until then is what was there at first and is not given out that day.
AddsUp(M, given, lost, all) == \A d \in M : SumFunctionOnSet(lost, Until(M, d)) = all - given[d]

\* Each day takes in what the day before it gave out, the first one all there was.
HandedOn(M, given, taken, all) ==
    \A t \in M : taken[t] = IF Earlier(M, t) # {} THEN given[Report!Max(Earlier(M, t))] ELSE all

\* Where each takes in what the one before gave out, what each lost adds up to what is missing.
LEMMA LossesAddUp ==
    ASSUME NEW M, M \subseteq 1..LastDay, NEW given, NEW taken, NEW lost, NEW all \in Int,
           Weighed(M, given, taken, lost), HandedOn(M, given, taken, all)
    PROVE  AddsUp(M, given, lost, all)
<1>1. PICK Bad : Bad = {d \in M : SumFunctionOnSet(lost, Until(M, d)) # all - given[d]} OBVIOUS
<1> SUFFICES ASSUME Bad # {} PROVE FALSE BY <1>1 DEF AddsUp
<1>2. Bad \subseteq Nat /\ Bad \subseteq M /\ \A d \in M : d \in Nat BY <1>1, DaysFinite
<1>3. PICK d \in Bad : \A c \in Bad : d <= c BY <1>2, LeastNat
<1>4. d \in M /\ d \in Nat BY <1>1, <1>2
<1>5. IsFiniteSet(M) BY DaysFinite
<1>6. \A t \in M : lost[t] \in Int BY DEF Weighed
<1>7. lost[d] = taken[d] - given[d] /\ taken[d] \in Int /\ given[d] \in Int BY <1>4 DEF Weighed
<1>8. PICK before : before = Earlier(M, d) OBVIOUS
<1>9. before \in SUBSET M /\ d \in M \ before /\ Until(M, d) = before \cup {d}
  <2>1. \A s \in M : s \in Nat /\ (s <= d <=> s < d \/ s = d) BY <1>2, <1>4
  <2>2. ~ (d < d) BY <1>4
  <2> QED BY <1>4, <1>8, <2>1, <2>2 DEF Earlier, Until
<1>10. SumFunctionOnSet(lost, Until(M, d)) = lost[d] + SumFunctionOnSet(lost, before)
  <2>1. AddsOne(lost, before, d) BY <1>5, <1>6, <1>9, SumAddsOne
  <2> QED BY <1>9, <2>1 DEF AddsOne
<1>11. SumFunctionOnSet(lost, before) = all - taken[d]
  <2>1. CASE before = {}
    <3>1. taken[d] = all BY <1>4, <1>8, <2>1 DEF HandedOn
    <3>2. SumFunctionOnSet(lost, before) = 0 BY <2>1, SumOfNothing
    <3> QED BY <3>1, <3>2
  <2>2. CASE before # {}
    <3>1. PICK p : p = Report!Max(before) OBVIOUS
    <3>2. p \in before /\ \A c \in before : c <= p
      <4>1. before \subseteq 1..LastDay BY <1>9
      <4> QED BY <2>2, <3>1, <4>1, LastOfDays
    <3>3. p \in M /\ p \in Nat /\ p < d BY <1>2, <1>8, <1>9, <3>2 DEF Earlier
    <3>4. p \notin Bad BY <1>3, <1>4, <3>3
    <3>5. SumFunctionOnSet(lost, Until(M, p)) = all - given[p] BY <1>1, <3>3, <3>4
    <3>6. Until(M, p) = before
      <4>1. \A s \in M : s <= p => s < d BY <1>2, <1>4, <3>3
      <4> QED BY <1>8, <3>2, <4>1 DEF Earlier, Until
    <3>7. taken[d] = given[p] BY <1>4, <1>8, <2>2, <3>1 DEF HandedOn
    <3> QED BY <3>5, <3>6, <3>7
  <2> QED BY <2>1, <2>2
<1>12. SumFunctionOnSet(lost, Until(M, d)) = all - given[d] BY <1>7, <1>10, <1>11
<1> QED BY <1>1, <1>12

\* The batch was sealed over some rows, and has some now.
ProofsInv == sealed \in Report!Lists \ {<<>>} /\ rows \in Report!Lists

LEMMA ProofsInit == MCInit => ProofsInv
BY DEF MCInit, ProofsInv

LEMMA ProofsStep == ProofsInv /\ [MCNext]_MCvars => ProofsInv'
<1> SUFFICES ASSUME ProofsInv, [MCNext]_MCvars PROVE ProofsInv' OBVIOUS
<1>1. CASE UNCHANGED reported
  BY <1>1 DEF reported, ProofsInv, Report!Lists, Report!IsInjective, Report!Hashes, Report!Row
<1>2. CASE Report!Rewrite
  BY <1>2 DEF Report!Rewrite, ProofsInv, Report!Lists, Report!IsInjective, Report!Hashes, Report!Row
<1>3. CASE Report!Custody
  <2>1. sealed' = sealed /\ rows' = rows BY <1>3 DEF Report!Custody, Report!CreateTransfer
  <2> QED BY <2>1 DEF ProofsInv, Report!Lists, Report!IsInjective, Report!Hashes, Report!Row
<1> QED BY <1>1, <1>2, <1>3, OnePart

\* The invariant of the reports, in every reachable state.
THEOREM ProofsInvHolds == MCSpec => []ProofsInv
BY ProofsInit, ProofsStep, PTL DEF MCSpec, MCvars

\* What the rows weigh is a whole number.
LEMMA CollectedIsWhole == ASSUME ProofsInv PROVE Report!CollectedKg \in Int
<1>1. PICK n \in 0..MaxLeaves : rows \in [1..n -> Report!Row] BY DEF ProofsInv, Report!Lists
<1>2. PICK kg : kg = [i \in DOMAIN rows |-> rows[i].weightKg] OBVIOUS
<1>3. n \in Nat BY ReportConstants
<1>4. DOMAIN kg = 1..n /\ IsFiniteSet(1..n) BY <1>1, <1>2, <1>3, FS_Interval
<1>5. \A i \in 1..n : kg[i] \in Int
  <2>1. Weights \subseteq Nat BY ServicesAssumption DEF Report!AuditAssumption
  <2>2. \A w \in Report!Row : w.weightKg \in Weights BY DEF Report!Row
  <2>3. \A i \in 1..n : rows[i] \in Report!Row /\ kg[i] = rows[i].weightKg BY <1>1, <1>2
  <2>4. \A i \in 1..n : kg[i] \in Weights BY <2>2, <2>3
  <2>5. \A w \in Weights : w \in Int BY <2>1
  <2> QED BY <2>4, <2>5
<1>6. SumFunctionOnSet(kg, 1..n) \in Int
  <2>1. 1..n \in SUBSET (1..n) OBVIOUS
  <2> QED BY <1>4, <1>5, <2>1, SumOfSubsets
<1>7. Report!SumFunction(kg) = SumFunctionOnSet(kg, DOMAIN kg)
  BY DEF SumFunctionOnSet, FoldFunctionOnSet, MapThenFoldSet,
         Report!SumFunction, Report!SumFunctionOnSet, Report!FoldFunctionOnSet, Report!MapThenFoldSet
<1>8. Report!CollectedKg = Report!SumFunction(kg) BY <1>2 DEF Report!CollectedKg
<1> QED BY <1>4, <1>6, <1>7, <1>8

\* The invariant: what was weighed on every transfer made, and a reason wherever it differs.
ReportInv ==
    /\ transfers = [t \in 1..LastDay |-> transfers[t]]
    /\ \A t \in Report!Made :
          /\ transfers[t].in \in Int /\ transfers[t].out \in Int
          /\ transfers[t].in - transfers[t].out = 0 \/ transfers[t].reason

\* At the start there are no transfers.
LEMMA ReportInit == MCInit => ReportInv
<1> SUFFICES ASSUME MCInit PROVE ReportInv OBVIOUS
<1>1. transfers = [t \in 1..LastDay |-> None] BY DEF MCInit
<1>2. Report!Made = {} BY <1>1 DEF Report!Made
<1> QED BY <1>1, <1>2, ReportConstants DEF ReportInv

\* A transfer is checked as it is logged, and none is changed; rewriting the proofs touches none.
LEMMA ReportStep == ReportInv /\ [MCNext]_MCvars => ReportInv'
<1> SUFFICES ASSUME ReportInv, [MCNext]_MCvars PROVE ReportInv' OBVIOUS
<1>1. CASE UNCHANGED reported \/ Report!Rewrite
  <2>1. transfers' = transfers BY <1>1 DEF reported, Report!Rewrite
  <2> QED BY <2>1 DEF ReportInv, Report!Made
<1>2. ASSUME NEW d \in 1..LastDay, NEW in \in 0..MaxKg, NEW out \in 0..MaxKg, NEW reason \in BOOLEAN,
             Report!CreateTransfer(d, in, out, reason)
      PROVE  ReportInv'
  <2>1. PICK new : new = [in |-> in, out |-> out, reason |-> reason] OBVIOUS
  <2>2. transfers' = [transfers EXCEPT ![d] = new] /\ (in # out => reason)
    BY <1>2, <2>1 DEF Report!CreateTransfer, Report!Allowed
  <2>3. /\ transfers' = [t \in 1..LastDay |-> transfers'[t]]
        /\ transfers'[d] = new /\ \A t \in 1..LastDay \ {d} : transfers'[t] = transfers[t]
    BY <2>2 DEF ReportInv
  <2>4. /\ new.in \in Int /\ new.out \in Int
        /\ new.in - new.out = 0 \/ new.reason
    BY <2>1, <2>2, ReportConstants
  <2>5. ASSUME NEW t \in 1..LastDay, transfers'[t] # None
        PROVE  /\ transfers'[t].in \in Int /\ transfers'[t].out \in Int
               /\ transfers'[t].in - transfers'[t].out = 0 \/ transfers'[t].reason
    <3>1. CASE t = d BY <2>3, <2>4, <3>1
    <3>2. CASE t # d
      <4>1. transfers'[t] = transfers[t] /\ t \in Report!Made BY <2>3, <2>5, <3>2 DEF Report!Made
      <4> QED BY <4>1 DEF ReportInv
    <3> QED BY <3>1, <3>2
  <2> QED BY <2>2, <2>3, <2>5 DEF ReportInv, Report!Made
<1>3. CASE Report!Custody BY <1>2, <1>3 DEF Report!Custody
<1> QED BY <1>1, <1>3, OnePart

\* The invariant of the custody log, in every reachable state.
THEOREM ReportInvHolds == MCSpec => []ReportInv
BY ReportInit, ReportStep, PTL DEF MCSpec, MCvars

\* However many hands the material passes through: where each took in what the one before gave out,
\* what is missing in the end is what each declared missing, with a reason.
THEOREM GapsAreExplained == MCSpec => []JoinedGapIsExplained
<1>1. ReportInv /\ ProofsInv => JoinedGapIsExplained
  <2> SUFFICES ASSUME ReportInv, ProofsInv, Report!Made # {}, Report!LegsJoin
               PROVE  /\ Report!GapKg = Report!SumFunction([t \in Report!Made |-> Report!Variance(t)])
                      /\ Report!GapKg # 0 => Report!Explained /\ \E t \in Report!Made : transfers[t].reason
    BY DEF JoinedGapIsExplained, Report!JoinedGapIsExplained
  <2>1. PICK M : M = Report!Made OBVIOUS
  <2>2. PICK given : given = [t \in M |-> transfers[t].out] OBVIOUS
  <2>3. PICK taken : taken = [t \in M |-> transfers[t].in] OBVIOUS
  <2>4. PICK lost : lost = [t \in M |-> Report!Variance(t)] OBVIOUS
  <2>5. PICK all : all = Report!CollectedKg OBVIOUS
  <2>6. M \subseteq 1..LastDay /\ M # {} /\ all \in Int BY <2>1, <2>5, CollectedIsWhole DEF Report!Made
  <2>7. Weighed(M, given, taken, lost)
    BY <2>1, <2>2, <2>3, <2>4 DEF Weighed, ReportInv, Report!Variance
  <2>8. ASSUME NEW t \in M
        PROVE  taken[t] = IF Earlier(M, t) # {} THEN given[Report!Max(Earlier(M, t))] ELSE all
    <3>1. transfers[t].in = IF \E s \in M : s < t THEN transfers[Report!Max({s \in M : s < t})].out ELSE Report!CollectedKg
      BY <2>1 DEF Report!LegsJoin
    <3>2. taken[t] = transfers[t].in BY <2>3
    <3>3. CASE Earlier(M, t) # {}
      <4>1. \E s \in M : s < t BY <3>3 DEF Earlier
      <4>2. Earlier(M, t) \subseteq 1..LastDay BY <2>6 DEF Earlier
      <4>3. Report!Max(Earlier(M, t)) \in Earlier(M, t) BY <3>3, <4>2, LastOfDays
      <4>4. Report!Max(Earlier(M, t)) \in M BY <4>3 DEF Earlier
      <4>5. taken[t] = transfers[Report!Max(Earlier(M, t))].out BY <3>1, <3>2, <4>1 DEF Earlier
      <4> QED BY <2>2, <3>3, <4>4, <4>5
    <3>4. CASE Earlier(M, t) = {}
      <4>1. ~ \E s \in M : s < t BY <3>4 DEF Earlier
      <4> QED BY <2>5, <3>1, <3>2, <3>4, <4>1
    <3> QED BY <3>3, <3>4
  <2>9. AddsUp(M, given, lost, all) 
    <3>1. HandedOn(M, given, taken, all) BY <2>8 DEF HandedOn
    <3> QED BY <2>6, <2>7, <3>1, LossesAddUp
  <2>10. PICK d : d = Report!Max(M) OBVIOUS
  <2>11. d \in M /\ \A t \in M : t <= d BY <2>6, <2>10, LastOfDays
  <2>12. Until(M, d) = M BY <2>11 DEF Until
  <2>13. Report!GapKg = SumFunctionOnSet(lost, M)
    <3>1. Report!GapKg = Report!CollectedKg - transfers[d].out BY <2>1, <2>10 DEF Report!GapKg
    <3> QED BY <2>2, <2>5, <2>9, <2>11, <2>12, <3>1 DEF AddsUp
  <2>14. Report!GapKg = Report!SumFunction([t \in Report!Made |-> Report!Variance(t)])
    <3>1. DOMAIN lost = M BY <2>4
    <3>2. SumFunction(lost) = SumFunctionOnSet(lost, M) BY <3>1 DEF SumFunction
    <3>3. Report!SumFunction(lost) = SumFunction(lost)
      BY DEF SumFunction, SumFunctionOnSet, FoldFunctionOnSet, MapThenFoldSet,
             Report!SumFunction, Report!SumFunctionOnSet, Report!FoldFunctionOnSet, Report!MapThenFoldSet
    <3> QED BY <2>1, <2>4, <2>13, <3>2, <3>3
  <2>15. Report!Explained BY DEF Report!Explained, Report!Variance, ReportInv
  <2>16. ASSUME \A t \in Report!Made : ~ transfers[t].reason PROVE Report!GapKg = 0
    <3>1. \A t \in M : lost[t] = 0 BY <2>1, <2>4, <2>16 DEF ReportInv, Report!Variance
    <3>2. IsFiniteSet(M) BY <2>6, DaysFinite
    <3> QED BY <2>13, <3>1, <3>2, SumOfZeros
  <2> QED BY <2>14, <2>15, <2>16
<1> QED BY <1>1, ReportInvHolds, ProofsInvHolds, PTL

-----------------------------------------------------------------------------
(***************************************************************************)
(* The Merkle tree                                                          *)
(***************************************************************************)
(* The two folds of merkle.ts: over the rounds that build the tree, and    *)
(* over the steps of a proof                                                *)

\* The greatest of some numbers up to n is one of them.
LEMMA GreatestOf ==
    ASSUME NEW n \in Nat, NEW M, M \subseteq 1..n, M # {}
    PROVE  Report!Max(M) \in M /\ \A m \in M : m <= Report!Max(M)
<1>1. PICK T : T = {k \in Nat : \A m \in M : m <= k} OBVIOUS
<1>2. T \subseteq Nat /\ n \in T BY <1>1
<1>3. PICK k \in T : \A j \in T : k <= j BY <1>2, LeastNat
<1>4. k \in Nat /\ \A m \in M : m <= k BY <1>1
<1>5. k \in M
  <2> SUFFICES ASSUME k \notin M PROVE FALSE OBVIOUS
  <2>1. \A m \in M : m \in Nat /\ m >= 1 /\ m <= k /\ m # k BY <1>4
  <2>2. k - 1 \in Nat
    <3>1. PICK m : m \in M OBVIOUS
    <3> QED BY <1>4, <2>1, <3>1
  <2>3. \A m \in M : m <= k - 1 BY <1>4, <2>1
  <2>4. k <= k - 1 BY <1>1, <1>3, <2>2, <2>3
  <2> QED BY <1>4, <2>4
<1>6. \A m \in M : k >= m BY <1>4
<1>7. Report!Max(M) \in M /\ \A m \in M : Report!Max(M) >= m BY <1>5, <1>6 DEF Report!Max
<1>8. \A m \in M : m \in Nat OBVIOUS
<1> QED BY <1>7, <1>8

\* A step of either fold.
Turn(grows, sofar, item) == IF grows THEN Report!Grown(sofar, item) ELSE Report!Combine(sofar, item)

\* What a fold comes to over some of the positions.
Turned(g, grows, base, seq, s) ==
    g[s] = IF s = {} THEN base ELSE Turn(grows, g[s \ {Report!Max(s)}], seq[Report!Max(s)])

\* There is such a fold.
LEMMA TurnsExist ==
    ASSUME NEW grows, NEW base, NEW seq, NEW n \in Nat
    PROVE  \E g : g = [s \in SUBSET (1..n) |-> g[s]] /\ \A s \in SUBSET (1..n) : Turned(g, grows, base, seq, s)
<1> DEFINE UpTo(k) == \E g : /\ g = [s \in SUBSET (1..k) |-> g[s]]
                             /\ \A s \in SUBSET (1..k) : Turned(g, grows, base, seq, s)
<1>1. PICK N : N = {k \in Nat : UpTo(k)} OBVIOUS
<1>2. 0 \in N
  <2>1. PICK g : g = [s \in SUBSET (1..0) |-> base] OBVIOUS
  <2>2. \A s \in SUBSET (1..0) : s = {} OBVIOUS
  <2>3. \A s \in SUBSET (1..0) : g[s] = base BY <2>1
  <2>4. \A s \in SUBSET (1..0) : Turned(g, grows, base, seq, s) BY <2>2, <2>3 DEF Turned
  <2>5. g = [s \in SUBSET (1..0) |-> g[s]] BY <2>1, <2>3
  <2>6. UpTo(0) BY <2>4, <2>5
  <2> HIDE DEF UpTo
  <2> QED BY <1>1, <2>6
<1>3. ASSUME NEW k \in Nat, k \in N PROVE k + 1 \in N
  <2>1. UpTo(k)
    <3> HIDE DEF UpTo
    <3> QED BY <1>1, <1>3
  <2>2. PICK g : \A s \in SUBSET (1..k) : Turned(g, grows, base, seq, s) BY <2>1
  <2>3. PICK h : h = [s \in SUBSET (1..(k + 1)) |->
                        IF k + 1 \in s THEN Turn(grows, g[s \ {k + 1}], seq[k + 1]) ELSE g[s]] OBVIOUS
  <2>4. \A s \in SUBSET (1..(k + 1)) : k + 1 \notin s => s \in SUBSET (1..k) BY <1>3
  <2>5. \A s \in SUBSET (1..(k + 1)) : k + 1 \notin s => h[s] = g[s] BY <2>3
  <2>6. ASSUME NEW s \in SUBSET (1..(k + 1)) PROVE Turned(h, grows, base, seq, s)
    <3>1. CASE k + 1 \in s
      <4>1. Report!Max(s) \in s /\ \A m \in s : m <= Report!Max(s)
        <5>1. k + 1 \in Nat /\ s \subseteq 1..(k + 1) /\ s # {} BY <1>3, <3>1
        <5> QED BY <5>1, GreatestOf
      <4>2. Report!Max(s) = k + 1
        <5>1. \A m \in 1..(k + 1) : k + 1 <= m => m = k + 1 BY <1>3
        <5> QED BY <3>1, <4>1, <5>1
      <4>3. s \ {k + 1} \in SUBSET (1..(k + 1)) /\ k + 1 \notin s \ {k + 1} OBVIOUS
      <4>4. h[s \ {k + 1}] = g[s \ {k + 1}] BY <2>5, <4>3
      <4>5. h[s] = Turn(grows, g[s \ {k + 1}], seq[k + 1]) BY <2>3, <3>1
      <4> QED BY <3>1, <4>2, <4>4, <4>5 DEF Turned
    <3>2. CASE k + 1 \notin s
      <4>1. h[s] = g[s] /\ s \in SUBSET (1..k) BY <2>4, <2>5, <3>2
      <4>2. Turned(g, grows, base, seq, s) BY <2>2, <4>1
      <4>3. CASE s = {} BY <4>1, <4>2, <4>3 DEF Turned
      <4>4. CASE s # {}
        <5>1. PICK t : t = s \ {Report!Max(s)} OBVIOUS
        <5>2. t \in SUBSET (1..(k + 1)) /\ k + 1 \notin t BY <3>2, <5>1
        <5>3. h[t] = g[t] BY <2>5, <5>2
        <5> QED BY <4>1, <4>2, <4>4, <5>1, <5>3 DEF Turned
      <4> QED BY <4>3, <4>4
    <3> QED BY <3>1, <3>2
  <2>7. h = [s \in SUBSET (1..(k + 1)) |-> h[s]] BY <2>3
  <2>8. UpTo(k + 1)
    <3>1. \A s \in SUBSET (1..(k + 1)) : Turned(h, grows, base, seq, s) BY <2>6
    <3> QED BY <2>7, <3>1
  <2>9. k + 1 \in Nat BY <1>3
  <2> HIDE DEF UpTo
  <2> QED BY <1>1, <2>8, <2>9
<1>4. n \in N BY <1>2, <1>3, SetInduction
<1>5. UpTo(n)
  <2> HIDE DEF UpTo
  <2> QED BY <1>1, <1>4
<1> QED BY <1>5

\* A fold over the first positions, one after the other.
InTurn(h, grows, base, seq, n) ==
    h[0] = base /\ \A k \in 1..n : h[k] = Turn(grows, h[k - 1], seq[k])

LEMMA OneAfterTheOther ==
    ASSUME NEW grows, NEW base, NEW seq, NEW n \in Nat, NEW g,
           \A s \in SUBSET (1..n) : Turned(g, grows, base, seq, s)
    PROVE  InTurn([k \in 0..n |-> g[1..k]], grows, base, seq, n)
<1>1. PICK h : h = [k \in 0..n |-> g[1..k]] OBVIOUS
<1>2. h[0] = base
  <2>1. 1..0 = {} /\ 1..0 \in SUBSET (1..n) OBVIOUS
  <2>2. h[0] = g[1..0] BY <1>1
  <2>3. Turned(g, grows, base, seq, 1..0) BY <2>1
  <2> QED BY <2>1, <2>2, <2>3 DEF Turned
<1>3. ASSUME NEW k \in 1..n PROVE h[k] = Turn(grows, h[k - 1], seq[k])
  <2>1. 1..k \in SUBSET (1..n) /\ 1..k # {} /\ k \in 1..k /\ k \in Nat OBVIOUS
  <2>2. Report!Max(1..k) \in 1..k /\ \A m \in 1..k : m <= Report!Max(1..k) BY <2>1, GreatestOf
  <2>3. Report!Max(1..k) = k
    <3>1. \A m \in 1..k : k <= m => m = k OBVIOUS
    <3> QED BY <2>1, <2>2, <3>1
  <2>4. (1..k) \ {k} = 1..(k - 1) OBVIOUS
  <2>5. h[k] = g[1..k] /\ h[k - 1] = g[1..(k - 1)] BY <1>1
  <2>6. Turned(g, grows, base, seq, 1..k) BY <2>1
  <2> QED BY <2>1, <2>3, <2>4, <2>5, <2>6 DEF Turned
<1> QED BY <1>1, <1>2, <1>3 DEF InTurn

\* The rounds that build a tree.
LEMMA GrownInTurn ==
    ASSUME NEW n \in Nat, NEW seq, DOMAIN seq = 1..n, NEW base
    PROVE  \E h : InTurn(h, TRUE, base, seq, n) /\ Report!FoldLeft(Report!Grown, base, seq) = h[n]
<1> DEFINE IsFold(g) == g = [s \in SUBSET DOMAIN seq |->
                IF s = {} THEN base ELSE Report!Grown(g[s \ {Report!Max(s)}], seq[Report!Max(s)])]
<1>1. PICK g : g = [s \in SUBSET (1..n) |-> g[s]] /\ \A s \in SUBSET (1..n) : Turned(g, TRUE, base, seq, s)
  BY TurnsExist
<1>2. IsFold(g) BY <1>1 DEF Turned, Turn
<1>3. PICK c : c = CHOOSE f : IsFold(f) OBVIOUS
<1>4. IsFold(c) BY <1>2, <1>3
<1>5. \A s \in SUBSET (1..n) : Turned(c, TRUE, base, seq, s) BY <1>4 DEF Turned, Turn
<1>6. Report!FoldLeft(Report!Grown, base, seq) = c[1..n]
  <2>1. Report!FoldLeft(Report!Grown, base, seq) = (CHOOSE f : IsFold(f))[DOMAIN seq]
    BY DEF Report!FoldLeft, Report!MapThenFoldSet
  <2> QED BY <1>3, <2>1
<1>7. PICK h : h = [k \in 0..n |-> c[1..k]] OBVIOUS
<1>8. InTurn(h, TRUE, base, seq, n) BY <1>5, <1>7, OneAfterTheOther
<1>9. h[n] = c[1..n] BY <1>7
<1> QED BY <1>6, <1>8, <1>9

\* The steps of a proof.
LEMMA CombinedInTurn ==
    ASSUME NEW n \in Nat, NEW seq, DOMAIN seq = 1..n, NEW base
    PROVE  \E h : InTurn(h, FALSE, base, seq, n) /\ Report!FoldLeft(Report!Combine, base, seq) = h[n]
<1> DEFINE IsFold(g) == g = [s \in SUBSET DOMAIN seq |->
                IF s = {} THEN base ELSE Report!Combine(g[s \ {Report!Max(s)}], seq[Report!Max(s)])]
<1>1. PICK g : g = [s \in SUBSET (1..n) |-> g[s]] /\ \A s \in SUBSET (1..n) : Turned(g, FALSE, base, seq, s)
  BY TurnsExist
<1>2. IsFold(g) BY <1>1 DEF Turned, Turn
<1>3. PICK c : c = CHOOSE f : IsFold(f) OBVIOUS
<1>4. IsFold(c) BY <1>2, <1>3
<1>5. \A s \in SUBSET (1..n) : Turned(c, FALSE, base, seq, s) BY <1>4 DEF Turned, Turn
<1>6. Report!FoldLeft(Report!Combine, base, seq) = c[1..n]
  <2>1. Report!FoldLeft(Report!Combine, base, seq) = (CHOOSE f : IsFold(f))[DOMAIN seq]
    BY DEF Report!FoldLeft, Report!MapThenFoldSet
  <2> QED BY <1>3, <2>1
<1>7. PICK h : h = [k \in 0..n |-> c[1..k]] OBVIOUS
<1>8. InTurn(h, FALSE, base, seq, n) BY <1>5, <1>7, OneAfterTheOther
<1>9. h[n] = c[1..n] BY <1>7
<1> QED BY <1>6, <1>8, <1>9

-----------------------------------------------------------------------------
(* The levels                                                              *)

IsSeq(s) == s = [i \in 1..Len(s) |-> s[i]] /\ Len(s) \in Nat

\* A function on the first numbers is a sequence.
LEMMA FunctionIsSeq ==
    ASSUME NEW n \in Nat, NEW f, f = [i \in 1..n |-> f[i]]
    PROVE  IsSeq(f) /\ Len(f) = n /\ DOMAIN f = 1..n
<1>1. PICK S : S = {f[i] : i \in 1..n} OBVIOUS
<1>2. f \in [1..n -> S] BY <1>1
<1>3. f \in Seq(S) BY <1>2, SeqDef
<1>4. Len(f) \in Nat /\ DOMAIN f = 1..Len(f) BY <1>3, LenProperties
<1>5. DOMAIN f = 1..n BY <1>2
<1>6. Len(f) = n
  <2>1. \A a, b \in Nat : 1..a = 1..b => a = b
    <3> SUFFICES ASSUME NEW a \in Nat, NEW b \in Nat, 1..a = 1..b, a < b PROVE FALSE OBVIOUS
    <3>1. b \in 1..b /\ b \notin 1..a OBVIOUS
    <3> QED BY <3>1
  <2> QED BY <1>4, <1>5, <2>1
<1> QED BY <1>5, <1>6 DEF IsSeq

LEMMA SeqIsSeq == ASSUME NEW S, NEW s \in Seq(S) PROVE IsSeq(s)
<1>1. Len(s) \in Nat /\ s \in [1..Len(s) -> S] BY LenProperties
<1> QED BY <1>1 DEF IsSeq

\* Its items, and another.
Items(s, x) == {s[i] : i \in 1..Len(s)} \cup {x}

LEMMA SeqOfItems == ASSUME NEW s, IsSeq(s), NEW x PROVE s \in Seq(Items(s, x)) /\ x \in Items(s, x)
<1>1. PICK n \in Nat : n = Len(s) /\ s = [i \in 1..n |-> s[i]] BY DEF IsSeq
<1>2. s \in [1..n -> Items(s, x)] BY <1>1 DEF Items
<1>3. s \in Seq(Items(s, x)) BY <1>2, SeqDef
<1> QED BY <1>3 DEF Items

\* One item more.
LEMMA ItemMore ==
    ASSUME NEW s, IsSeq(s), NEW x
    PROVE  /\ IsSeq(Append(s, x)) /\ Len(Append(s, x)) = Len(s) + 1
           /\ \A i \in 1..Len(s) : Append(s, x)[i] = s[i]
           /\ Append(s, x)[Len(s) + 1] = x
<1>1. PICK S : S = Items(s, x) OBVIOUS
<1>4. s \in Seq(S) /\ x \in S BY <1>1, SeqOfItems
<1>2. Append(s, x) \in Seq(S) BY <1>4, AppendProperties
<1>3. IsSeq(Append(s, x)) BY <1>2, SeqIsSeq
<1> QED BY <1>3, <1>4, AppendProperties

LEMMA Singleton == ASSUME NEW x PROVE IsSeq(<<x>>) /\ Len(<<x>>) = 1 /\ <<x>>[1] = x
<1>1. <<x>> \in Seq({x}) OBVIOUS
<1> QED BY <1>1, SeqIsSeq

LEMMA LastIsAtItsEnd == \A s : Report!Last(s) = s[Len(s)]
BY DEF Report!Last

\* The level above one: as many nodes as it takes to hold two below each.
LEMMA ParentsOf ==
    ASSUME NEW s, IsSeq(s), Len(s) >= 1
    PROVE  /\ IsSeq(Report!Parents(s)) /\ Len(Report!Parents(s)) = (Len(s) + 1) \div 2
           /\ \A i \in 1..((Len(s) + 1) \div 2) :
                 Report!Parents(s)[i] = IF 2 * i > Len(s) THEN s[2 * i - 1]
                                        ELSE Report!HashInternal(s[2 * i - 1], s[2 * i])
<1>1. PICK n \in Nat : n = Len(s) BY DEF IsSeq
<1>2. PICK m : m = (n + 1) \div 2 OBVIOUS
<1>3. m \in Nat BY <1>2
<1>4. PICK f : f = Report!Parents(s) OBVIOUS
<1>5. f = [i \in 1..m |-> IF 2 * i > n THEN s[2 * i - 1] ELSE Report!HashInternal(s[2 * i - 1], s[2 * i])]
  BY <1>1, <1>2, <1>4 DEF Report!Parents
<1>6. f = [i \in 1..m |-> f[i]] BY <1>5
<1>7. IsSeq(f) /\ Len(f) = m BY <1>3, <1>6, FunctionIsSeq
<1>8. \A i \in 1..m : f[i] = IF 2 * i > n THEN s[2 * i - 1] ELSE Report!HashInternal(s[2 * i - 1], s[2 * i])
  BY <1>5
<1> QED BY <1>1, <1>2, <1>4, <1>7, <1>8

\* The levels of a tree, from its leaves upwards.
Rises(levels, leaves) ==
    /\ IsSeq(levels) /\ Len(levels) >= 1
    /\ levels[1] = leaves
    /\ \A l \in 1..Len(levels) : IsSeq(levels[l]) /\ Len(levels[l]) >= 1
    /\ \A l \in 1..Len(levels) : l < Len(levels) =>
          Len(levels[l]) > 1 /\ levels[l + 1] = Report!Parents(levels[l])

\* As many rounds as it takes.
Shrinks(levels, k, leaves) ==
    Len(levels[Len(levels)]) = 1 \/ Len(levels[Len(levels)]) + k <= Len(leaves)

LEMMA RoundKeeps ==
    ASSUME NEW T, NEW leaves, IsSeq(leaves), Rises(T, leaves), NEW k \in Nat, Shrinks(T, k, leaves), NEW leaf
    PROVE  Rises(Report!Grown(T, leaf), leaves) /\ Shrinks(Report!Grown(T, leaf), k + 1, leaves)
<1>1. PICK n \in Nat : n = Len(T) /\ n >= 1 BY DEF Rises, IsSeq
<1>2. PICK top : top = T[n] OBVIOUS
<1>3. IsSeq(top) /\ Len(top) >= 1 /\ Len(top) \in Nat BY <1>1, <1>2 DEF Rises, IsSeq
<1>4. PICK more : more = Report!Grown(T, leaf) OBVIOUS
<1>5. CASE Len(top) = 1
  <2>1. more = T BY <1>1, <1>2, <1>4, <1>5, LastIsAtItsEnd DEF Report!Grown
  <2> QED BY <1>1, <1>2, <1>4, <1>5, <2>1 DEF Shrinks
<1>6. CASE Len(top) # 1
  <2>1. more = Append(T, Report!Parents(top)) BY <1>1, <1>2, <1>4, <1>6, LastIsAtItsEnd DEF Report!Grown
  <2>2. PICK up : up = Report!Parents(top) OBVIOUS
  <2>3. IsSeq(up) /\ Len(up) = (Len(top) + 1) \div 2 BY <1>3, <2>2, ParentsOf
  <2>4. Len(up) \in Nat /\ Len(up) >= 1 /\ Len(up) + 1 <= Len(top)
    <3>1. \A a \in Nat : a >= 1 /\ a # 1 => (a + 1) \div 2 \in Nat /\ (a + 1) \div 2 >= 1 /\ (a + 1) \div 2 + 1 <= a
      OBVIOUS
    <3> QED BY <1>3, <1>6, <2>3, <3>1
  <2>5. IsSeq(T) BY DEF Rises
  <2>6. IsSeq(more) /\ Len(more) = n + 1 /\ (\A l \in 1..n : more[l] = T[l]) /\ more[n + 1] = up
    BY <1>1, <2>1, <2>2, <2>5, ItemMore
  <2>7. more[1] = leaves BY <1>1, <2>6 DEF Rises
  <2>8. \A l \in 1..(n + 1) : IsSeq(more[l]) /\ Len(more[l]) >= 1
    <3>1. \A l \in 1..n : IsSeq(more[l]) /\ Len(more[l]) >= 1 BY <1>1, <2>6 DEF Rises
    <3>2. \A l \in 1..(n + 1) : l = n + 1 \/ l \in 1..n BY <1>1
    <3> QED BY <2>3, <2>4, <2>6, <3>1, <3>2
  <2>9. \A l \in 1..(n + 1) : l < n + 1 => Len(more[l]) > 1 /\ more[l + 1] = Report!Parents(more[l])
    <3>1. \A l \in 1..n : l < n => Len(T[l]) > 1 /\ T[l + 1] = Report!Parents(T[l]) BY <1>1 DEF Rises
    <3>2. \A l \in 1..n : l < n => Len(more[l]) > 1 /\ more[l + 1] = Report!Parents(more[l])
      <4>1. \A l \in 1..n : l < n => l + 1 \in 1..n BY <1>1
      <4> QED BY <2>6, <3>1, <4>1
    <3>3. Len(more[n]) > 1 /\ more[n + 1] = Report!Parents(more[n])
      <4>1. more[n] = top BY <1>1, <1>2, <2>6
      <4>2. Len(top) > 1
        <5>1. \A a \in Nat : a >= 1 /\ a # 1 => a > 1 OBVIOUS
        <5> QED BY <1>3, <1>6, <5>1
      <4> QED BY <2>2, <2>6, <4>1, <4>2
    <3>4. \A l \in 1..(n + 1) : l < n + 1 => l = n \/ (l \in 1..n /\ l < n) BY <1>1
    <3> QED BY <3>2, <3>3, <3>4
  <2>10. Rises(more, leaves)
    <3>1. n + 1 >= 1 BY <1>1
    <3> QED BY <2>6, <2>7, <2>8, <2>9, <3>1 DEF Rises
  <2>11. Shrinks(more, k + 1, leaves)
    <3>1. Len(leaves) \in Nat BY DEF IsSeq
    <3>2. Len(top) + k <= Len(leaves) BY <1>1, <1>2, <1>6 DEF Shrinks
    <3>3. Len(up) + (k + 1) <= Len(leaves) BY <1>3, <2>4, <3>1, <3>2
    <3> QED BY <2>6, <3>3 DEF Shrinks
  <2> QED BY <1>4, <2>10, <2>11
<1> QED BY <1>5, <1>6

\* A tree rises from its leaves to a single root.
IsTree(T, leaves) == Rises(T, leaves) /\ Len(T[Len(T)]) = 1

LEMMA BuildsATree ==
    ASSUME NEW leaves, IsSeq(leaves), Len(leaves) >= 1
    PROVE  IsTree(Report!BuildMerkleTree(leaves), leaves)
<1>1. PICK n \in Nat : n = Len(leaves) /\ n >= 1 BY DEF IsSeq
<1>2. DOMAIN leaves = 1..n BY <1>1 DEF IsSeq
<1>3. PICK h : /\ InTurn(h, TRUE, <<leaves>>, leaves, n)
               /\ Report!FoldLeft(Report!Grown, <<leaves>>, leaves) = h[n]
  BY <1>2, GrownInTurn
<1>4. PICK N : N = {k \in Nat : k <= n => Rises(h[k], leaves) /\ Shrinks(h[k], k, leaves)} OBVIOUS
<1>5. 0 \in N
  <2>1. PICK T : T = <<leaves>> OBVIOUS
  <2>2. IsSeq(T) /\ Len(T) = 1 /\ T[1] = leaves BY <2>1, Singleton
  <2>3. \A l \in 1..1 : l = 1 OBVIOUS
  <2>4. Rises(T, leaves) BY <2>2, <2>3 DEF Rises
  <2>5. Shrinks(T, 0, leaves) BY <1>1, <2>2 DEF Shrinks
  <2>6. h[0] = T BY <1>3, <2>1 DEF InTurn
  <2> QED BY <1>4, <2>4, <2>5, <2>6
<1>6. ASSUME NEW k \in Nat, k \in N PROVE k + 1 \in N
  <2> SUFFICES ASSUME k + 1 <= n PROVE Rises(h[k + 1], leaves) /\ Shrinks(h[k + 1], k + 1, leaves) BY <1>4
  <2>1. Rises(h[k], leaves) /\ Shrinks(h[k], k, leaves) BY <1>1, <1>4, <1>6
  <2>2. k + 1 \in 1..n /\ (k + 1) - 1 = k BY <1>1
  <2>3. h[k + 1] = Report!Grown(h[k], leaves[k + 1]) BY <1>3, <2>2 DEF InTurn, Turn
  <2> QED BY <2>1, <2>3, RoundKeeps
<1>7. n \in N BY <1>5, <1>6, SetInduction
<1>8. PICK T : T = Report!BuildMerkleTree(leaves) OBVIOUS
<1>9. Rises(T, leaves) /\ Shrinks(T, n, leaves)
  <2>1. T = h[n] BY <1>3, <1>8 DEF Report!BuildMerkleTree
  <2> QED BY <1>1, <1>4, <1>7, <2>1
<1>10. Len(T[Len(T)]) = 1
  <2>1. Len(T) \in Nat /\ Len(T) >= 1 BY <1>9 DEF Rises, IsSeq
  <2>2. Len(T[Len(T)]) \in Nat /\ Len(T[Len(T)]) >= 1 BY <1>9, <2>1 DEF Rises, IsSeq
  <2> QED BY <1>1, <1>9, <2>2 DEF Shrinks
<1> QED BY <1>8, <1>9, <1>10 DEF IsTree

-----------------------------------------------------------------------------
(* What a node stands for                                                  *)

\* "Domain separation" and "positional pairing".
LEMMA LeavesTell == ASSUME NEW p, NEW q, Report!HashLeaf(p) = Report!HashLeaf(q) PROVE p = q
BY DEF Report!HashLeaf

LEMMA LeafIsNoPair == ASSUME NEW p, NEW x, NEW y PROVE Report!HashLeaf(p) # Report!HashInternal(x, y)
BY DEF Report!HashLeaf, Report!HashInternal

LEMMA PairsTell ==
    ASSUME NEW x, NEW y, NEW u, NEW v, Report!HashInternal(x, y) = Report!HashInternal(u, v)
    PROVE  x = u /\ y = v
BY DEF Report!HashInternal

\* Two nodes side by side, and the payloads below them.
Paired(q, r) == <<Report!HashInternal(q[1], r[1]), q[2] \o r[2]>>

LEMMA PairHas == \A q, r : Paired(q, r)[1] = Report!HashInternal(q[1], r[1]) /\ Paired(q, r)[2] = q[2] \o r[2]
BY DEF Paired

\* Nodes, each with the payloads below it: a leaf has one, another those of the two below it.
Covers(P, D) ==
    /\ \A x \in P : x[2] \in Seq(D) /\ Len(x[2]) >= 1
    /\ \A x \in P : (\E p \in D : x = <<Report!HashLeaf(p), <<p>>>>) \/ (\E q, r \in P : x = Paired(q, r))

\* A node has one cover, whatever tree it is in.
LEMMA OneCover ==
    ASSUME NEW D, NEW P, NEW Q, Covers(P, D), Covers(Q, D), NEW x \in P, NEW y \in Q, x[1] = y[1]
    PROVE  x[2] = y[2]
<1> DEFINE Same(n) == \A u \in P, v \in Q : Len(u[2]) <= n /\ u[1] = v[1] => u[2] = v[2]
<1>1. PICK N : N = {n \in Nat : Same(n)} OBVIOUS
<1>2. \A u \in P : Len(u[2]) \in Nat /\ Len(u[2]) >= 1 BY LenProperties DEF Covers
<1>3. 0 \in N
  <2>1. Same(0) BY <1>2
  <2> HIDE DEF Same
  <2> QED BY <1>1, <2>1
<1>4. ASSUME NEW n \in Nat, n \in N PROVE n + 1 \in N
  <2>1. Same(n)
    <3> HIDE DEF Same
    <3> QED BY <1>1, <1>4
  <2>2. ASSUME NEW u \in P, NEW v \in Q, Len(u[2]) <= n + 1, u[1] = v[1] PROVE u[2] = v[2]
    <3>1. CASE \E p \in D : u = <<Report!HashLeaf(p), <<p>>>>
      <4>1. PICK p \in D : u[1] = Report!HashLeaf(p) /\ u[2] = <<p>> BY <3>1
      <4>2. CASE \E q \in D : v = <<Report!HashLeaf(q), <<q>>>>
        <5>1. PICK q \in D : v[1] = Report!HashLeaf(q) /\ v[2] = <<q>> BY <4>2
        <5>2. p = q BY <2>2, <4>1, <5>1, LeavesTell
        <5> QED BY <4>1, <5>1, <5>2
      <4>3. CASE \E q, r \in Q : v = Paired(q, r)
        <5>1. PICK q \in Q, r \in Q : v[1] = Report!HashInternal(q[1], r[1]) BY <4>3, PairHas
        <5>2. Report!HashLeaf(p) = Report!HashInternal(q[1], r[1]) BY <2>2, <4>1, <5>1
        <5> QED BY <5>2, LeafIsNoPair
      <4> QED BY <4>2, <4>3 DEF Covers
    <3>2. CASE \E q, r \in P : u = Paired(q, r)
      <4>0. PICK q \in P, r \in P : u = Paired(q, r) BY <3>2
      <4>1. u[1] = Report!HashInternal(q[1], r[1]) /\ u[2] = q[2] \o r[2] BY <4>0, PairHas
      <4>2. CASE \E p \in D : v = <<Report!HashLeaf(p), <<p>>>>
        <5>1. PICK p \in D : v[1] = Report!HashLeaf(p) BY <4>2
        <5>2. Report!HashLeaf(p) = Report!HashInternal(q[1], r[1]) BY <2>2, <4>1, <5>1
        <5> QED BY <5>2, LeafIsNoPair
      <4>3. CASE \E s, t \in Q : v = Paired(s, t)
        <5>0. PICK s \in Q, t \in Q : v = Paired(s, t) BY <4>3
        <5>1. v[1] = Report!HashInternal(s[1], t[1]) /\ v[2] = s[2] \o t[2] BY <5>0, PairHas
        <5>9. Report!HashInternal(q[1], r[1]) = Report!HashInternal(s[1], t[1]) BY <2>2, <4>1, <5>1
        <5>2. q[1] = s[1] /\ r[1] = t[1] BY <5>9, PairsTell
        <5>3. q[2] \in Seq(D) /\ r[2] \in Seq(D) BY DEF Covers
        <5>4. Len(u[2]) = Len(q[2]) + Len(r[2]) BY <4>1, <5>3, ConcatProperties
        <5>5. Len(q[2]) <= n /\ Len(r[2]) <= n
          <6>1. Len(q[2]) \in Nat /\ Len(r[2]) \in Nat /\ Len(q[2]) >= 1 /\ Len(r[2]) >= 1 BY <1>2
          <6>2. \A a, b \in Nat : a >= 1 /\ b >= 1 /\ a + b <= n + 1 => a <= n /\ b <= n OBVIOUS
          <6>3. Len(q[2]) + Len(r[2]) <= n + 1 BY <2>2, <5>4
          <6> QED BY <6>1, <6>2, <6>3
        <5>6. q[2] = s[2] /\ r[2] = t[2] BY <2>1, <5>2, <5>5
        <5> QED BY <4>1, <5>1, <5>6
      <4> QED BY <4>2, <4>3 DEF Covers
    <3> QED BY <3>1, <3>2 DEF Covers
  <2>3. Same(n + 1) BY <2>2
  <2>4. n + 1 \in Nat OBVIOUS
  <2> HIDE DEF Same
  <2> QED BY <1>1, <2>3, <2>4
<1>5. Len(x[2]) \in Nat BY <1>2
<1>6. Len(x[2]) \in N BY <1>3, <1>4, <1>5, SetInduction
<1>7. Same(Len(x[2]))
  <2> HIDE DEF Same
  <2> QED BY <1>1, <1>6
<1> QED BY <1>5, <1>7

-----------------------------------------------------------------------------
(* The levels of a tree over some payloads                                 *)

\* The payloads between two of the bounds of a level.
Under(b, pl, j) == SubSeq(pl, b[j - 1] + 1, b[j])

\* The nodes of a level stand for all the payloads, each for its stretch.
Stretches(b, n, m) ==
    /\ b[0] = 0 /\ b[n] = m
    /\ \A j \in 0..n : b[j] \in 0..m
    /\ \A j \in 1..n : b[j - 1] < b[j]

OverAll(level, b, P, pl) ==
    /\ Stretches(b, Len(level), Len(pl))
    /\ \A j \in 1..Len(level) : <<level[j], Under(b, pl, j)>> \in P

LEMMA LeavesStand ==
    ASSUME NEW D, NEW pl \in Seq(D), Len(pl) >= 1
    PROVE  /\ IsSeq(Report!LeavesOf(pl)) /\ Len(Report!LeavesOf(pl)) = Len(pl)
           /\ \A j \in 1..Len(pl) : Report!LeavesOf(pl)[j] = Report!HashLeaf(pl[j])
           /\ \E P, b : Covers(P, D) /\ OverAll(Report!LeavesOf(pl), b, P, pl)
<1>1. PICK n \in Nat : n = Len(pl) /\ n >= 1 BY LenProperties
<1>2. DOMAIN pl = 1..n /\ \A j \in 1..n : pl[j] \in D BY <1>1, LenProperties
<1>3. PICK f : f = Report!LeavesOf(pl) OBVIOUS
<1>4. f = [j \in 1..n |-> Report!HashLeaf(pl[j])] BY <1>2, <1>3 DEF Report!LeavesOf
<1>5. f = [j \in 1..n |-> f[j]] BY <1>4
<1>6. IsSeq(f) /\ Len(f) = n BY <1>5, FunctionIsSeq
<1>7. \A j \in 1..n : f[j] = Report!HashLeaf(pl[j]) BY <1>4
<1>8. PICK P : P = {<<Report!HashLeaf(p), <<p>>>> : p \in D} OBVIOUS
<1>9. Covers(P, D)
  <2>1. \A p \in D : <<p>> \in Seq(D) /\ Len(<<p>>) >= 1 OBVIOUS
  <2> QED BY <1>8, <2>1 DEF Covers
<1>10. PICK b : b = [j \in 0..n |-> j] OBVIOUS
<1>11. Stretches(b, n, n) BY <1>10 DEF Stretches
<1>12. \A j \in 1..n : <<f[j], Under(b, pl, j)>> \in P
  <2> SUFFICES ASSUME NEW j \in 1..n PROVE <<f[j], Under(b, pl, j)>> \in P OBVIOUS
  <2>1. b[j - 1] = j - 1 /\ b[j] = j BY <1>10
  <2>2. Under(b, pl, j) = SubSeq(pl, j, j) BY <2>1 DEF Under
  <2>3. SubSeq(pl, j, j) = SubSeq(pl, j, j - 1) \o <<pl[j]>> BY <1>1, SubSeqRecursiveSecond
  <2>4. SubSeq(pl, j, j - 1) = <<>> BY SubSeqEmpty
  <2>5. <<pl[j]>> \in Seq(D) BY <1>2
  <2>6. Under(b, pl, j) = <<pl[j]>> BY <2>2, <2>3, <2>4, <2>5, ConcatEmptySeq
  <2> QED BY <1>2, <1>7, <1>8, <2>6
<1>13. OverAll(f, b, P, pl) BY <1>1, <1>6, <1>11, <1>12 DEF OverAll
<1> QED BY <1>1, <1>3, <1>6, <1>7, <1>9, <1>13

\* The bound above a pair is the one at its end.
Halved(b, n) == [j \in 0..((n + 1) \div 2) |-> IF 2 * j > n THEN b[n] ELSE b[2 * j]]

LEMMA HalvedStretches ==
    ASSUME NEW n \in Nat, n >= 1, NEW m \in Nat, NEW b, Stretches(b, n, m)
    PROVE  Stretches(Halved(b, n), (n + 1) \div 2, m)
<1>1. PICK k : k = (n + 1) \div 2 OBVIOUS
<1>2. k \in Nat /\ k >= 1 /\ (2 * k = n \/ 2 * k = n + 1) BY <1>1
<1>3. PICK c : c = Halved(b, n) OBVIOUS
<1>4. \A j \in 0..k : c[j] = IF 2 * j > n THEN b[n] ELSE b[2 * j] BY <1>1, <1>3 DEF Halved
<1>5. c[0] = 0 BY <1>2, <1>4 DEF Stretches
<1>6. c[k] = m
  <2>1. c[k] = IF 2 * k > n THEN b[n] ELSE b[2 * k] BY <1>2, <1>4
  <2> QED BY <1>2, <2>1 DEF Stretches
<1>7. \A j \in 0..k : c[j] \in 0..m
  <2>1. \A j \in 0..k : 2 * j <= n => 2 * j \in 0..n BY <1>2
  <2>2. n \in 0..n OBVIOUS
  <2> QED BY <1>2, <1>4, <2>1, <2>2 DEF Stretches
<1>8. ASSUME NEW j \in 1..k PROVE c[j - 1] < c[j]
  <2>1. j \in 0..k /\ j - 1 \in 0..k BY <1>2
  <2>2. 2 * (j - 1) <= n /\ 2 * (j - 1) = 2 * j - 2 /\ 2 * j - 1 \in 1..n /\ 2 * j - 2 \in 0..n BY <1>2
  <2>3. c[j - 1] = b[2 * j - 2] BY <1>4, <2>1, <2>2
  <2>4. b[2 * j - 2] < b[2 * j - 1]
    <3>1. (2 * j - 1) - 1 = 2 * j - 2 BY <1>2
    <3> QED BY <2>2, <3>1 DEF Stretches
  <2>5. CASE 2 * j > n
    <3>1. c[j] = b[n] /\ 2 * j - 1 = n BY <1>2, <1>4, <2>1, <2>5
    <3> QED BY <2>3, <2>4, <3>1
  <2>6. CASE 2 * j <= n
    <3>1. c[j] = b[2 * j] BY <1>2, <1>4, <2>1, <2>6
    <3>2. 2 * j \in 1..n /\ 2 * j \in 0..n BY <1>2, <2>6
    <3>3. b[2 * j - 1] < b[2 * j] BY <3>2 DEF Stretches
    <3>4. b[2 * j - 2] \in Nat /\ b[2 * j - 1] \in Nat /\ b[2 * j] \in Nat
      <4>1. 2 * j - 1 \in 0..n BY <2>2
      <4> QED BY <2>2, <3>2, <4>1 DEF Stretches
    <3> QED BY <2>3, <2>4, <3>1, <3>3, <3>4
  <2> QED BY <1>2, <2>5, <2>6
<1> QED BY <1>1, <1>3, <1>5, <1>6, <1>7, <1>8 DEF Stretches

\* One level up, the nodes still stand for all the payloads.
LEMMA ParentsStand ==
    ASSUME NEW D, NEW pl \in Seq(D), NEW level, IsSeq(level), Len(level) >= 1,
           NEW P, Covers(P, D), NEW b, OverAll(level, b, P, pl)
    PROVE  \E Q, c : Covers(Q, D) /\ OverAll(Report!Parents(level), c, Q, pl)
<1>1. PICK n \in Nat : n = Len(level) /\ n >= 1 BY DEF IsSeq
<1>2. PICK k : k = (n + 1) \div 2 OBVIOUS
<1>3. k \in Nat /\ k >= 1 /\ (2 * k = n \/ 2 * k = n + 1) BY <1>1, <1>2
<1>4. PICK up : up = Report!Parents(level) OBVIOUS
<1>5. /\ Len(up) = k
      /\ \A j \in 1..k : up[j] = IF 2 * j > n THEN level[2 * j - 1]
                                 ELSE Report!HashInternal(level[2 * j - 1], level[2 * j])
  BY <1>1, <1>2, <1>4, ParentsOf
<1>6. PICK m \in Nat : m = Len(pl) BY LenProperties
<1>7. PICK c : c = Halved(b, n) OBVIOUS
<1>8. Stretches(b, n, m) BY <1>1, <1>6 DEF OverAll
<1>9. Stretches(c, k, m) BY <1>1, <1>2, <1>7, <1>8, HalvedStretches
<1>10. \A j \in 0..k : c[j] = IF 2 * j > n THEN b[n] ELSE b[2 * j] BY <1>2, <1>7 DEF Halved
<1>11. \A j \in 1..n : <<level[j], Under(b, pl, j)>> \in P BY <1>1 DEF OverAll
<1>12. PICK Q : Q = P \cup {<<up[j], Under(c, pl, j)>> : j \in 1..k} OBVIOUS
<1>13. ASSUME NEW j \in 1..k
       PROVE  \/ <<up[j], Under(c, pl, j)>> \in P
              \/ \E q, r \in P : <<up[j], Under(c, pl, j)>> = Paired(q, r)
  <2>1. 2 * (j - 1) <= n /\ 2 * (j - 1) = 2 * j - 2 /\ 2 * j - 1 \in 1..n /\ 2 * j - 2 \in 0..n /\ 2 * j - 1 \in 0..n
    BY <1>3
  <2>2. j \in 0..k /\ j - 1 \in 0..k BY <1>3
  <2>3. c[j - 1] = b[2 * j - 2] BY <1>10, <2>1, <2>2
  <2>4. (2 * j - 1) - 1 = 2 * j - 2 /\ 2 * j - 1 + 1 = 2 * j BY <2>2
  <2>5. PICK q : q = <<level[2 * j - 1], Under(b, pl, 2 * j - 1)>> OBVIOUS
  <2>6. q \in P BY <1>11, <2>1, <2>5
  <2>7. CASE 2 * j > n
    <3>1. 2 * j - 1 = n BY <1>1, <2>1, <2>7
    <3>2. c[j] = b[2 * j - 1] BY <1>10, <2>2, <2>7, <3>1
    <3>3. Under(c, pl, j) = Under(b, pl, 2 * j - 1) BY <2>3, <2>4, <3>2 DEF Under
    <3>4. up[j] = level[2 * j - 1] BY <1>5, <2>7
    <3> QED BY <2>5, <2>6, <3>3, <3>4
  <2>8. CASE 2 * j <= n
    <3>1. c[j] = b[2 * j] BY <1>10, <2>2, <2>8
    <3>2. 2 * j \in 1..n /\ 2 * j \in 0..n BY <1>1, <2>2, <2>8
    <3>3. PICK r : r = <<level[2 * j], Under(b, pl, 2 * j)>> OBVIOUS
    <3>4. r \in P BY <1>11, <3>2, <3>3
    <3>5. PICK x, y, z : x = b[2 * j - 2] /\ y = b[2 * j - 1] /\ z = b[2 * j] OBVIOUS
    <3>6. x \in 0..m /\ y \in 0..m /\ z \in 0..m BY <1>8, <2>1, <3>2, <3>5 DEF Stretches
    <3>7. x < y /\ y < z BY <1>8, <2>1, <2>4, <3>2, <3>5 DEF Stretches
    <3>8. x + 1 \in 1..(m + 1) /\ y \in (x + 1 - 1)..m /\ z \in y..m BY <1>6, <3>6, <3>7
    <3>9. SubSeq(pl, x + 1, y) \o SubSeq(pl, y + 1, z) = SubSeq(pl, x + 1, z)
      <4>1. PICK w : w = x + 1 OBVIOUS
      <4>2. w \in 1..(Len(pl) + 1) /\ y \in (w - 1)..Len(pl) /\ z \in y..Len(pl)
        <5>1. w \in 1..(m + 1) /\ y \in (w - 1)..m /\ z \in y..m BY <3>6, <3>7, <4>1
        <5> QED BY <1>6, <5>1
      <4>3. SubSeq(pl, w, y) \o SubSeq(pl, y + 1, z) = SubSeq(pl, w, z) BY <4>2, ConcatAdjacentSubSeq
      <4> QED BY <4>1, <4>3
    <3>10. /\ Under(c, pl, j) = SubSeq(pl, x + 1, z)
           /\ Under(b, pl, 2 * j - 1) = SubSeq(pl, x + 1, y)
           /\ Under(b, pl, 2 * j) = SubSeq(pl, y + 1, z)
      BY <2>3, <2>4, <3>1, <3>5 DEF Under
    <3>11. up[j] = Report!HashInternal(level[2 * j - 1], level[2 * j]) BY <1>1, <1>5, <2>8, <3>2
    <3>12. <<up[j], Under(c, pl, j)>> = Paired(q, r) BY <2>5, <3>3, <3>9, <3>10, <3>11 DEF Paired
    <3> QED BY <2>6, <3>4, <3>12
  <2> QED BY <1>1, <2>2, <2>7, <2>8
<1>14. Covers(Q, D)
  <2>1. \A x \in P : x[2] \in Seq(D) /\ Len(x[2]) >= 1 BY DEF Covers
  <2>2. ASSUME NEW q \in P, NEW r \in P PROVE Paired(q, r)[2] \in Seq(D) /\ Len(Paired(q, r)[2]) >= 1
    <3>1. q[2] \in Seq(D) /\ r[2] \in Seq(D) /\ Len(q[2]) >= 1 BY <2>1
    <3>2. q[2] \o r[2] \in Seq(D) /\ Len(q[2] \o r[2]) = Len(q[2]) + Len(r[2]) BY <3>1, ConcatProperties
    <3>3. Len(q[2]) \in Nat /\ Len(r[2]) \in Nat BY <3>1, LenProperties
    <3>4. Len(q[2]) + Len(r[2]) >= 1
      <4>1. \A u, v \in Nat : u >= 1 => u + v >= 1 OBVIOUS
      <4> QED BY <3>1, <3>3, <4>1
    <3>5. Paired(q, r)[2] = q[2] \o r[2] BY PairHas
    <3> QED BY <3>2, <3>4, <3>5
  <2>3. ASSUME NEW x \in Q PROVE x \in P \/ \E q, r \in P : x = Paired(q, r)
    BY <1>12, <1>13
  <2>4. P \subseteq Q BY <1>12
  <2>5. \A x \in Q : x[2] \in Seq(D) /\ Len(x[2]) >= 1 BY <2>1, <2>2, <2>3
  <2>6. ASSUME NEW x \in Q
        PROVE  (\E p \in D : x = <<Report!HashLeaf(p), <<p>>>>) \/ (\E q, r \in Q : x = Paired(q, r))
    <3>1. CASE x \in P
      <4>1. (\E p \in D : x = <<Report!HashLeaf(p), <<p>>>>) \/ (\E q, r \in P : x = Paired(q, r))
        BY <3>1 DEF Covers
      <4> QED BY <2>4, <4>1
    <3>2. CASE \E q, r \in P : x = Paired(q, r) BY <2>4, <3>2
    <3> QED BY <2>3, <3>1, <3>2
  <2> QED BY <2>5, <2>6 DEF Covers
<1>15. OverAll(up, c, Q, pl)
  <2>1. \A j \in 1..k : <<up[j], Under(c, pl, j)>> \in Q BY <1>12
  <2> QED BY <1>5, <1>6, <1>9, <2>1 DEF OverAll
<1> QED BY <1>4, <1>14, <1>15

\* Every level of a tree does, up to the root.
LEMMA LevelsStand ==
    ASSUME NEW D, NEW pl \in Seq(D), Len(pl) >= 1, NEW T, Rises(T, Report!LeavesOf(pl))
    PROVE  \A l \in 1..Len(T) : \E P, b : Covers(P, D) /\ OverAll(T[l], b, P, pl)
<1> DEFINE Stands(l) == \E P, b : Covers(P, D) /\ OverAll(T[l], b, P, pl)
<1>1. PICK n \in Nat : n = Len(T) /\ n >= 1 BY DEF Rises, IsSeq
<1>2. PICK N : N = {l \in Nat : l + 1 \in 1..n => Stands(l + 1)} OBVIOUS
<1>3. 0 \in N
  <2>1. Stands(1)
    <3>1. T[1] = Report!LeavesOf(pl) BY DEF Rises
    <3>2. \E P, b : Covers(P, D) /\ OverAll(Report!LeavesOf(pl), b, P, pl) BY LeavesStand
    <3> QED BY <3>1, <3>2
  <2>2. 0 + 1 = 1 OBVIOUS
  <2> HIDE DEF Stands
  <2> QED BY <1>2, <2>1, <2>2
<1>4. ASSUME NEW l \in Nat, l \in N PROVE l + 1 \in N
  <2>1. ASSUME (l + 1) + 1 \in 1..n PROVE Stands((l + 1) + 1)
    <3>1. PICK j : j = l + 1 OBVIOUS
    <3>2. j \in 1..n /\ j < n /\ j + 1 = (l + 1) + 1 BY <1>1, <2>1, <3>1
    <3>3. Stands(j)
      <4> HIDE DEF Stands
      <4> QED BY <1>2, <1>4, <3>1, <3>2
    <3>4. PICK P, b : Covers(P, D) /\ OverAll(T[j], b, P, pl) BY <3>3
    <3>5. IsSeq(T[j]) /\ Len(T[j]) >= 1 /\ T[j + 1] = Report!Parents(T[j]) BY <1>1, <3>2 DEF Rises
    <3>6. \E Q, c : Covers(Q, D) /\ OverAll(Report!Parents(T[j]), c, Q, pl) BY <3>4, <3>5, ParentsStand
    <3>7. Stands(j + 1) BY <3>5, <3>6
    <3> HIDE DEF Stands
    <3> QED BY <3>2, <3>7
  <2>2. l + 1 \in Nat OBVIOUS
  <2> HIDE DEF Stands
  <2> QED BY <1>2, <2>1, <2>2
<1>5. ASSUME NEW l \in 1..n PROVE Stands(l)
  <2>1. l - 1 \in Nat /\ (l - 1) + 1 = l BY <1>1
  <2>2. l - 1 \in N BY <1>3, <1>4, <2>1, SetInduction
  <2> HIDE DEF Stands
  <2> QED BY <1>2, <2>1, <2>2
<1> QED BY <1>1, <1>5

\* The root of a tree stands for all its payloads, in their order.
LEMMA RootStands ==
    ASSUME NEW D, NEW pl \in Seq(D), Len(pl) >= 1
    PROVE  \E P : Covers(P, D) /\ <<Report!MerkleRoot(Report!LeavesOf(pl)), pl>> \in P
<1>1. PICK leaves : leaves = Report!LeavesOf(pl) OBVIOUS
<1>2. IsSeq(leaves) /\ Len(leaves) >= 1 BY <1>1, LeavesStand
<1>3. PICK T : T = Report!BuildMerkleTree(leaves) OBVIOUS
<1>4. Rises(T, leaves) /\ Len(T[Len(T)]) = 1 BY <1>2, <1>3, BuildsATree DEF IsTree
<1>5. PICK n \in Nat : n = Len(T) /\ n >= 1 BY <1>4 DEF Rises, IsSeq
<1>6. n \in 1..n BY <1>5
<1>7. PICK P, b : Covers(P, D) /\ OverAll(T[n], b, P, pl) BY <1>1, <1>4, <1>5, <1>6, LevelsStand
<1>8. Stretches(b, 1, Len(pl)) /\ <<T[n][1], Under(b, pl, 1)>> \in P BY <1>4, <1>5, <1>7 DEF OverAll
<1>9. b[0] = 0 /\ b[1] = Len(pl) BY <1>8 DEF Stretches
<1>10. Under(b, pl, 1) = pl
  <2>1. Under(b, pl, 1) = SubSeq(pl, 1, Len(pl))
    <3>1. 1 - 1 = 0 /\ 0 + 1 = 1 OBVIOUS
    <3> QED BY <1>9, <3>1 DEF Under
  <2> QED BY <2>1, SubSeqFull
<1>11. Report!MerkleRoot(leaves) = T[n][1] BY <1>3, <1>5, LastIsAtItsEnd DEF Report!MerkleRoot
<1> QED BY <1>1, <1>7, <1>8, <1>10, <1>11

\* Two batches with one root have one list of payloads.
LEMMA RootsTell ==
    ASSUME NEW D, NEW pl \in Seq(D), NEW ql \in Seq(D), Len(pl) >= 1, Len(ql) >= 1,
           Report!MerkleRoot(Report!LeavesOf(pl)) = Report!MerkleRoot(Report!LeavesOf(ql))
    PROVE  pl = ql
<1>1. PICK x, y : x = <<Report!MerkleRoot(Report!LeavesOf(pl)), pl>> /\ y = <<Report!MerkleRoot(Report!LeavesOf(ql)), ql>>
  OBVIOUS
<1>2. PICK P : Covers(P, D) /\ x \in P BY <1>1, RootStands
<1>3. PICK Q : Covers(Q, D) /\ y \in Q BY <1>1, RootStands
<1>4. x[1] = y[1] BY <1>1
<1>5. x[2] = y[2] BY <1>2, <1>3, <1>4, OneCover
<1> QED BY <1>1, <1>5

-----------------------------------------------------------------------------
(* The way from a leaf to the root                                         *)

\* The node above a leaf at each level, each from the one below.
LEMMA AboveClimbs ==
    ASSUME NEW T, IsSeq(T), NEW i
    PROVE  \A l \in 1..Len(T) : Report!Above(i, T)[l] = IF l = 1 THEN i ELSE (Report!Above(i, T)[l - 1] + 1) \div 2
<1> DEFINE Right(g, l) == g[l] = IF l = 1 THEN i ELSE (g[l - 1] + 1) \div 2
           UpTo(n) == \E g : \A l \in 1..n : Right(g, l)
<1>1. PICK n \in Nat : n = Len(T) /\ DOMAIN T = 1..n BY DEF IsSeq
<1>2. PICK N : N = {k \in Nat : UpTo(k)} OBVIOUS
<1>3. 0 \in N
  <2>1. UpTo(0) OBVIOUS
  <2> HIDE DEF UpTo
  <2> QED BY <1>2, <2>1
<1>4. ASSUME NEW k \in Nat, k \in N PROVE k + 1 \in N
  <2>1. UpTo(k)
    <3> HIDE DEF UpTo
    <3> QED BY <1>2, <1>4
  <2>2. PICK g : \A l \in 1..k : Right(g, l) BY <2>1
  <2>3. PICK h : h = [l \in 1..(k + 1) |-> IF l = k + 1 THEN (IF l = 1 THEN i ELSE (g[l - 1] + 1) \div 2) ELSE g[l]]
    OBVIOUS
  <2>4. \A l \in 1..k : h[l] = g[l] BY <2>3
  <2>5. ASSUME NEW l \in 1..(k + 1) PROVE Right(h, l)
    <3>1. CASE l = k + 1
      <4>1. l # 1 => h[l - 1] = g[l - 1]
        <5>1. l # 1 => l - 1 \in 1..k BY <3>1
        <5> QED BY <2>4, <5>1
      <4>2. h[l] = IF l = 1 THEN i ELSE (g[l - 1] + 1) \div 2 BY <2>3, <3>1
      <4> QED BY <4>1, <4>2
    <3>2. CASE l # k + 1
      <4>1. l \in 1..k /\ (l # 1 => l - 1 \in 1..k) BY <3>2
      <4>2. h[l] = g[l] /\ (l # 1 => h[l - 1] = g[l - 1]) BY <2>4, <4>1
      <4>3. Right(g, l) BY <2>2, <4>1
      <4> QED BY <4>2, <4>3
    <3> QED BY <3>1, <3>2
  <2>6. UpTo(k + 1)
    <3>1. \A l \in 1..(k + 1) : Right(h, l) BY <2>5
    <3> HIDE DEF Right
    <3> QED BY <3>1
  <2>7. k + 1 \in Nat OBVIOUS
  <2> HIDE DEF UpTo
  <2> QED BY <1>2, <2>6, <2>7
<1>5. n \in N BY <1>3, <1>4, SetInduction
<1>6. UpTo(n)
  <2> HIDE DEF UpTo
  <2> QED BY <1>2, <1>5
<1>7. PICK g : \A l \in 1..n : Right(g, l) BY <1>6
<1> DEFINE IsAbove(f) == f = [l \in DOMAIN T |-> IF l = 1 THEN i ELSE (f[l - 1] + 1) \div 2]
<1>8. \E f : IsAbove(f)
  <2>1. PICK f : f = [l \in 1..n |-> g[l]] OBVIOUS
  <2>2. \A l \in 1..n : f[l] = IF l = 1 THEN i ELSE (f[l - 1] + 1) \div 2
    <3>1. \A l \in 1..n : f[l] = g[l] /\ (l # 1 => f[l - 1] = g[l - 1]) BY <2>1
    <3> QED BY <1>7, <3>1
  <2>3. f = [l \in 1..n |-> IF l = 1 THEN i ELSE (f[l - 1] + 1) \div 2] BY <2>1, <2>2
  <2> QED BY <1>1, <2>3
<1>9. PICK at : at = Report!Above(i, T) OBVIOUS
<1>10. at = CHOOSE f : IsAbove(f) BY <1>9 DEF Report!Above
<1>11. IsAbove(at) BY <1>8, <1>10
<1>12. \A l \in 1..n : at[l] = IF l = 1 THEN i ELSE (at[l - 1] + 1) \div 2 BY <1>1, <1>11
<1> QED BY <1>1, <1>9, <1>12

\* What is put together of the pieces of a path.
Pieces(f, s, m) == f[1] = s[1] /\ \A l \in 1..m : l # 1 => f[l] = f[l - 1] \o s[l]

LEMMA FlattensInTurn ==
    ASSUME NEW m \in Nat, NEW s, DOMAIN s = 1..m, Len(s) = m
    PROVE  /\ m = 0 => Report!FlattenSeq(s) = s
           /\ m # 0 => \E f : Pieces(f, s, m) /\ Report!FlattenSeq(s) = f[m]
<1>1. CASE m = 0 BY <1>1 DEF Report!FlattenSeq
<1>2. CASE m # 0
  <2> DEFINE Right(g, l) == g[l] = IF l = 1 THEN s[l] ELSE g[l - 1] \o s[l]
             UpTo(n) == \E g : \A l \in 1..n : Right(g, l)
  <2>1. PICK N : N = {k \in Nat : UpTo(k)} OBVIOUS
  <2>2. 0 \in N
    <3>1. UpTo(0) OBVIOUS
    <3> HIDE DEF UpTo
    <3> QED BY <2>1, <3>1
  <2>3. ASSUME NEW k \in Nat, k \in N PROVE k + 1 \in N
    <3>1. UpTo(k)
      <4> HIDE DEF UpTo
      <4> QED BY <2>1, <2>3
    <3>2. PICK g : \A l \in 1..k : Right(g, l) BY <3>1
    <3>3. PICK h : h = [l \in 1..(k + 1) |-> IF l = k + 1 THEN (IF l = 1 THEN s[l] ELSE g[l - 1] \o s[l]) ELSE g[l]]
      OBVIOUS
    <3>4. \A l \in 1..k : h[l] = g[l] BY <3>3
    <3>5. ASSUME NEW l \in 1..(k + 1) PROVE Right(h, l)
      <4>1. CASE l = k + 1
        <5>1. l # 1 => h[l - 1] = g[l - 1]
          <6>1. l # 1 => l - 1 \in 1..k BY <4>1
          <6> QED BY <3>4, <6>1
        <5>2. h[l] = IF l = 1 THEN s[l] ELSE g[l - 1] \o s[l] BY <3>3, <4>1
        <5> QED BY <5>1, <5>2
      <4>2. CASE l # k + 1
        <5>1. l \in 1..k /\ (l # 1 => l - 1 \in 1..k) BY <4>2
        <5>2. h[l] = g[l] /\ (l # 1 => h[l - 1] = g[l - 1]) BY <3>4, <5>1
        <5>3. Right(g, l) BY <3>2, <5>1
        <5> QED BY <5>2, <5>3
      <4> QED BY <4>1, <4>2
    <3>6. UpTo(k + 1)
      <4>1. \A l \in 1..(k + 1) : Right(h, l) BY <3>5
      <4> HIDE DEF Right
      <4> QED BY <4>1
    <3>7. k + 1 \in Nat OBVIOUS
    <3> HIDE DEF UpTo
    <3> QED BY <2>1, <3>6, <3>7
  <2>4. m \in N BY <2>2, <2>3, SetInduction
  <2>5. UpTo(m)
    <3> HIDE DEF UpTo
    <3> QED BY <2>1, <2>4
  <2>6. PICK g : \A l \in 1..m : Right(g, l) BY <2>5
  <2> DEFINE IsFlat(f) == f = [i \in 1..Len(s) |-> IF i = 1 THEN s[i] ELSE f[i - 1] \o s[i]]
  <2>7. \E f : IsFlat(f)
    <3>1. PICK f : f = [l \in 1..m |-> g[l]] OBVIOUS
    <3>2. \A l \in 1..m : f[l] = IF l = 1 THEN s[l] ELSE f[l - 1] \o s[l]
      <4>1. \A l \in 1..m : f[l] = g[l] /\ (l # 1 => f[l - 1] = g[l - 1]) BY <3>1
      <4> QED BY <2>6, <4>1
    <3>3. f = [l \in 1..m |-> IF l = 1 THEN s[l] ELSE f[l - 1] \o s[l]] BY <3>1, <3>2
    <3> QED BY <3>3
  <2>8. PICK f : f = CHOOSE g2 : IsFlat(g2) OBVIOUS
  <2>9. IsFlat(f) BY <2>7, <2>8
  <2>10. Report!FlattenSeq(s) = f[m]
    <3>1. Report!FlattenSeq(s) = (CHOOSE g2 : IsFlat(g2))[Len(s)] BY <1>2 DEF Report!FlattenSeq
    <3> QED BY <2>8, <3>1
  <2>11. Pieces(f, s, m)
    <3>1. \A l \in 1..m : f[l] = IF l = 1 THEN s[l] ELSE f[l - 1] \o s[l] BY <2>9
    <3>2. 1 \in 1..m BY <1>2
    <3> QED BY <3>1, <3>2 DEF Pieces
  <2> QED BY <1>2, <2>10, <2>11
<1> QED BY <1>1, <1>2

-----------------------------------------------------------------------------
(* Where a proof leads                                                     *)

\* The hash a proof comes to from a leaf.
Reaches(leaf, proof) == Report!FoldLeft(Report!Combine, leaf, proof)

LEMMA ReachesInTurn ==
    ASSUME NEW proof, IsSeq(proof), NEW leaf
    PROVE  \E h : InTurn(h, FALSE, leaf, proof, Len(proof)) /\ Reaches(leaf, proof) = h[Len(proof)]
<1>1. PICK n \in Nat : n = Len(proof) /\ DOMAIN proof = 1..n BY DEF IsSeq
<1>2. \E h : InTurn(h, FALSE, leaf, proof, n) /\ Report!FoldLeft(Report!Combine, leaf, proof) = h[n]
  BY <1>1, CombinedInTurn
<1> QED BY <1>1, <1>2 DEF Reaches

LEMMA Nothing == IsSeq(<<>>) /\ Len(<<>>) = 0
<1>1. <<>> \in Seq({}) /\ Len(<<>>) = 0 BY EmptySeq
<1> QED BY <1>1, SeqIsSeq

LEMMA NoProofReaches == ASSUME NEW leaf PROVE Reaches(leaf, <<>>) = leaf
<1>1. PICK h : InTurn(h, FALSE, leaf, <<>>, Len(<<>>)) /\ Reaches(leaf, <<>>) = h[Len(<<>>)]
  BY Nothing, ReachesInTurn
<1> QED BY <1>1, Nothing DEF InTurn

\* A step more is a hash more.
LEMMA OneStepReaches ==
    ASSUME NEW proof, IsSeq(proof), NEW leaf, NEW step
    PROVE  Reaches(leaf, Append(proof, step)) = Report!Combine(Reaches(leaf, proof), step)
<1>1. PICK n \in Nat : n = Len(proof) BY DEF IsSeq
<1>2. PICK longer : longer = Append(proof, step) OBVIOUS
<1>3. IsSeq(longer) /\ Len(longer) = n + 1 /\ (\A k \in 1..n : longer[k] = proof[k]) /\ longer[n + 1] = step
  BY <1>1, <1>2, ItemMore
<1>4. PICK h : InTurn(h, FALSE, leaf, proof, n) /\ Reaches(leaf, proof) = h[n] BY <1>1, ReachesInTurn
<1>5. PICK g : InTurn(g, FALSE, leaf, longer, n + 1) /\ Reaches(leaf, longer) = g[n + 1]
  BY <1>3, ReachesInTurn
<1>6. PICK N : N = {k \in Nat : k <= n => g[k] = h[k]} OBVIOUS
<1>7. 0 \in N BY <1>4, <1>5, <1>6 DEF InTurn
<1>8. ASSUME NEW k \in Nat, k \in N PROVE k + 1 \in N
  <2> SUFFICES ASSUME k + 1 <= n PROVE g[k + 1] = h[k + 1] BY <1>6
  <2>1. g[k] = h[k] BY <1>1, <1>6, <1>8
  <2>2. k + 1 \in 1..n /\ k + 1 \in 1..(n + 1) /\ (k + 1) - 1 = k BY <1>1
  <2>3. g[k + 1] = Turn(FALSE, g[k], longer[k + 1]) BY <1>5, <2>2 DEF InTurn
  <2>4. h[k + 1] = Turn(FALSE, h[k], proof[k + 1]) BY <1>4, <2>2 DEF InTurn
  <2> QED BY <1>3, <2>1, <2>2, <2>3, <2>4
<1>9. n \in N BY <1>7, <1>8, SetInduction
<1>10. g[n] = h[n] BY <1>6, <1>9
<1>11. g[n + 1] = Report!Combine(g[n], step)
  <2>1. n + 1 \in 1..(n + 1) /\ (n + 1) - 1 = n BY <1>1
  <2> QED BY <1>3, <1>5, <2>1 DEF InTurn, Turn
<1> QED BY <1>2, <1>4, <1>5, <1>10, <1>11

\* A proof leads two leaves to one root only if they are one.
LEMMA OneStart ==
    ASSUME NEW proof, IsSeq(proof), NEW p, NEW q, Reaches(p, proof) = Reaches(q, proof) PROVE p = q
<1>1. PICK n \in Nat : n = Len(proof) BY DEF IsSeq
<1>2. PICK h : InTurn(h, FALSE, p, proof, n) /\ Reaches(p, proof) = h[n] BY <1>1, ReachesInTurn
<1>3. PICK g : InTurn(g, FALSE, q, proof, n) /\ Reaches(q, proof) = g[n] BY <1>1, ReachesInTurn
<1>4. PICK N : N = {k \in Nat : k <= n /\ g[k] = h[k] => p = q} OBVIOUS
<1>5. 0 \in N BY <1>2, <1>3, <1>4 DEF InTurn
<1>6. ASSUME NEW k \in Nat, k \in N PROVE k + 1 \in N
  <2> SUFFICES ASSUME k + 1 <= n, g[k + 1] = h[k + 1] PROVE p = q BY <1>4
  <2>1. k + 1 \in 1..n /\ (k + 1) - 1 = k BY <1>1
  <2>2. PICK step : step = proof[k + 1] OBVIOUS
  <2>3. g[k + 1] = Report!Combine(g[k], step) /\ h[k + 1] = Report!Combine(h[k], step)
    BY <1>2, <1>3, <2>1, <2>2 DEF InTurn, Turn
  <2>4. g[k] = h[k]
    <3>1. CASE step.side = "left"
      <4>1. Report!HashInternal(step.hash, g[k]) = Report!HashInternal(step.hash, h[k])
        BY <2>3, <3>1 DEF Report!Combine
      <4> QED BY <4>1, PairsTell
    <3>2. CASE step.side # "left"
      <4>1. Report!HashInternal(g[k], step.hash) = Report!HashInternal(h[k], step.hash)
        BY <2>3, <3>2 DEF Report!Combine
      <4> QED BY <4>1, PairsTell
    <3> QED BY <3>1, <3>2
  <2> QED BY <1>1, <1>4, <1>6, <2>4
<1>7. n \in N BY <1>5, <1>6, SetInduction
<1>8. g[n] = h[n]
  <2>1. Reaches(p, proof) = Reaches(q, proof) OBVIOUS
  <2> QED BY <1>2, <1>3, <2>1
<1>9. n <= n /\ g[n] = h[n] => p = q BY <1>4, <1>7
<1>10. n <= n OBVIOUS
<1> QED BY <1>8, <1>9, <1>10

\* From what is no payload, no proof leads to a node of a tree.
LEMMA NoStart ==
    ASSUME NEW D, NEW P, Covers(P, D), NEW d, d \notin D, NEW proof, IsSeq(proof), NEW x \in P
    PROVE  Reaches(Report!HashLeaf(d), proof) # x[1]
<1>1. PICK n \in Nat : n = Len(proof) BY DEF IsSeq
<1>2. PICK h : InTurn(h, FALSE, Report!HashLeaf(d), proof, n) /\ Reaches(Report!HashLeaf(d), proof) = h[n]
  BY <1>1, ReachesInTurn
<1>3. PICK N : N = {k \in Nat : k <= n => \A y \in P : h[k] # y[1]} OBVIOUS
<1>4. 0 \in N
  <2>1. h[0] = Report!HashLeaf(d) BY <1>2 DEF InTurn
  <2>2. ASSUME NEW y \in P PROVE h[0] # y[1]
    <3>1. CASE \E p \in D : y = <<Report!HashLeaf(p), <<p>>>>
      <4>1. PICK p \in D : y[1] = Report!HashLeaf(p) BY <3>1
      <4>2. p # d OBVIOUS
      <4>3. Report!HashLeaf(d) # Report!HashLeaf(p) BY <4>2, LeavesTell
      <4> QED BY <2>1, <4>1, <4>3
    <3>2. CASE \E q, r \in P : y = Paired(q, r)
      <4>1. PICK q \in P, r \in P : y = Paired(q, r) BY <3>2
      <4>2. y[1] = Report!HashInternal(q[1], r[1]) BY <4>1, PairHas
      <4>3. Report!HashLeaf(d) # Report!HashInternal(q[1], r[1]) BY LeafIsNoPair
      <4> QED BY <2>1, <4>2, <4>3
    <3> QED BY <3>1, <3>2 DEF Covers
  <2> QED BY <1>3, <2>2
<1>5. ASSUME NEW k \in Nat, k \in N PROVE k + 1 \in N
  <2> SUFFICES ASSUME k + 1 <= n, NEW y \in P, h[k + 1] = y[1] PROVE FALSE BY <1>3
  <2>1. k + 1 \in 1..n /\ (k + 1) - 1 = k BY <1>1
  <2>2. PICK step : step = proof[k + 1] OBVIOUS
  <2>3. h[k + 1] = Report!Combine(h[k], step) BY <1>2, <2>1, <2>2 DEF InTurn, Turn
  <2>4. \A z \in P : h[k] # z[1] BY <1>1, <1>3, <1>5
  <2>5. PICK u, v : h[k + 1] = Report!HashInternal(u, v) /\ (u = h[k] \/ v = h[k])
    BY <2>3 DEF Report!Combine
  <2>6. CASE \E p \in D : y = <<Report!HashLeaf(p), <<p>>>>
    <3>1. PICK p \in D : y[1] = Report!HashLeaf(p) BY <2>6
    <3>2. Report!HashLeaf(p) # Report!HashInternal(u, v) BY LeafIsNoPair
    <3> QED BY <2>5, <3>1, <3>2
  <2>7. CASE \E q, r \in P : y = Paired(q, r)
    <3>1. PICK q \in P, r \in P : y = Paired(q, r) BY <2>7
    <3>2. y[1] = Report!HashInternal(q[1], r[1]) BY <3>1, PairHas
    <3>3. Report!HashInternal(q[1], r[1]) = Report!HashInternal(u, v) BY <2>5, <3>2
    <3>4. q[1] = u /\ r[1] = v BY <3>3, PairsTell
    <3> QED BY <2>4, <2>5, <3>4
  <2> QED BY <2>6, <2>7 DEF Covers
<1>6. n \in N BY <1>4, <1>5, SetInduction
<1> QED BY <1>2, <1>3, <1>6

-----------------------------------------------------------------------------
(* The proof of a weigh-in                                                 *)

\* The step of a proof at one level: the sibling, where there is one.
StepAt(level, k) ==
    IF Report!Sibling(k) \in DOMAIN level
      THEN << [hash |-> level[Report!Sibling(k)], side |-> IF Report!Sibling(k) < k THEN "left" ELSE "right"] >>
      ELSE << >>

LEMMA AppendsOne ==
    ASSUME NEW p, IsSeq(p), NEW x
    PROVE  p \o <<>> = p /\ <<>> \o p = p /\ p \o <<x>> = Append(p, x)
<1>1. PICK S : S = Items(p, x) OBVIOUS
<1>2. p \in Seq(S) /\ x \in S BY <1>1, SeqOfItems
<1>3. p \o <<>> = p /\ <<>> \o p = p BY <1>2, ConcatEmptySeq
<1>4. p \o <<x>> = Append(p, x) BY <1>2, AppendIsConcat
<1> QED BY <1>3, <1>4

\* It leads from a node to the one above.
LEMMA StepLeads ==
    ASSUME NEW level, IsSeq(level), NEW k \in 1..Len(level), NEW p, IsSeq(p), NEW leaf,
           Reaches(leaf, p) = level[k]
    PROVE  /\ IsSeq(p \o StepAt(level, k))
           /\ (k + 1) \div 2 \in 1..Len(Report!Parents(level))
           /\ Reaches(leaf, p \o StepAt(level, k)) = Report!Parents(level)[(k + 1) \div 2]
<1>1. PICK n \in Nat : n = Len(level) /\ DOMAIN level = 1..n BY DEF IsSeq
<1>2. k \in Nat /\ k >= 1 /\ k <= n /\ n >= 1 BY <1>1
<1>3. PICK j : j = (k + 1) \div 2 OBVIOUS
<1>4. PICK up : up = Report!Parents(level) OBVIOUS
<1>5. /\ Len(up) = (n + 1) \div 2
      /\ \A i \in 1..((n + 1) \div 2) :
            up[i] = IF 2 * i > n THEN level[2 * i - 1] ELSE Report!HashInternal(level[2 * i - 1], level[2 * i])
  BY <1>1, <1>2, <1>4, ParentsOf
<1>6. j \in Nat /\ j \in 1..((n + 1) \div 2) BY <1>2, <1>3
<1>7. up[j] = IF 2 * j > n THEN level[2 * j - 1] ELSE Report!HashInternal(level[2 * j - 1], level[2 * j])
  BY <1>5, <1>6
<1>8. PICK s : s = Report!Sibling(k) OBVIOUS
<1>9. PICK step : step = [hash |-> level[s], side |-> IF s < k THEN "left" ELSE "right"] OBVIOUS
<1>10. StepAt(level, k) = IF s \in 1..n THEN <<step>> ELSE <<>> BY <1>1, <1>8, <1>9 DEF StepAt
<1>11. ASSUME s \in 1..n
       PROVE  /\ IsSeq(p \o StepAt(level, k))
              /\ Reaches(leaf, p \o StepAt(level, k)) = Report!Combine(level[k], step)
  <2>1. p \o StepAt(level, k) = Append(p, step) BY <1>10, <1>11, AppendsOne
  <2> QED BY <2>1, ItemMore, OneStepReaches
<1>12. CASE 2 * j = k
  <2>1. s = k - 1
    <3>1. k % 2 = 0 BY <1>2, <1>6, <1>12
    <3> QED BY <1>8, <3>1 DEF Report!Sibling
  <2>2. s \in 1..n /\ s < k /\ s = 2 * j - 1 BY <1>2, <1>6, <1>12, <2>1
  <2>3. step.side = "left" /\ step.hash = level[s] BY <1>9, <2>2
  <2>4. Report!Combine(level[k], step) = Report!HashInternal(level[s], level[k]) BY <2>3 DEF Report!Combine
  <2>5. up[j] = Report!HashInternal(level[s], level[k]) BY <1>2, <1>7, <1>12, <2>2
  <2> QED BY <1>3, <1>4, <1>5, <1>6, <1>11, <2>2, <2>4, <2>5
<1>13. CASE 2 * j = k + 1
  <2>1. s = k + 1
    <3>1. k % 2 # 0 BY <1>2, <1>6, <1>13
    <3> QED BY <1>8, <3>1 DEF Report!Sibling
  <2>2. k = 2 * j - 1 /\ s = 2 * j BY <1>2, <1>6, <1>13, <2>1
  <2>3. CASE 2 * j <= n
    <3>1. s \in 1..n /\ ~ (s < k) BY <1>2, <1>6, <2>2, <2>3
    <3>2. step.side # "left" /\ step.hash = level[s] BY <1>9, <3>1
    <3>3. Report!Combine(level[k], step) = Report!HashInternal(level[k], level[s]) BY <3>2 DEF Report!Combine
    <3>4. ~ (2 * j > n) BY <1>6, <2>3
    <3>5. up[j] = Report!HashInternal(level[k], level[s]) BY <1>7, <2>2, <3>4
    <3> QED BY <1>3, <1>4, <1>5, <1>6, <1>11, <3>1, <3>3, <3>5
  <2>4. CASE 2 * j > n
    <3>1. s \notin 1..n BY <2>2, <2>4
    <3>2. p \o StepAt(level, k) = p BY <1>10, <3>1, AppendsOne
    <3>3. up[j] = level[k] BY <1>7, <2>2, <2>4
    <3> QED BY <1>3, <1>4, <1>5, <1>6, <3>2, <3>3
  <2> QED BY <1>6, <2>3, <2>4
<1>14. 2 * j = k \/ 2 * j = k + 1 BY <1>2, <1>3
<1> QED BY <1>12, <1>13, <1>14

\* The proof of a leaf leads from it to the root.
LEMMA ProofLeads ==
    ASSUME NEW leaves, IsSeq(leaves), NEW i \in 1..Len(leaves)
    PROVE  /\ IsSeq(Report!MerkleProof(leaves, i))
           /\ Reaches(leaves[i], Report!MerkleProof(leaves, i)) = Report!MerkleRoot(leaves)
<1>1. PICK T : T = Report!BuildMerkleTree(leaves) OBVIOUS
<1>2. Len(leaves) >= 1
  <2>1. Len(leaves) \in Nat BY DEF IsSeq
  <2> QED BY <2>1
<1>3. Rises(T, leaves) /\ Len(T[Len(T)]) = 1 BY <1>1, <1>2, BuildsATree DEF IsTree
<1>4. PICK n \in Nat : n = Len(T) /\ n >= 1 BY <1>3 DEF Rises, IsSeq
<1>5. PICK at : at = Report!Above(i, T) OBVIOUS
<1>6. IsSeq(T) /\ T[1] = leaves BY <1>3 DEF Rises
<1>7. at[1] = i /\ \A l \in 1..n : l # 1 => at[l] = (at[l - 1] + 1) \div 2
  <2>1. \A l \in 1..n : at[l] = IF l = 1 THEN i ELSE (at[l - 1] + 1) \div 2 BY <1>4, <1>5, <1>6, AboveClimbs
  <2>2. 1 \in 1..n BY <1>4
  <2> QED BY <2>1, <2>2
<1>8. PICK m \in Nat : m = n - 1 BY <1>4
<1>9. PICK s : s = [l \in 1..m |-> StepAt(T[l], at[l])] OBVIOUS
<1>10. Report!MerkleProof(leaves, i) = Report!FlattenSeq(s)
  BY <1>1, <1>4, <1>5, <1>8, <1>9 DEF Report!MerkleProof, StepAt
<1>11. DOMAIN s = 1..m /\ Len(s) = m /\ \A l \in 1..m : s[l] = StepAt(T[l], at[l])
  <2>1. s = [l \in 1..m |-> s[l]] BY <1>9
  <2> QED BY <1>9, <2>1, FunctionIsSeq
<1>12. \A l \in 1..n : /\ IsSeq(T[l])
                       /\ l < n => T[l + 1] = Report!Parents(T[l])
  BY <1>3, <1>4 DEF Rises
<1>13. Report!MerkleRoot(leaves) = T[n][1] BY <1>1, <1>4, LastIsAtItsEnd DEF Report!MerkleRoot
<1>14. CASE m = 0
  <2>1. s = <<>> BY <1>9, <1>14
  <2>2. Report!MerkleProof(leaves, i) = <<>> BY <1>10, <1>11, <1>14, <2>1, FlattensInTurn
  <2>3. n = 1 /\ i = 1
    <3>1. n = 1 BY <1>4, <1>8, <1>14
    <3>2. Len(leaves) = 1 BY <1>3, <1>4, <1>6, <3>1
    <3> QED BY <3>1, <3>2
  <2>4. Report!MerkleRoot(leaves) = leaves[i] BY <1>6, <1>13, <2>3
  <2> QED BY <2>2, <2>4, Nothing, NoProofReaches
<1>15. CASE m # 0
  <2>1. PICK f : Pieces(f, s, m) /\ Report!FlattenSeq(s) = f[m] BY <1>11, <1>15, FlattensInTurn
  <2> DEFINE Leads(l) == /\ IsSeq(f[l]) /\ at[l + 1] \in 1..Len(T[l + 1])
                         /\ Reaches(leaves[i], f[l]) = T[l + 1][at[l + 1]]
  <2>2. PICK N : N = {l \in Nat : l + 1 \in 1..m => Leads(l + 1)} OBVIOUS
  <2>3. ASSUME NEW l \in 1..m, NEW p, IsSeq(p), at[l] \in 1..Len(T[l]), Reaches(leaves[i], p) = T[l][at[l]],
               f[l] = p \o s[l]
        PROVE  Leads(l)
    <3>1. l \in 1..n /\ l < n /\ l + 1 \in 1..n /\ l + 1 # 1 /\ (l + 1) - 1 = l BY <1>4, <1>8
    <3>2. PICK level, k : level = T[l] /\ k = at[l] OBVIOUS
    <3>3. IsSeq(level) /\ T[l + 1] = Report!Parents(level) BY <1>12, <3>1, <3>2
    <3>4. at[l + 1] = (k + 1) \div 2 BY <1>7, <3>1, <3>2
    <3>5. s[l] = StepAt(level, k) BY <1>11, <3>2
    <3>6. /\ IsSeq(p \o StepAt(level, k))
          /\ (k + 1) \div 2 \in 1..Len(Report!Parents(level))
          /\ Reaches(leaves[i], p \o StepAt(level, k)) = Report!Parents(level)[(k + 1) \div 2]
      BY <2>3, <3>2, <3>3, StepLeads
    <3> QED BY <2>3, <3>3, <3>4, <3>5, <3>6
  <2>4. 0 \in N
    <3>1. 1 \in 1..m BY <1>15
    <3>2. f[1] = <<>> \o s[1]
      <4>1. IsSeq(s[1])
        <5>1. s[1] = StepAt(T[1], at[1]) BY <1>11, <3>1
        <5> QED BY <5>1, Nothing, Singleton DEF StepAt
      <4>2. <<>> \o s[1] = s[1] BY <4>1, AppendsOne
      <4> QED BY <2>1, <4>2 DEF Pieces
    <3>3. at[1] \in 1..Len(T[1]) /\ Reaches(leaves[i], <<>>) = T[1][at[1]] BY <1>6, <1>7, NoProofReaches
    <3>4. Leads(1)
      <4> HIDE DEF Leads
      <4> QED BY <2>3, <3>1, <3>2, <3>3, Nothing
    <3>5. 0 + 1 = 1 OBVIOUS
    <3> HIDE DEF Leads
    <3> QED BY <2>2, <3>4, <3>5
  <2>5. ASSUME NEW j \in Nat, j \in N PROVE j + 1 \in N
    <3>1. ASSUME (j + 1) + 1 \in 1..m PROVE Leads((j + 1) + 1)
      <4>1. PICK l : l = (j + 1) + 1 OBVIOUS
      <4>2. l \in 1..m /\ l # 1 /\ l - 1 = j + 1 /\ j + 1 \in 1..m BY <3>1, <4>1
      <4>3. Leads(j + 1)
        <5> HIDE DEF Leads
        <5> QED BY <2>2, <2>5, <4>2
      <4>4. (j + 1) + 1 = l BY <4>1
      <4>5. IsSeq(f[j + 1]) /\ at[l] \in 1..Len(T[l]) /\ Reaches(leaves[i], f[j + 1]) = T[l][at[l]]
        BY <4>3, <4>4
      <4>6. f[l] = f[j + 1] \o s[l] BY <2>1, <4>2 DEF Pieces
      <4>7. Leads(l)
        <5> HIDE DEF Leads
        <5> QED BY <2>3, <4>2, <4>5, <4>6
      <4> HIDE DEF Leads
      <4> QED BY <4>1, <4>7
    <3>2. j + 1 \in Nat OBVIOUS
    <3> HIDE DEF Leads
    <3> QED BY <2>2, <3>1, <3>2
  <2>6. Leads(m)
    <3>1. m - 1 \in Nat /\ (m - 1) + 1 = m /\ m \in 1..m BY <1>15
    <3>2. m - 1 \in N BY <2>4, <2>5, <3>1, SetInduction
    <3> HIDE DEF Leads
    <3> QED BY <2>2, <3>1, <3>2
  <2>7. m + 1 = n /\ Len(T[n]) = 1 BY <1>3, <1>4, <1>8
  <2>8. at[n] = 1 /\ IsSeq(f[m]) /\ Reaches(leaves[i], f[m]) = T[n][at[n]]
    <3>1. at[n] \in 1..1 BY <2>6, <2>7
    <3>2. at[n] = 1 BY <3>1
    <3> QED BY <2>6, <2>7, <3>2
  <2> QED BY <1>10, <1>13, <2>1, <2>8
<1> QED BY <1>14, <1>15

-----------------------------------------------------------------------------
(* The report                                                              *)

LEMMA ListsAreSeqs ==
    ASSUME NEW s \in Report!HashLists
    PROVE  s \in Seq(Payloads) /\ (s # <<>> => Len(s) >= 1) /\ Len(s) \in Nat /\ DOMAIN s = 1..Len(s)
<1>1. PICK n \in 0..MaxLeaves : s \in [1..n -> Payloads] BY DEF Report!HashLists
<1>2. n \in Nat BY ReportConstants
<1>3. s \in Seq(Payloads) BY <1>1, <1>2, SeqDef
<1>4. Len(s) \in Nat /\ DOMAIN s = 1..Len(s) BY <1>3, LenProperties
<1>5. s # <<>> => Len(s) \in Nat \ {0} BY <1>3, EmptySeq
<1> QED BY <1>3, <1>4, <1>5

\* Where the proof of a row leads: to the root of the rows.
LEMMA RowLeads ==
    ASSUME NEW s \in Report!HashLists, NEW i \in DOMAIN s
    PROVE  /\ IsSeq(Report!MerkleProof(Report!LeavesOf(s), i))
           /\ Report!LeavesOf(s)[i] = Report!HashLeaf(s[i])
           /\ Reaches(Report!HashLeaf(s[i]), Report!MerkleProof(Report!LeavesOf(s), i)) =
                 Report!MerkleRoot(Report!LeavesOf(s))
<1>1. s \in Seq(Payloads) /\ Len(s) \in Nat /\ DOMAIN s = 1..Len(s) BY ListsAreSeqs
<1>2. i \in 1..Len(s) /\ Len(s) >= 1 BY <1>1
<1>3. PICK leaves : leaves = Report!LeavesOf(s) OBVIOUS
<1>4. IsSeq(leaves) /\ Len(leaves) = Len(s) /\ leaves[i] = Report!HashLeaf(s[i]) BY <1>1, <1>2, <1>3, LeavesStand
<1>5. i \in 1..Len(leaves) BY <1>2, <1>4
<1>6. /\ IsSeq(Report!MerkleProof(leaves, i))
      /\ Reaches(leaves[i], Report!MerkleProof(leaves, i)) = Report!MerkleRoot(leaves)
  BY <1>4, <1>5, ProofLeads
<1> QED BY <1>3, <1>4, <1>6

LEMMA Verifies ==
    ASSUME NEW leaf, NEW proof, NEW root
    PROVE  Report!VerifyMerkleProof(leaf, proof, root) <=> Reaches(leaf, proof) = root
BY DEF Report!VerifyMerkleProof, Reaches

\* The hashes of some rows are a list of hashes, empty as they are.
LEMMA HashesAreAList ==
    ASSUME NEW list \in Report!Lists
    PROVE  /\ Report!Hashes(list) \in Report!HashLists
           /\ DOMAIN Report!Hashes(list) = DOMAIN list
           /\ \A i \in DOMAIN list : Report!Hashes(list)[i] = list[i].payloadHash
           /\ Report!Hashes(list) = <<>> <=> list = <<>>
<1>1. PICK n \in 0..MaxLeaves : list \in [1..n -> Report!Row] /\ Report!IsInjective(Report!Hashes(list))
  BY DEF Report!Lists
<1>2. PICK h : h = Report!Hashes(list) OBVIOUS
<1>3. h = [i \in 1..n |-> list[i].payloadHash] BY <1>1, <1>2 DEF Report!Hashes
<1>4. \A i \in 1..n : list[i].payloadHash \in Payloads BY <1>1 DEF Report!Row
<1>5. h \in [1..n -> Payloads] BY <1>3, <1>4
<1>6. h \in Report!HashLists BY <1>1, <1>2, <1>5 DEF Report!HashLists
<1>7. n \in Nat BY ReportConstants
<1>8. h = <<>> <=> list = <<>>
  <2>1. h \in Seq(Payloads) /\ list \in Seq(Report!Row) BY <1>1, <1>5, <1>7, SeqDef
  <2>2. DOMAIN h = 1..n /\ DOMAIN list = 1..n BY <1>1, <1>5
  <2>3. DOMAIN h = 1..Len(h) /\ DOMAIN list = 1..Len(list) /\ Len(h) \in Nat /\ Len(list) \in Nat
    BY <2>1, LenProperties
  <2>4. \A m \in Nat : 1..m = 1..n => m = n BY <1>7
  <2>5. Len(h) = n /\ Len(list) = n BY <2>2, <2>3, <2>4
  <2> QED BY <2>1, <2>5, EmptySeq
<1> QED BY <1>1, <1>2, <1>3, <1>6, <1>8

\* The ticks of the report, whatever became of the rows.
LEMMA TicksHold == ASSUME ProofsInv PROVE Report!TicksAreHonest
<1> DEFINE Root(s) == Report!MerkleRoot(Report!LeavesOf(s))
<1>1. sealed \in Report!Lists /\ sealed # <<>> /\ rows \in Report!Lists BY DEF ProofsInv
<1>2. PICK was : was = Report!Hashes(sealed) OBVIOUS
<1>3. PICK is : is = Report!Hashes(rows) OBVIOUS
<1>4. /\ was \in Report!HashLists /\ was # <<>>
      /\ is \in Report!HashLists /\ DOMAIN is = DOMAIN rows /\ (is = <<>> <=> rows = <<>>)
  BY <1>1, <1>2, <1>3, HashesAreAList
<1>5. was \in Seq(Payloads) /\ Len(was) >= 1 /\ is \in Seq(Payloads) /\ (is # <<>> => Len(is) >= 1)
  BY <1>4, ListsAreSeqs
<1>6. Report!SealedRoot = Root(was) BY <1>2 DEF Report!SealedRoot
<1>7. Report!Leaves = Report!LeavesOf(is) BY <1>3 DEF Report!Leaves
<1>8. is # <<>> /\ Root(is) = Root(was) => is = was
  <2> SUFFICES ASSUME is # <<>>, Root(is) = Root(was) PROVE is = was OBVIOUS
  <2>1. Len(is) >= 1 BY <1>5
  <2> QED BY <1>5, <2>1, RootsTell
<1>9. ASSUME NEW i \in DOMAIN rows
      PROVE  /\ is # <<>>
             /\ Report!LeavesOf(is)[i] = Report!HashLeaf(is[i])
             /\ Reaches(Report!HashLeaf(is[i]), Report!MerkleProof(Report!LeavesOf(is), i)) = Root(is)
  <2>1. i \in DOMAIN is BY <1>4
  <2>2. is # <<>>
    <3>1. DOMAIN is = 1..Len(is) BY <1>4, ListsAreSeqs
    <3>2. Len(<<>>) = 0 BY Nothing
    <3>3. 1..0 = {} OBVIOUS
    <3> QED BY <2>1, <3>1, <3>2, <3>3
  <2> QED BY <1>4, <2>1, <2>2, RowLeads
<1> HIDE DEF Root
<1>10. Report!RootMatchesSealedValue <=> is = was
  <2>1. Report!RootMatchesSealedValue <=> (is # <<>> /\ Root(is) = Root(was))
    BY <1>4, <1>6, <1>7 DEF Report!RootMatchesSealedValue, Root
  <2> QED BY <1>4, <1>8, <2>1
<1>11. rows # <<>> => Report!AllProofsValid
  <2> SUFFICES ASSUME rows # <<>>, NEW i \in DOMAIN rows
               PROVE  Report!VerifyMerkleProof(Report!Leaves[i], Report!MerkleProof(Report!Leaves, i),
                                               Report!MerkleRoot(Report!Leaves))
    BY DEF Report!AllProofsValid
  <2>1. Reaches(Report!LeavesOf(is)[i], Report!MerkleProof(Report!LeavesOf(is), i)) =
           Report!MerkleRoot(Report!LeavesOf(is))
    BY <1>9 DEF Root
  <2> QED BY <1>7, <2>1, Verifies
<1>12. ASSUME NEW i \in DOMAIN rows PROVE Report!ProofValid(i) <=> is = was
  <2>1. Report!ProofValid(i) <=>
           Reaches(Report!LeavesOf(is)[i], Report!MerkleProof(Report!LeavesOf(is), i)) = Report!SealedRoot
    BY <1>7, Verifies DEF Report!ProofValid
  <2>2. Report!ProofValid(i) <=> Root(is) = Root(was) BY <1>6, <1>9, <2>1
  <2> QED BY <1>8, <1>9, <2>2
<1>13. (Report!RootMatchesSealedValue /\ Report!AllProofsValid) <=> is = was BY <1>4, <1>10, <1>11
<1> QED BY <1>2, <1>3, <1>12, <1>13 DEF Report!TicksAreHonest

-----------------------------------------------------------------------------
(* What no path proves                                                     *)

LEMMA AbovePositive ==
    ASSUME NEW T, IsSeq(T), NEW i \in Nat, i >= 1
    PROVE  \A l \in 1..Len(T) : Report!Above(i, T)[l] \in Nat /\ Report!Above(i, T)[l] >= 1
<1>1. PICK n \in Nat : n = Len(T) BY DEF IsSeq
<1>2. PICK at : at = Report!Above(i, T) OBVIOUS
<1>3. \A l \in 1..n : at[l] = IF l = 1 THEN i ELSE (at[l - 1] + 1) \div 2 BY <1>1, <1>2, AboveClimbs
<1>4. PICK N : N = {l \in Nat : l + 1 \in 1..n => at[l + 1] \in Nat /\ at[l + 1] >= 1} OBVIOUS
<1>5. 0 \in N
  <2>1. 1 \in 1..n => at[1] = i BY <1>3
  <2> QED BY <1>4, <2>1
<1>6. ASSUME NEW l \in Nat, l \in N PROVE l + 1 \in N
  <2> SUFFICES ASSUME (l + 1) + 1 \in 1..n PROVE at[(l + 1) + 1] \in Nat /\ at[(l + 1) + 1] >= 1 BY <1>4
  <2>1. l + 1 \in 1..n /\ (l + 1) + 1 # 1 /\ ((l + 1) + 1) - 1 = l + 1 BY <1>1
  <2>2. PICK x : x = at[l + 1] OBVIOUS
  <2>3. x \in Nat /\ x >= 1 BY <1>4, <1>6, <2>1, <2>2
  <2>4. at[(l + 1) + 1] = (x + 1) \div 2 BY <1>3, <2>1, <2>2
  <2>5. (x + 1) \div 2 \in Nat /\ (x + 1) \div 2 >= 1 BY <2>3
  <2> QED BY <2>4, <2>5
<1>7. ASSUME NEW l \in 1..n PROVE at[l] \in Nat /\ at[l] >= 1
  <2>1. l - 1 \in Nat /\ (l - 1) + 1 = l BY <1>1
  <2>2. l - 1 \in N BY <1>5, <1>6, <2>1, SetInduction
  <2> QED BY <1>4, <2>1, <2>2
<1> QED BY <1>1, <1>2, <1>7

\* The end of a proof is a sequence too.
LEMMA EndIsSeq ==
    ASSUME NEW s, IsSeq(s), NEW k \in 0..Len(s)
    PROVE  IsSeq(SubSeq(s, k + 1, Len(s)))
<1>1. PICK n \in Nat : n = Len(s) BY DEF IsSeq
<1>2. PICK S : S = Items(s, s) OBVIOUS
<1>3. s \in Seq(S) BY <1>2, SeqOfItems
<1>4. \A j \in (k + 1)..n : s[j] \in S
  <2>1. \A j \in (k + 1)..n : j \in 1..n BY <1>1
  <2> QED BY <1>1, <1>3, <2>1, ElementOfSeq
<1>5. k + 1 \in Int /\ n \in Int BY <1>1
<1>6. SubSeq(s, k + 1, n) \in Seq(S) BY <1>4, <1>5, SubSeqProperties
<1> QED BY <1>1, <1>6, SeqIsSeq

\* Of two nodes of a level that makes no payload.
LEMMA PairIsNoPayload ==
    ASSUME NEW s \in Report!HashLists \ {<<>>}, NEW T, T = Report!BuildMerkleTree(Report!LeavesOf(s)), NEW i \in DOMAIN s,
           NEW l \in 2..Len(T), 2 * Report!Above(i, T)[l] <= Len(T[l - 1])
    PROVE  Report!PairUnder(i, l, T) \notin Payloads
<1>1. s \in Seq(Payloads) /\ Len(s) >= 1 /\ Len(s) \in Nat /\ DOMAIN s = 1..Len(s) BY ListsAreSeqs
<1>2. PICK leaves : leaves = Report!LeavesOf(s) OBVIOUS
<1>3. IsSeq(leaves) /\ Len(leaves) >= 1 BY <1>1, <1>2, LeavesStand
<1>4. Rises(T, leaves) BY <1>2, <1>3, BuildsATree DEF IsTree
<1>5. IsSeq(T) /\ \A j \in 1..Len(T) : IsSeq(T[j]) BY <1>4 DEF Rises
<1>6. PICK n \in Nat : n = Len(T) /\ DOMAIN T = 1..n BY <1>5 DEF IsSeq
<1>7. l \in 1..n /\ l - 1 \in 1..n BY <1>6
<1>8. PICK k : k = Report!Above(i, T)[l] OBVIOUS
<1>9. k \in Nat /\ k >= 1
  <2>1. i \in Nat /\ i >= 1 BY <1>1
  <2> QED BY <1>5, <1>6, <1>7, <1>8, <2>1, AbovePositive
<1>10. PICK level : level = T[l - 1] OBVIOUS
<1>11. PICK m \in Nat : m = Len(level) /\ DOMAIN level = 1..m BY <1>5, <1>6, <1>7, <1>10 DEF IsSeq
<1>12. 2 * k - 1 \in 1..m /\ 2 * k \in 1..m
  <2>1. 2 * k <= m BY <1>8, <1>10, <1>11
  <2> QED BY <1>9, <2>1
<1>13. level[2 * k - 1] \in Report!Range(level) /\ level[2 * k] \in Report!Range(level)
  BY <1>11, <1>12 DEF Report!Range
<1>14. \A j \in DOMAIN T : \A x, y \in Report!Range(T[j]) : <<x, y>> \notin Payloads
  BY ServicesAssumption DEF Report!AuditAssumption
<1>15. <<level[2 * k - 1], level[2 * k]>> \notin Payloads BY <1>6, <1>7, <1>10, <1>13, <1>14
<1> QED BY <1>8, <1>10, <1>15 DEF Report!PairUnder

LEMMA OnlyWeighInsHold == ASSUME ProofsInv PROVE Report!OnlyWeighInsProve
<1>1. PICK s : s = Report!Hashes(sealed) OBVIOUS
<1>2. /\ s \in Report!HashLists \ {<<>>} /\ DOMAIN s = DOMAIN sealed
      /\ \A i \in DOMAIN sealed : s[i] = sealed[i].payloadHash
  <2>1. sealed \in Report!Lists \ {<<>>} BY DEF ProofsInv
  <2> QED BY <1>1, <2>1, HashesAreAList
<1>3. s \in Seq(Payloads) /\ Len(s) >= 1 /\ DOMAIN s = 1..Len(s) BY <1>2, ListsAreSeqs
<1>4. PICK leaves : leaves = Report!LeavesOf(s) OBVIOUS
<1>5. PICK root : root = Report!MerkleRoot(leaves) OBVIOUS
<1>6. Report!SealedRoot = root BY <1>1, <1>4, <1>5 DEF Report!SealedRoot
<1>7. PICK P : Covers(P, Payloads) /\ <<root, s>> \in P BY <1>3, <1>4, <1>5, RootStands
<1>8. PICK T : T = Report!BuildMerkleTree(leaves) OBVIOUS
<1>9. ASSUME NEW i \in DOMAIN s, NEW proof, proof = Report!MerkleProof(leaves, i)
      PROVE  /\ \A p \in Payloads : Report!VerifyMerkleProof(Report!HashLeaf(p), proof, root) <=> p = s[i]
             /\ \A l \in 2..Len(T), k \in 0..Len(proof) :
                   2 * Report!Above(i, T)[l] <= Len(T[l - 1]) =>
                      ~ Report!VerifyMerkleProof(Report!HashLeaf(Report!PairUnder(i, l, T)),
                                                 SubSeq(proof, k + 1, Len(proof)), root)
  <2>1. IsSeq(proof) /\ Reaches(Report!HashLeaf(s[i]), proof) = root BY <1>2, <1>4, <1>5, <1>9, RowLeads
  <2>2. ASSUME NEW p \in Payloads PROVE Report!VerifyMerkleProof(Report!HashLeaf(p), proof, root) <=> p = s[i]
    <3>1. Report!VerifyMerkleProof(Report!HashLeaf(p), proof, root) <=> Reaches(Report!HashLeaf(p), proof) = root
      BY Verifies
    <3>2. ASSUME Reaches(Report!HashLeaf(p), proof) = root PROVE p = s[i]
      <4>1. Reaches(Report!HashLeaf(p), proof) = Reaches(Report!HashLeaf(s[i]), proof) BY <2>1, <3>2
      <4>2. Report!HashLeaf(p) = Report!HashLeaf(s[i]) BY <2>1, <4>1, OneStart
      <4> QED BY <4>2, LeavesTell
    <3> QED BY <2>1, <3>1, <3>2
  <2>3. ASSUME NEW l \in 2..Len(T), NEW k \in 0..Len(proof), 2 * Report!Above(i, T)[l] <= Len(T[l - 1])
        PROVE  ~ Report!VerifyMerkleProof(Report!HashLeaf(Report!PairUnder(i, l, T)),
                                          SubSeq(proof, k + 1, Len(proof)), root)
    <3>1. PICK d : d = Report!PairUnder(i, l, T) OBVIOUS
    <3>2. d \notin Payloads BY <1>2, <1>4, <1>8, <2>3, <3>1, PairIsNoPayload
    <3>3. PICK rest : rest = SubSeq(proof, k + 1, Len(proof)) OBVIOUS
    <3>4. IsSeq(rest) BY <2>1, <3>3, EndIsSeq
    <3>5. PICK x : x = <<root, s>> OBVIOUS
    <3>6. Reaches(Report!HashLeaf(d), rest) # x[1] BY <1>7, <3>2, <3>4, <3>5, NoStart
    <3>7. x[1] = root BY <3>5
    <3>8. Reaches(Report!HashLeaf(d), rest) # root BY <3>6, <3>7
    <3> QED BY <3>1, <3>3, <3>8, Verifies
  <2> QED BY <2>2, <2>3
<1> QED BY <1>1, <1>2, <1>4, <1>6, <1>8, <1>9 DEF Report!OnlyWeighInsProve

\* Whichever rows of a sealed batch are changed, added, dropped or moved, of however many weigh-ins: the
\* report's ticks stand for the payload hashes that were sealed, in their order, and for nothing else
\* of a row; and nothing but a weigh-in is ever proved against its root.
THEOREM EvidenceHolds == MCSpec => []EvidenceIsBound
<1>1. ProofsInv => EvidenceIsBound
  BY TicksHold, OnlyWeighInsHold DEF EvidenceIsBound, Report!EvidenceIsBound
<1> QED BY <1>1, ProofsInvHolds, PTL

=============================================================================
