----------------------------- MODULE MCServices -----------------------------
(***************************************************************************)
(* The smaller services, each on its own state: the registry contract, the  *)
(* materials catalogue, pairing, photos, the rate limiter, audit reports    *)
(* and the dashboard.  They share nothing here, so that an execution is of   *)
(* one part, and met says what it has met so far.                           *)
(***************************************************************************)
EXTENDS BatchRegistry, FiniteSets, TLC

CONSTANTS
    Codes, Seeded, Backends, Managed, Procs, MaxFetches,
    Collectors, Hubs, MaxKeys, MaxHandlers, MaxSignOuts,
    WeighIns, Photos, PhotoHash, Uploads,
    Keys, Limit, Window, MaxTime, MaxBurst,
    Payloads, MaxLeaves, MaxKg, LastDay,
    m1, m2, b1, b2, p1, p2, bola, chi, h1, h2, e1, e2, f1, f2, u1, u2, k1, k2, x1, x2, x3, x4, x5

VARIABLES
    part, met, edits,
    catalogue, used, serving, url, cache, material, fetches, queue,
    devices, app, key, pairing, form, chosen, loads, enrols, syncs, signOuts,
    store, blobs, marked, uploading, caches,
    now, buckets, served,
    sealed, rows, transfers,
    page, row, operator, requester, load, view, call

catalogued == <<catalogue, used, serving, url, cache, material, fetches, queue>>
paired == <<devices, app, key, pairing, form, chosen, loads, enrols, syncs, signOuts>>
kept == <<store, blobs, marked, uploading, caches>>
limited == <<now, buckets, served>>
reported == <<sealed, rows, transfers>>
shown == <<page, row, operator, requester, load, view, call>>

Catalogue == INSTANCE Materials WITH call <- serving
Phone == INSTANCE Pairing
Evidence == INSTANCE Photos WITH Events <- WeighIns, call <- uploading
Guard == INSTANCE RateLimit
Report == INSTANCE AuditReport
Dashboard == INSTANCE Console

ASSUME ServicesAssumption ==
    /\ Catalogue!MaterialsAssumption /\ Phone!PairingAssumption
    /\ Evidence!PhotosAssumption /\ Guard!RateLimitAssumption
    /\ Report!AuditAssumption

MCPhotoHash == e1 :> f1 @@ e2 :> f1

-----------------------------------------------------------------------------
(* What an execution meets                                                 *)

If(condition, what) == IF condition THEN {what} ELSE {}

Edits == 2

Two(ops, others) ==
    \E p, q \in Procs : p # q /\ serving'[p].op \in ops /\ serving'[q].op \in others

CatalogueMeets ==
    If(Two({"remove"}, {"create", "update", "remove", "ingest", "open"}), "removal and call")
    \cup If(\E b \in Backends : ~ (Catalogue!Known(catalogue[b]) \subseteq Catalogue!Known(catalogue'[b])),
            "removal")
    \cup If(url' # url, "sign in")

Underway(slots) == {i \in DOMAIN slots : slots[i] # None}

PhoneMeets ==
    If(Cardinality(Underway(loads')) + Cardinality(Underway(enrols')) > 1, "sign ins")
    \cup If(pairing' # pairing /\ Underway(syncs) \cap Underway(syncs') # {}, "sync and pairing")
    \cup If(chosen' # chosen /\ Underway(enrols) # {}, "choice")
    \cup If(\E i \in Underway(enrols) :
               enrols[i].at = "answered" /\ enrols'[i] = None /\ pairing' = pairing, "lost answer")

\* A write begins in a directory that has the photo already, or is getting it.
EvidenceMeets ==
    If(store = "directory" /\ \E u \in Uploads :
           /\ uploading[u].at = "checked" /\ uploading'[u].at = "writing"
           /\ \/ blobs[uploading[u].photo] = "whole"
              \/ Evidence!Writers(uploading[u].photo) # {}, "rewrite")

-----------------------------------------------------------------------------
Parts == {"registry", "catalogue", "phone", "evidence", "guard", "proofs", "custody", "dashboard"}

\* The rows of a list that do not weigh what every row was sealed with, and how many of them
\* a rewrite leaves.
Reweighed(list) == {i \in DOMAIN list : list[i].weightKg # 1}

OtherWeights == 1

\* The parts that are not served are pinned to one of their initial states.
MCInit ==
    /\ part \in Parts /\ met = {} /\ edits = 0
    /\ Init
    /\ Catalogue!Init /\ url = b1 /\ (part # "catalogue" => material = m1)
    /\ Phone!Init /\ (part # "phone" => app = "capture" /\ chosen = bola)
    /\ Evidence!Init /\ (part # "evidence" => store = "bucket")
    /\ Guard!Init
    /\ sealed \in {s \in Report!Lists \ {<< >>} :
                      /\ Report!Hashes(s) = SubSeq(<<x1, x2, x3, x4, x5>>, 1, Len(s))
                      /\ Reweighed(s) = {}}
    /\ (part # "proofs" => Len(sealed) = IF part = "custody" THEN MaxKg ELSE 1)
    /\ rows = sealed /\ transfers = [t \in 1..LastDay |-> None]
    /\ IF part = "dashboard" THEN Dashboard!Init
       ELSE /\ page = "events" /\ row = "claimed" /\ operator = "none" /\ requester = "none"
            /\ load = None /\ view = None /\ call = None

Serves(p, next, meets) == part = p /\ next /\ met' = met \cup meets /\ UNCHANGED part

MCNext ==
    \/ Serves("registry", Next, {})
       /\ UNCHANGED <<edits, catalogued, paired, kept, limited, reported, shown>>
    \/ Serves("catalogue", Catalogue!Next, CatalogueMeets)
       /\ edits' = edits + (IF catalogue' = catalogue THEN 0 ELSE 1) /\ edits' <= Edits
       /\ UNCHANGED <<vars, paired, kept, limited, reported, shown>>
    \/ Serves("phone", Phone!Next, PhoneMeets)
       /\ UNCHANGED <<edits, vars, catalogued, kept, limited, reported, shown>>
    \/ Serves("evidence", Evidence!Next, EvidenceMeets)
       /\ UNCHANGED <<edits, vars, catalogued, paired, limited, reported, shown>>
    \/ Serves("guard", Guard!Next, {})
       /\ UNCHANGED <<edits, vars, catalogued, paired, kept, reported, shown>>
    \/ Serves("proofs", Report!Rewrite /\ Cardinality(Reweighed(rows')) <= OtherWeights, {})
       /\ UNCHANGED <<edits, vars, catalogued, paired, kept, limited, shown>>
    \/ Serves("custody", Report!Custody, {})
       /\ UNCHANGED <<edits, vars, catalogued, paired, kept, limited, shown>>
    \/ Serves("dashboard", Dashboard!Next, {})
       /\ UNCHANGED <<edits, vars, catalogued, paired, kept, limited, reported>>

MCSpec ==
    MCInit /\ [][MCNext]_<<part, met, edits, vars, catalogued, paired, kept, limited, reported, shown>>

\* Nothing is asked of what comes after; of the catalogue, after one thing met.
MCBound ==
    /\ met = {} \/ <<part, met>> \in {<<"catalogue", {"removal"}>>, <<"phone", {"lost answer"}>>}
    /\ (part = "proofs" => rows = sealed)

\* In each part, what may be exchanged there.
MCSymmetry ==
    Permutations({bola, chi}) \cup Permutations({h1, h2}) \cup
    {(p1 :> p2 @@ p2 :> p1 @@ u1 :> u2 @@ u2 :> u1 @@ e1 :> e2 @@ e2 :> e1 @@ k1 :> k2 @@ k2 :> k1)}

-----------------------------------------------------------------------------
\* "Used ones must be retired instead": a code with events or batches is never deleted,
\* unless a call passes the removal that looked before it; and a weigh-in on the phone is one
\* its backend takes, unless the code was deleted or the phone signed in elsewhere meanwhile.
EveryCodeIsKnown ==
    part = "catalogue" =>
        /\ ("removal and call" \notin met => Catalogue!UsedIsKnown)
        /\ (met \cap {"removal", "sign in"} = {} => Catalogue!SignedIsKnown)

\* What the phone signs, the server can verify, as long as the handlers that pair it do not
\* pass each other and the choice on the form stands; and a mobile phone that is not paired
\* can be, unless the answer that enrolled its key was lost: that key is taken for ever.
PairingIsEnrolledAlone ==
    part = "phone" =>
        /\ (met \subseteq {"lost answer"} => Phone!PairingIsEnrolled)
        /\ (met = {} => Phone!MobileCanEnrol)

\* "photoUri is only set once bytes have been verified and stored", and they stay stored
\* where no upload is repeated into a directory.
EvidenceStoredAlone ==
    (part = "evidence" /\ met = {}) => Evidence!EvidenceStored /\ Evidence!EvidenceServed

\* However a client times its bursts, no stretch of Window seconds sees twice the limit.
FewerThanTwiceTheLimit == part = "guard" => Guard!FewerThanTwiceTheLimit

\* The report's ticks stand for the payload hashes that were sealed, in order, and for no
\* other column of their rows; nothing but a weigh-in of the batch is ever proved against
\* its root.
EvidenceIsBound == part = "proofs" => Report!EvidenceIsBound

\* Where each party took in what the one before gave out, what is missing in the end was
\* declared missing, with a reason.
JoinedGapIsExplained == part = "custody" => Report!JoinedGapIsExplained

\* No control "would then 403 on submit", and of those offered for a row the backend refuses
\* only to delete a material in use.
ControlsAreLive == part = "dashboard" => Dashboard!ControlsAreLive

=============================================================================
