------------------------------- MODULE Photos -------------------------------
(***************************************************************************)
(* Photos of weigh-ins on the server: PhotosService checks the bytes of an  *)
(* upload against the hash the device signed, PhotoStore writes them under  *)
(* their own digest, and only then is the row marked.  Two weigh-ins may    *)
(* carry the same photo, and a phone sends a photo again when the answer    *)
(* was lost; put() writes what is already there once more.                  *)
(*                                                                         *)
(* A bucket replaces an object in one step.  In a directory writeFile()     *)
(* truncates the file first, and a reader or a crash may find it so.        *)
(***************************************************************************)
EXTENDS Naturals, FiniteSets

CONSTANTS
    Events, Photos,
    PhotoHash,   \* of each event: the photo its payload declares
    Uploads,     \* bound: uploads the server handles at once
    None

\* What the constants have to be.
PhotosAssumption == PhotoHash \in [Events -> Photos] /\ None \notin Events \cup Photos

VARIABLES
    store,   \* photoBlobs: "directory" or "bucket"
    blobs,   \* what is stored under each digest
    marked,  \* the events whose photoUri is set
    call,    \* the uploads under way
    caches   \* what clients have been served, for a year: <<event, bytes>>

vars == <<store, blobs, marked, call, caches>>

-----------------------------------------------------------------------------
Bytes == {"absent", "torn", "whole"}

Idle == [at |-> "idle", event |-> None, photo |-> None]

Call == [at: {"idle", "checked", "writing", "stored"}, event: Events \cup {None}, photo: Photos \cup {None}]

TypeOK ==
    /\ store \in {"directory", "bucket"}
    /\ blobs \in [Photos -> Bytes]
    /\ marked \subseteq Events
    /\ call \in [Uploads -> Call]
    /\ caches \subseteq Events \X (Bytes \ {"absent"})

Init ==
    /\ store \in {"directory", "bucket"}
    /\ blobs = [ph \in Photos |-> "absent"]
    /\ marked = {}
    /\ call = [u \in Uploads |-> Idle]
    /\ caches = {}

Writers(ph) == {u \in Uploads : call[u].at = "writing" /\ call[u].photo = ph}

-----------------------------------------------------------------------------

\* "The check that makes the photo evidence rather than decoration."
Genuine(e, ph) == ph = PhotoHash[e]

\* attach() of a body that arrived in full, up to the write.
Attach(u, e, ph) ==
    /\ call[u] = Idle
    /\ Genuine(e, ph)
    /\ call' = [call EXCEPT ![u] = [at |-> "checked", event |-> e, photo |-> ph]]
    /\ UNCHANGED <<store, blobs, marked, caches>>

\* put(): the file is opened, and empty.
StartWrite(u) ==
    /\ call[u].at = "checked"
    /\ call' = [call EXCEPT ![u].at = "writing"]
    /\ blobs' = IF store = "directory" THEN [blobs EXCEPT ![call[u].photo] = "torn"] ELSE blobs
    /\ UNCHANGED <<store, marked, caches>>

\* The bytes are there, or some of them where another call has opened the file since.
EndWrite(u) ==
    /\ call[u].at = "writing"
    /\ call' = [call EXCEPT ![u].at = "stored"]
    /\ \E bytes \in {"torn", "whole"} :
         /\ bytes = "torn" => store = "directory" /\ Writers(call[u].photo) # {u}
         /\ blobs' = [blobs EXCEPT ![call[u].photo] = bytes]
    /\ UNCHANGED <<store, marked, caches>>

\* Slip: the row is marked before the bytes are written.
MarkableEarly(u) == call[u].at \in {"checked", "stored"}

Markable(u) == call[u].at = "stored"

Mark(u) ==
    /\ Markable(u)
    /\ marked' = marked \cup {call[u].event}
    /\ call' = [call EXCEPT ![u] = Idle]
    /\ UNCHANGED <<store, blobs, caches>>

\* The disk is full, the bucket refuses, or the process restarts: the call is gone.
Die(u) ==
    /\ call[u] # Idle
    /\ call' = [call EXCEPT ![u] = Idle]
    /\ UNCHANGED <<store, blobs, marked, caches>>

\* forEvent(), and a client that keeps what it was served.
Serve(e) ==
    /\ e \in marked
    /\ blobs[PhotoHash[e]] # "absent"
    /\ caches' = caches \cup {<<e, blobs[PhotoHash[e]]>>}
    /\ UNCHANGED <<store, blobs, marked, call>>

Next ==
    \/ \E u \in Uploads :
         \/ \E e \in Events, ph \in Photos : Attach(u, e, ph)
         \/ StartWrite(u) \/ EndWrite(u) \/ Mark(u) \/ Die(u)
    \/ \E e \in Events : Serve(e)

Spec == Init /\ [][Next]_vars

-----------------------------------------------------------------------------
\* "photoUri is only set once bytes have been verified and stored", and they stay stored.
EvidenceStored == \A e \in marked : blobs[PhotoHash[e]] = "whole"

\* "Content-addressed and therefore immutable": nobody holds other bytes for an event.
EvidenceServed == \A e \in Events : <<e, "torn">> \notin caches

=============================================================================
