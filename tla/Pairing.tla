------------------------------- MODULE Pairing -------------------------------
(***************************************************************************)
(* How a phone is paired: its signing key, the device row the key is        *)
(* enrolled in, and the record (collector, device, hub) that each weigh-in  *)
(* is signed with.  A key is enrolled once, ever.  The server quarantines   *)
(* a weigh-in whose device has another key or another collector.            *)
(*                                                                         *)
(* Both apps are here.  The capture app looks its key up when an operator   *)
(* signs in, makes a new one if the old is revoked, and refreshes its list  *)
(* of hubs on a timer; no button waits for the handler before.  The mobile  *)
(* app enrols, with its buttons disabled meanwhile, and does no more.       *)
(***************************************************************************)
EXTENDS Naturals, Sequences, FiniteSets

CONSTANTS
    Collectors, Hubs,
    MaxKeys,       \* bound: keys the phone makes
    MaxHandlers,   \* bound: handlers of one kind under way at once
    MaxSignOuts,   \* bound: how often somebody signs out
    None

VARIABLES
    devices,    \* the rows, oldest first
    app, key,   \* "capture" or "mobile"; the key the phone signs with
    pairing,    \* Provisioning, DeviceMeta: in storage and on screen
    form,       \* the form that enrols is shown
    chosen,     \* the collector it shows
    loads, enrols, syncs,   \* handlers under way
    signOuts

handlers == <<loads, enrols, syncs>>
vars == <<devices, app, key, pairing, form, chosen, handlers, signOuts>>

-----------------------------------------------------------------------------
Slots == 1..MaxHandlers

PhoneKeys == 1..MaxKeys

Pair == [device: PhoneKeys, collector: Collectors, hub: Hubs]

Device == [key: PhoneKeys, collector: Collectors, revoked: BOOLEAN]

\* findEnrolledDevice() answered: with the row of the key, or with none.
Load == [device: 0..MaxKeys, revoked: BOOLEAN, collector: Collectors \cup {None}]

Enrol == [at: {"posting", "answered"}, key: PhoneKeys, collector: Collectors, device: 0..MaxKeys]

\* What the constants have to be: None is no pairing and no handler.
PairingAssumption ==
    /\ None \notin Collectors \cup Hubs
    /\ None \notin Pair /\ None \notin Load /\ None \notin Enrol
    /\ MaxKeys \in Nat \ {0} /\ MaxHandlers \in Nat /\ MaxSignOuts \in Nat

TypeOK ==
    /\ devices \in Seq(Device)
    /\ app \in {"capture", "mobile"} /\ key \in PhoneKeys
    /\ pairing \in Pair \cup {None}
    /\ form \in BOOLEAN /\ chosen \in Collectors
    /\ loads \in [Slots -> Load \cup {None}]
    /\ enrols \in [Slots -> Enrol \cup {None}]
    /\ syncs \in [Slots -> Pair \cup {None}]
    /\ signOuts \in 0..MaxSignOuts

Init ==
    /\ devices = << >>
    /\ app \in {"capture", "mobile"} /\ key = 1
    /\ pairing = None
    /\ form = FALSE /\ chosen \in Collectors
    /\ loads = [i \in Slots |-> None]
    /\ enrols = [i \in Slots |-> None]
    /\ syncs = [i \in Slots |-> None]
    /\ signOuts = 0

\* The rows of a key: one at most, by its unique index.
RowsOf(k) == {d \in DOMAIN devices : devices[d].key = k}

SignInPage == pairing = None

\* The buttons of the mobile app wait for each other.
Free(slots, i) ==
    /\ slots[i] = None
    /\ app = "mobile" => \A j \in Slots : loads[j] = None /\ enrols[j] = None

-----------------------------------------------------------------------------
(* Signing in                                                              *)

\* "load", up to the answer; the mobile app does not ask for its key.
Lookup(i) ==
    /\ SignInPage /\ Free(loads, i)
    /\ LET found == IF app = "capture" THEN RowsOf(key) ELSE {} IN
       loads' = [loads EXCEPT ![i] =
         IF found = {} THEN [device |-> 0, revoked |-> FALSE, collector |-> None]
         ELSE LET d == CHOOSE d \in found : TRUE IN
              [device |-> d, revoked |-> devices[d].revoked, collector |-> devices[d].collector]]
    /\ UNCHANGED <<devices, app, key, pairing, form, chosen, enrols, syncs, signOuts>>

\* Slip: it is welcomed as the first collector of the list, as at the first hub.
WelcomedAsFirst(load) == Collectors

\* "Its collector" is the one of the row.
WelcomedAs(load) == {load.collector}

\* savePairing() of a phone that is enrolled already, at the first hub.
WelcomeBack(i) ==
    /\ loads[i] # None /\ loads[i].device # 0 /\ ~ loads[i].revoked
    /\ \E hub \in Hubs, c \in WelcomedAs(loads[i]) :
         pairing' = [device |-> loads[i].device, collector |-> c, hub |-> hub]
    /\ loads' = [loads EXCEPT ![i] = None]
    /\ form' = FALSE
    /\ UNCHANGED <<devices, app, key, chosen, enrols, syncs, signOuts>>

\* "That key can never be enrolled again, so replace it."
NextKey(load) == IF load.revoked THEN key + 1 ELSE key

\* Offer the form, where the page it belongs to is still there, with the first collector of
\* the list.
OfferForm(i) ==
    /\ loads[i] # None /\ (loads[i].device = 0 \/ loads[i].revoked)
    /\ NextKey(loads[i]) \in PhoneKeys
    /\ key' = NextKey(loads[i])
    /\ form' = SignInPage /\ chosen' \in Collectors
    /\ loads' = [loads EXCEPT ![i] = None]
    /\ UNCHANGED <<devices, app, pairing, enrols, syncs, signOuts>>

Choose(c) ==
    /\ form /\ c # chosen
    /\ app = "mobile" => \A i \in Slots : enrols[i] = None
    /\ chosen' = c
    /\ UNCHANGED <<devices, app, key, pairing, form, handlers, signOuts>>

\* "enrol", up to its await.
StartEnrol(i) ==
    /\ form /\ Free(enrols, i)
    /\ enrols' = [enrols EXCEPT ![i] = [at |-> "posting", key |-> key, collector |-> chosen, device |-> 0]]
    /\ UNCHANGED <<devices, app, key, pairing, form, chosen, loads, syncs, signOuts>>

Enrollable(k) == RowsOf(k) = {}

\* RegistryService.enrolDevice().
ServeEnrol(i) ==
    /\ enrols[i] # None /\ enrols[i].at = "posting"
    /\ Enrollable(enrols[i].key) /\ Len(devices) < MaxKeys
    /\ devices' = Append(devices, [key |-> enrols[i].key, collector |-> enrols[i].collector, revoked |-> FALSE])
    /\ enrols' = [enrols EXCEPT ![i].at = "answered", ![i].device = Len(devices) + 1]
    /\ UNCHANGED <<app, key, pairing, form, chosen, loads, syncs, signOuts>>

\* Refused, or no answer, whatever the server has done: the page again, or a message on it.
FailEnrol(i) ==
    /\ enrols[i] # None
    /\ enrols' = [enrols EXCEPT ![i] = None]
    /\ form' = (app = "mobile" /\ form)
    /\ UNCHANGED <<devices, app, key, pairing, chosen, loads, syncs, signOuts>>

\* The capture app reads the collector from the form again.
PairedWith(i) == IF app = "capture" THEN chosen ELSE enrols[i].collector

FinishEnrol(i) ==
    /\ enrols[i] # None /\ enrols[i].at = "answered"
    /\ \E hub \in Hubs :
         pairing' = [device |-> enrols[i].device, collector |-> PairedWith(i), hub |-> hub]
    /\ enrols' = [enrols EXCEPT ![i] = None]
    /\ form' = FALSE
    /\ UNCHANGED <<devices, app, key, chosen, loads, syncs, signOuts>>

-----------------------------------------------------------------------------
(* Paired                                                                  *)

\* The hub is switched by hand, or by a pickup.
SwitchHub(hub) ==
    /\ app = "capture" /\ pairing # None /\ pairing.hub # hub
    /\ pairing' = [pairing EXCEPT !.hub = hub]
    /\ UNCHANGED <<devices, app, key, form, chosen, handlers, signOuts>>

\* syncHubs() up to its await.
StartSync(i) ==
    /\ app = "capture" /\ pairing # None
    /\ syncs[i] = None
    /\ syncs' = [syncs EXCEPT ![i] = pairing]
    /\ UNCHANGED <<devices, app, key, pairing, form, chosen, loads, enrols, signOuts>>

\* After it, where a hub was added or renamed: the pairing it began with, and the new list.
FinishSync(i) ==
    /\ syncs[i] # None
    /\ pairing' = syncs[i]
    /\ syncs' = [syncs EXCEPT ![i] = None]
    /\ UNCHANGED <<devices, app, key, form, chosen, loads, enrols, signOuts>>

\* No news, or no answer.
EndSync(i) ==
    /\ syncs[i] # None
    /\ syncs' = [syncs EXCEPT ![i] = None]
    /\ UNCHANGED <<devices, app, key, pairing, form, chosen, loads, enrols, signOuts>>

SignOut ==
    /\ app = "capture" /\ pairing # None
    /\ signOuts < MaxSignOuts
    /\ signOuts' = signOuts + 1
    /\ pairing' = None
    /\ form' = FALSE
    /\ UNCHANGED <<devices, app, key, chosen, handlers>>

\* RegistryService.revokeDevice().
Revoke(d) ==
    /\ d \in DOMAIN devices /\ ~ devices[d].revoked
    /\ devices' = [devices EXCEPT ![d].revoked = TRUE]
    /\ UNCHANGED <<app, key, pairing, form, chosen, handlers, signOuts>>

-----------------------------------------------------------------------------
Next ==
    \/ \E i \in Slots :
         \/ Lookup(i) \/ WelcomeBack(i) \/ OfferForm(i)
         \/ StartEnrol(i) \/ ServeEnrol(i) \/ FailEnrol(i) \/ FinishEnrol(i)
         \/ StartSync(i) \/ FinishSync(i) \/ EndSync(i)
    \/ \E c \in Collectors : Choose(c)
    \/ \E hub \in Hubs : SwitchHub(hub)
    \/ SignOut \/ \E d \in PhoneKeys : Revoke(d)

Spec == Init /\ [][Next]_vars

-----------------------------------------------------------------------------
\* What the phone signs, the server can verify: the device it names has its key and its
\* collector.
PairingIsEnrolled ==
    pairing # None =>
        /\ pairing.device \in RowsOf(key)
        /\ devices[pairing.device].collector = pairing.collector

\* The mobile app is paired, or can still be: its key is free while nobody is enrolling it.
MobileCanEnrol ==
    app = "mobile" /\ pairing = None /\ (\A i \in Slots : enrols[i] = None) => RowsOf(key) = {}

=============================================================================
