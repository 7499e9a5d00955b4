------------------------------ MODULE Payouts ------------------------------
(***************************************************************************)
(* PayoutsService: re-weighs become payouts to the collectors who brought   *)
(* the material, at the rates of MaterialRatesService.                      *)
(*                                                                         *)
(* create() is one transaction that locks nothing.  It reads the re-weighs, *)
(* then the payout items there are, then the rates for each re-weigh in     *)
(* turn, those of its hub and then, if it has to, those for all hubs, and    *)
(* inserts the payout with its items; the rows appear at its commit.        *)
(* markPaid() locks the payout's row and is one action.                     *)
(*                                                                         *)
(* One material, and every re-weigh is of one kilogram, so that an amount   *)
(* is a rate.  No rate is ever changed or deleted.  A re-weigh is never      *)
(* "rejected": nothing in the code gives it that status.                    *)
(***************************************************************************)
EXTENDS Backend, Naturals, FiniteSets, FiniteSetsExt

CONSTANTS
    Reweighs,
    Collectors,
    CollectorOf,   \* of the weigh-in behind each re-weigh
    ReweighHubOf,
    PayoutIds,
    Rates,         \* the rates an operator may configure
    LastDay        \* bound of the clock

Days == 0..LastDay

\* What the constants have to be.
PayoutAssumption ==
    /\ CollectorOf \in [Reweighs -> Collectors]
    /\ ReweighHubOf \in [Reweighs -> Hubs]
    /\ Rates \subseteq [hub: Hubs \cup {None}, from: Days, perKg: Nat]
    /\ LastDay \in Nat /\ None \notin Nat \cup Hubs

VARIABLES
    today,
    recorded,      \* the re-weighs there are
    createdAt,     \* of each row of material_rates, None for a rate that is not there
    payouts,       \* the rows with their items, None where there is none
    paying         \* what each process is serving

payVars == <<today, recorded, createdAt, payouts, paying>>

rates == {rate \in Rates : createdAt[rate] # None}

-----------------------------------------------------------------------------
\* The amount of each re-weigh's item, None where the payout has no item for it.
PayoutItems == [Reweighs -> Nat \cup {None}]

NoItems == [r \in Reweighs |-> None]

Covered(items) == {r \in Reweighs : items[r] # None}

Payout ==
    [to: Collectors, items: PayoutItems, amount: Nat, made: Days, status: {"pending", "paid"}]

\* What create() holds across its awaits: what it was asked for, the items it has
\* priced so far, and the re-weigh whose hub turned out to have no rate.
PayCall ==
    [at: {"idle", "reweighsRead", "pricing", "noOwnRate"}, to: Collectors \cup {None},
     asked: SUBSET Reweighs, items: PayoutItems, day: Days, next: Reweighs \cup {None}]

NotPaying == [at |-> "idle", to |-> None, asked |-> {}, items |-> NoItems, day |-> 0, next |-> None]

PayTypeOK ==
    /\ today \in Days
    /\ recorded \subseteq Reweighs
    /\ createdAt \in [Rates -> Days \cup {None}]
    /\ payouts \in [PayoutIds -> Payout \cup {None}]
    /\ paying \in [Procs -> PayCall]

PayInit ==
    /\ today = 0
    /\ recorded = {}
    /\ createdAt = [rate \in Rates |-> None]
    /\ payouts = [i \in PayoutIds |-> None]
    /\ paying = [p \in Procs |-> NotPaying]

Paying(r) == {i \in PayoutIds : payouts[i] # None /\ r \in Covered(payouts[i].items)}

Sum(items) == SumFunctionOnSet(items, Covered(items))

-----------------------------------------------------------------------------
Tick ==
    /\ today < LastDay
    /\ today' = today + 1
    /\ UNCHANGED <<recorded, createdAt, payouts, paying>>

\* ReweighService.create(), as far as payouts look at it.
Record(r) ==
    /\ r \notin recorded
    /\ recorded' = recorded \cup {r}
    /\ UNCHANGED <<today, createdAt, payouts, paying>>

\* MaterialRatesService.create(): a rate for a hub or for all, effective from any day,
\* one gone by too.
CreateRate(rate) ==
    /\ rate \notin rates
    /\ createdAt' = [createdAt EXCEPT ![rate] = today]
    /\ UNCHANGED <<today, recorded, payouts, paying>>

-----------------------------------------------------------------------------
Theirs(asked, c) == \A r \in asked : CollectorOf[r] = c

CreateRead(p, c, asked) ==
    /\ paying[p].at = "idle"
    /\ asked # {}
    /\ asked \subseteq recorded
    /\ Theirs(asked, c)
    /\ paying' = [paying EXCEPT ![p] = [NotPaying EXCEPT !.at = "reweighsRead", !.to = c, !.asked = asked]]
    /\ UNCHANGED <<today, recorded, createdAt, payouts>>

\* Slip: nobody looks for the items of other payouts.
UnattachedAnyhow(asked) == TRUE

Unattached(asked) == \A r \in asked : Paying(r) = {}

CreateItemsRead(p) ==
    /\ paying[p].at = "reweighsRead"
    /\ paying' = [paying EXCEPT ![p] =
          IF Unattached(paying[p].asked)
            THEN [@ EXCEPT !.at = "pricing", !.day = today]
            ELSE NotPaying]
    /\ UNCHANGED <<today, recorded, createdAt, payouts>>

InForce(hub, day) == {rate \in rates : rate.hub = hub /\ rate.from <= day}

\* Slip: the rates are sorted the other way.
Earliest(tier) == {rate \in tier : \A other \in tier : rate.from <= other.from}

\* Which of two with one date, PostgreSQL decides.
Latest(tier) == {rate \in tier : \A other \in tier : other.from <= rate.from}

\* resolveRate(): the next re-weigh is priced at the latest of its hub's own rates.
CreatePrice(p, r) ==
    /\ paying[p].at = "pricing"
    /\ r \in paying[p].asked \ Covered(paying[p].items)
    /\ LET choices == Latest(InForce(ReweighHubOf[r], paying[p].day))
       IN \/ choices = {} /\ paying' = [paying EXCEPT ![p] = [@ EXCEPT !.at = "noOwnRate", !.next = r]]
          \/ \E rate \in choices : paying' = [paying EXCEPT ![p] = [@ EXCEPT !.items[r] = rate.perKg]]
    /\ UNCHANGED <<today, recorded, createdAt, payouts>>

\* Its hub had none: at the latest of those for all; without one the payout is refused.
CreatePriceDefault(p, r) ==
    /\ paying[p].at = "noOwnRate"
    /\ r = paying[p].next
    /\ LET choices == Latest(InForce(None, paying[p].day))
       IN \/ choices = {} /\ paying' = [paying EXCEPT ![p] = NotPaying]
          \/ \E rate \in choices : paying' = [paying EXCEPT ![p] =
                [@ EXCEPT !.at = "pricing", !.next = None, !.items[r] = rate.perKg]]
    /\ UNCHANGED <<today, recorded, createdAt, payouts>>

TotalOf(items) == Sum(items)

CreateCommit(p, i) ==
    /\ paying[p].at = "pricing"
    /\ Covered(paying[p].items) = paying[p].asked
    /\ payouts[i] = None
    /\ payouts' = [payouts EXCEPT ![i] =
          [to |-> paying[p].to, items |-> paying[p].items, amount |-> TotalOf(paying[p].items),
           made |-> paying[p].day, status |-> "pending"]]
    /\ paying' = [paying EXCEPT ![p] = NotPaying]
    /\ UNCHANGED <<today, recorded, createdAt>>

PaidStatus == "paid"

MarkPayoutPaid(i) ==
    /\ payouts[i] # None
    /\ payouts[i].status = "pending"
    /\ payouts' = [payouts EXCEPT ![i].status = PaidStatus]
    /\ UNCHANGED <<today, recorded, createdAt, paying>>

\* The call dies and its transaction is rolled back.
PayCrash(p) ==
    /\ paying[p].at # "idle"
    /\ paying' = [paying EXCEPT ![p] = NotPaying]
    /\ UNCHANGED <<today, recorded, createdAt, payouts>>

PayNext ==
    \/ Tick
    \/ \E r \in Reweighs : Record(r)
    \/ \E rate \in Rates : CreateRate(rate)
    \/ \E i \in PayoutIds : MarkPayoutPaid(i)
    \/ \E p \in Procs :
         \/ CreateItemsRead(p) \/ PayCrash(p)
         \/ \E c \in Collectors, asked \in SUBSET Reweighs : CreateRead(p, c, asked)
         \/ \E r \in Reweighs : CreatePrice(p, r) \/ CreatePriceDefault(p, r)
         \/ \E i \in PayoutIds : CreateCommit(p, i)

PaySpec == PayInit /\ [][PayNext]_payVars

-----------------------------------------------------------------------------
Applies(rate, r, day) == rate.hub \in {ReweighHubOf[r], None} /\ rate.from <= day

\* "The most specific hubId match wins outright over the hubId: null default, and
\* within whichever tier applies, the latest effectiveFrom".
Overrides(other, rate) ==
    \/ other.hub # None /\ rate.hub = None
    \/ other.hub = rate.hub /\ other.from > rate.from

\* The price of a re-weigh in a payout made on a day: that of a rate which applies
\* then, and which none overrides that was there before that day.
PriceStands(r, perKg, day) ==
    \E rate \in rates :
        /\ rate.perKg = perKg
        /\ Applies(rate, r, day)
        /\ \A other \in rates :
              createdAt[other] < day /\ Applies(other, r, day) => ~ Overrides(other, rate)

\* Never "paid to the wrong collector, or paid at a rate nobody configured": each
\* item is of the payee's own weigh-in, at the price that stands for it, whatever
\* rates are made while create() goes from one await to the next; and the payout is
\* worth its items.
PayoutIsOwed ==
    \A i \in PayoutIds : payouts[i] # None =>
        /\ payouts[i].amount = Sum(payouts[i].items)
        /\ \A r \in Covered(payouts[i].items) :
              /\ CollectorOf[r] = payouts[i].to
              /\ PriceStands(r, payouts[i].items[r], payouts[i].made)

\* Never "a reweigh being paid twice": no two payouts have an item for one re-weigh.
ReweighPaidOnce == \A r \in Reweighs : Cardinality(Paying(r)) <= 1

=============================================================================
