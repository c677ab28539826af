------------------------------- MODULE Prices -------------------------------
(***************************************************************************)
(* The price database of internal/prices/prices.go: for every ordered pair *)
(* of commodities the observations by date, quote units per base unit.     *)
(* One database serves all the ledgers of a project.                       *)
(***************************************************************************)
EXTENDS Rationals, FiniteSets, FiniteSetsExt

CONSTANTS Commodities,
          Rank         \* [Commodities -> Nat], the alphabetical order of the names

NoRate == [ok |-> FALSE, rate |-> Zero, date |-> 0]

NewDB == [pair \in Commodities \X Commodities |-> << >>]

(* The last write wins for one pair and date. *)
AddPoint(db, base, quote, date, rate) ==
    [db EXCEPT ![<<base, quote>>] =
        [d \in DOMAIN @ \cup {date} |-> IF d = date THEN rate ELSE @[d]]]

(* The last observation of the pair on or before asOf. *)
Direct(db, base, quote, asOf) ==
    LET series == db[<<base, quote>>]
        past   == {d \in DOMAIN series : d <= asOf}
    IN  IF past = {} THEN NoRate
        ELSE [ok |-> TRUE, rate |-> series[Max(past)], date |-> Max(past)]

DirectOrInverse(db, base, quote, asOf) ==
    LET found   == Direct(db, base, quote, asOf)
        inverse == Direct(db, quote, base, asOf)
    IN  IF found.ok THEN found
        ELSE IF inverse.ok /\ inverse.rate # Zero
             THEN [inverse EXCEPT !.rate = RDiv(RInt(1), @)]
             ELSE NoRate

(* Every commodity that some observation quotes or prices. *)
Quoted(db) == UNION {{pair[1], pair[2]} : pair \in {p \in DOMAIN db : db[p] # << >>}}

(* Two observations through mid, as old as the older of them. *)
Hop(db, base, mid, quote, asOf) ==
    LET first  == DirectOrInverse(db, base, mid, asOf)
        second == DirectOrInverse(db, mid, quote, asOf)
    IN  IF first.ok /\ second.ok
        THEN [ok |-> TRUE, rate |-> RMul(first.rate, second.rate),
              date |-> Min({first.date, second.date})]
        ELSE NoRate

(* Direct or inverse, else through the first commodity that connects them. *)
RateOn(db, base, quote, asOf) ==
    LET found == DirectOrInverse(db, base, quote, asOf)
        mids  == {m \in Quoted(db) \ {base, quote} : Hop(db, base, m, quote, asOf).ok}
        first == CHOOSE m \in mids : \A n \in mids : Rank[m] <= Rank[n]
    IN  IF base = quote THEN [ok |-> TRUE, rate |-> RInt(1), date |-> asOf]
        ELSE IF found.ok THEN found
        ELSE IF mids = {} THEN NoRate
        ELSE Hop(db, base, first, quote, asOf)
=============================================================================
