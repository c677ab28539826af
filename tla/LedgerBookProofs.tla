-------------------------- MODULE LedgerBookProofs --------------------------
(***************************************************************************)
(* The engine over every sorted stream of directives: lots stay sound,     *)
(* balances are the journal, accounts' lifetimes are respected or noted,   *)
(* assertions settle and rejected transactions leave nothing behind.       *)
(***************************************************************************)
EXTENDS LedgerBook, BookingProofs, FiniteSetTheorems

----------------------------------------------------------------------------
(* Accounts' lifetimes. *)

(* What happened to the accounts of a journal entry outside their lifetime *)
(* is among the diagnostics.                                               *)
Noted(e, entry) ==
    \A j \in DOMAIN entry.legs :
        LET a == entry.legs[j].acct
        IN  /\ e.close[a] # NoDate /\ entry.date > e.close[a] =>
                    \E d \in e.diags : d.line = entry.line /\ d.sev = "error"
            /\ e.open[a] = NoDate \/ entry.date < e.open[a] =>
                    \E d \in e.diags : d.line = entry.line /\ d.on = a

OutOfLife(e) == \A i \in DOMAIN e.txns : e.txns[i].flag # "P" => Noted(e, e.txns[i])

(* No booked transaction, pads apart, is younger than the last directive.  *)
Timely(txns, date) == \A i \in DOMAIN txns : txns[i].flag # "P" => txns[i].date <= date

LEMMA CheckNotes ==
    ASSUME NEW e \in Engine, NEW date \in Nat, NEW a \in Accounts, NEW line
    PROVE  /\ e.close[a] # NoDate /\ date > e.close[a] =>
                \E d \in CheckAccount(e, date, a, line) : d.line = line /\ d.sev = "error"
           /\ e.open[a] = NoDate \/ date < e.open[a] =>
                \E d \in CheckAccount(e, date, a, line) : d.line = line /\ d.on = a
<1> DEFINE first == IF e.open[a] = NoDate THEN {Warn(line, "account not opened", a)}
                    ELSE IF date < e.open[a] THEN {Error(line, "transaction before open", a)}
                    ELSE {}
           second == IF e.close[a] # NoDate /\ date >= e.close[a]
                     THEN {Error(line, "posting after close", a)} ELSE {}
<1>1. CheckAccount(e, date, a, line) = first \cup second
    BY DEF CheckAccount
<1>2. e.close[a] \in Nat
    BY DEF Engine
<1>3. ASSUME e.close[a] # NoDate, date > e.close[a]
      PROVE  Error(line, "posting after close", a) \in second
    BY <1>2, <1>3
<1>4. ASSUME e.open[a] = NoDate \/ date < e.open[a]
      PROVE  first # {} /\ \A d \in first : d.line = line /\ d.on = a
    <2>1. /\ Warn(line, "account not opened", a).line = line /\ Warn(line, "account not opened", a).on = a
          /\ Error(line, "transaction before open", a).line = line
          /\ Error(line, "transaction before open", a).on = a
        BY DEF Error, Warn
    <2>2. first \in {{Warn(line, "account not opened", a)}, {Error(line, "transaction before open", a)}}
        BY <1>4
    <2> HIDE DEF first
    <2>3. QED
        BY <2>1, <2>2
<1> HIDE DEF first, second
<1>5. Error(line, "posting after close", a).line = line /\ Error(line, "posting after close", a).sev = "error"
    BY DEF Error
<1>6. QED
    BY <1>1, <1>3, <1>4, <1>5

(* Booking keeps an account's lifetime; what it journals is checked.       *)
LEMMA TxnNoted ==
    ASSUME NEW e \in Engine, NEW t \in Transaction
    PROVE  \/ BookTxn(e, t).txns = e.txns
           \/ \E entry \in Entry : /\ BookTxn(e, t).txns = Append(e.txns, entry)
                                   /\ entry.date = t.date
                                   /\ Noted(BookTxn(e, t), entry)
<1> DEFINE new == BookTxn(e, t)
           legs == Legs(t, Plan(e, t))
           entry == [date |-> t.date, line |-> t.line, flag |-> t.flag, legs |-> legs]
<1>1. /\ Checked(e, t).txns = e.txns /\ Checked(e, t) \in Engine
      /\ e.diags \cup Checks(e, t) \subseteq Checked(e, t).diags
    BY CheckedIs
<1>2. CASE Stopped(e, t)
    BY <1>2, Reported DEF Stopped
<1>3. CASE Skipped(e, t)
    BY <1>1, <1>3 DEF Skipped, SkipOversell, Report, Engine
<1>4. CASE Clashed(e, t)
    BY <1>1, <1>4 DEF Clashed, Report, Engine
<1>5. CASE Journaled(e, t)
    <2>1. new.txns = Append(e.txns, entry) /\ new.diags = Checked(e, t).diags
        BY <1>1, <1>5 DEF Journaled, Engine
    <2>2. new.open = e.open /\ new.close = e.close
        BY BookTxnIs
    <2>3. DOMAIN legs = 1..Len(t.postings) /\ DOMAIN t.postings = 1..Len(t.postings)
          /\ \A j \in 1..Len(t.postings) : legs[j].acct = t.postings[j].acct /\ t.postings[j].acct \in Accounts
        BY GivenParts DEF Legs
    <2>4. legs \in Seq(Leg)
        <3>1. Plan(e, t) \in Plans(t)
            BY PlanType DEF Engine
        <3>2. QED
            BY <3>1, LegsType
    <2>5. t.date \in Dates /\ t.date \in Nat /\ t.line \in Nat /\ t.flag \in Flags
        BY DEF Transaction, Dates
    <2> HIDE DEF legs, new
    <2>6. entry \in Entry /\ entry.date = t.date /\ entry.line = t.line /\ entry.legs = legs
        BY <2>4, <2>5 DEF Entry
    <2> HIDE DEF entry
    <2>7. Noted(new, entry)
        <3>1. SUFFICES ASSUME NEW j \in 1..Len(t.postings), NEW a \in Accounts, a = t.postings[j].acct
                       PROVE  /\ e.close[a] # NoDate /\ t.date > e.close[a] =>
                                    \E d \in new.diags : d.line = t.line /\ d.sev = "error"
                              /\ e.open[a] = NoDate \/ t.date < e.open[a] =>
                                    \E d \in new.diags : d.line = t.line /\ d.on = a
            BY <2>2, <2>3, <2>6 DEF Noted
        <3>2. CheckAccount(e, t.date, a, t.line) \subseteq new.diags
            BY <1>1, <2>1, <3>1 DEF Checks
        <3>3. QED
            BY <2>5, <3>2, CheckNotes
    <2>8. QED
        BY <2>1, <2>6, <2>7 DEF new
<1>6. QED
    BY <1>2, <1>3, <1>4, <1>5, Outcomes

LEMMA DirectiveNoted ==
    ASSUME NEW e \in Engine, NEW d, IsDirective(d), OutOfLife(e), Timely(e.txns, d.date)
    PROVE  OutOfLife(BookDirective(e, d)) /\ Timely(BookDirective(e, d).txns, d.date)
<1> DEFINE f == BookDirective(e, d)
<1>1. e.txns \in Seq(Entry) /\ f \in Engine /\ e.diags \subseteq f.diags
    BY BookDirectiveIs DEF Engine
<1>2. d.date \in Nat
    BY DirectiveParts
<1>3. ASSUME NEW i \in DOMAIN e.txns, e.txns[i].flag # "P"
      PROVE  Noted(f, e.txns[i])
    <2> DEFINE entry == e.txns[i]
    <2>1. Noted(e, entry) /\ entry.date <= d.date
        BY <1>3 DEF OutOfLife, Timely
    <2>2. entry \in Entry
        BY <1>1
    <2>3. entry.date \in Nat /\ entry.legs \in Seq(Leg)
        BY <2>2 DEF Entry, Dates
    <2>4. \A j \in DOMAIN entry.legs : entry.legs[j].acct \in Accounts
        <3>1. \A legs \in Seq(Leg) : \A j \in DOMAIN legs : legs[j] \in Leg
            OBVIOUS
        <3>2. QED
            BY <2>3, <3>1 DEF Leg
    <2>5. /\ \A a \in Accounts : f.close[a] = e.close[a] \/ f.close[a] = d.date
          /\ \A a \in Accounts : f.open[a] = e.open[a] \/ e.open[a] = NoDate
        <3>1. CASE d.kind \notin {"txn", "balance"}
            BY <3>1, LifecycleIs
        <3>2. CASE d.kind = "txn"
            <4>1. d \in Transaction /\ f = BookTxn(e, d)
                BY <3>2, DirectiveParts DEF BookDirective
            <4>2. QED
                BY <4>1, BookTxnIs
        <3>3. CASE d.kind = "balance"
            <4>1. f = BookBalance(e, d)
                BY <3>3 DEF BookDirective
            <4>2. QED
                BY <3>3, <4>1, BookBalanceIs
        <3>4. QED
            BY <3>1, <3>2, <3>3
    <2> HIDE DEF f, entry
    <2>6. ASSUME NEW j \in DOMAIN entry.legs, NEW a \in Accounts, a = entry.legs[j].acct
          PROVE  /\ f.close[a] # NoDate /\ entry.date > f.close[a] =>
                        \E x \in f.diags : x.line = entry.line /\ x.sev = "error"
                 /\ f.open[a] = NoDate \/ entry.date < f.open[a] =>
                        \E x \in f.diags : x.line = entry.line /\ x.on = a
        <3>1. /\ e.close[a] # NoDate /\ entry.date > e.close[a] =>
                        \E x \in e.diags : x.line = entry.line /\ x.sev = "error"
              /\ e.open[a] = NoDate \/ entry.date < e.open[a] =>
                        \E x \in e.diags : x.line = entry.line /\ x.on = a
            BY <2>1, <2>6 DEF Noted
        <3>2. f.close[a] = d.date => ~(entry.date > f.close[a])
            BY <1>2, <2>1, <2>3
        <3>3. QED
            BY <1>1, <2>5, <3>1, <3>2
    <2>7. QED
        BY <2>4, <2>6 DEF Noted, entry
<1>4. ASSUME NEW entry \in Entry, f.txns = Append(e.txns, entry),
             entry.flag # "P" => entry.date = d.date /\ Noted(f, entry)
      PROVE  OutOfLife(f) /\ Timely(f.txns, d.date)
    <2> DEFINE n == Len(e.txns)
    <2>1. /\ n \in Nat /\ DOMAIN f.txns = 1..(n + 1) /\ f.txns[n + 1] = entry
          /\ DOMAIN e.txns = 1..n /\ \A i \in 1..n : f.txns[i] = e.txns[i]
        BY <1>1, <1>4
    <2> HIDE DEF n, f
    <2>2. \A i \in 1..(n + 1) : i \in 1..n \/ i = n + 1
        BY <2>1
    <2>3. Timely(f.txns, d.date)
        BY <1>2, <1>4, <2>1, <2>2 DEF Timely
    <2>4. OutOfLife(f)
        BY <1>3, <1>4, <2>1, <2>2 DEF OutOfLife
    <2>5. QED
        BY <2>3, <2>4
<1>5. ASSUME f.txns = e.txns
      PROVE  OutOfLife(f) /\ Timely(f.txns, d.date)
    BY <1>3, <1>5 DEF OutOfLife
<1>6. f.txns = e.txns \/ \E entry \in Entry : /\ f.txns = Append(e.txns, entry)
                                              /\ entry.flag # "P" => entry.date = d.date /\ Noted(f, entry)
    <2>1. CASE d.kind \notin {"txn", "balance"}
        BY <2>1, LifecycleIs
    <2>2. CASE d.kind = "txn"
        <3>1. d \in Transaction /\ f = BookTxn(e, d)
            BY <2>2, DirectiveParts DEF BookDirective
        <3>2. QED
            BY <3>1, TxnNoted
    <2>3. CASE d.kind = "balance"
        <3>1. f = BookBalance(e, d)
            BY <2>3 DEF BookDirective
        <3>2. QED
            BY <2>3, <3>1, BookBalanceIs
    <2>4. QED
        BY <2>1, <2>2, <2>3
<1> HIDE DEF f
<1>7. QED
    BY <1>4, <1>5, <1>6 DEF f

-----------------------------------------------------------------------------
(***************************************************************************)
(* What a transaction does to lots and balances at once: a lot's units     *)
(* move with its balance, and what it costs is kept in one commodity.      *)
(***************************************************************************)

(* A lot that holds anything has a cost commodity.                         *)
InCommodity(inv) ==
    \A a \in Accounts, c \in Commodities :
        inv[a][c].units # Zero => inv[a][c].costComm # NoComm

(* Who buys names a cost, or buys at the average of a lot.                 *)
LEMMA BuyCostComm ==
    ASSUME NEW e, e.inv \in Lots, NEW p \in Posting, p.units.kind = "amount", BuyCost(e, p).ok
    PROVE  BuyCost(e, p).comm \in Commodities
<1>1. p.acct \in Accounts /\ p.units.comm \in Commodities
    BY PostingParts
<1> DEFINE pos == e.inv[p.acct][p.units.comm]
           named == ResolveIncreaseCost(p)
<1>2. pos.costComm \in Currency
    BY <1>1, LotParts
<1>3. CASE named.ok
    <2>1. BuyCost(e, p) = named
        BY <1>3 DEF BuyCost
    <2>2. named.ok => named.comm \in Commodities
        BY PostingParts DEF ResolveIncreaseCost, NoCost
    <2>3. QED
        BY <1>3, <2>1, <2>2
<1>4. CASE ~named.ok
    <2>1. BuyCost(e, p) = [ok |-> TRUE, n |-> Avg(pos), comm |-> pos.costComm] /\ pos.costComm # NoComm
        BY <1>4 DEF BuyCost
    <2>2. QED
        BY <1>2, <2>1 DEF Currency
<1>5. QED
    BY <1>3, <1>4

LEMMA PlannedBuy ==
    ASSUME NEW e, e.inv \in Lots, NEW t \in Transaction, NEW i \in Given(t), PostingErrors(e, t, i) = {},
           PlanOp(e, t.postings[i]).kind = "buy"
    PROVE  PlanOp(e, t.postings[i]).costComm \in Commodities
<1> DEFINE p == t.postings[i]
<1>1. p \in Posting /\ p.units.kind = "amount" /\ p.units.n \in Num
    BY GivenParts
<1>2. MovesInventory(e, p) /\ RPositive(p.units.n) /\ PlanOp(e, p) = BuyOp(p.units.n, BuyCost(e, p))
    <2>1. ~(RPositive(p.units.n) /\ RNegative(p.units.n))
        BY <1>1, Signs
    <2>2. NoOp.kind = "none" /\ \A n, pos : SellOp(n, pos).kind = "sell"
        BY DEF NoOp, SellOp
    <2>3. QED
        BY <2>1, <2>2 DEF PlanOp
<1>3. BuyCost(e, p).ok
    <2>1. SUFFICES ASSUME ~BuyCost(e, p).ok PROVE FALSE
        OBVIOUS
    <2>2. PostingErrors(e, t, i) = {Error(t.line, "buy requires explicit cost", p.units.comm)}
        BY <1>1, <1>2, <2>1, Signs DEF PostingErrors
    <2>3. QED
        BY <2>2
<1>4. BuyCost(e, p).comm \in Commodities
    BY <1>1, <1>3, BuyCostComm
<1>5. QED
    BY <1>2, <1>4 DEF BuyOp

(* The operations of a plan, by who plans them.                            *)
LEMMA PlannedOp ==
    ASSUME NEW e, NEW t \in Transaction, NEW i \in DOMAIN t.postings, NEW c \in Commodities
    PROVE  /\ i \in Given(t) => Plan(e, t).ops[i][c] =
                IF c = t.postings[i].units.comm THEN PlanOp(e, t.postings[i]) ELSE NoOp
           /\ i \in Residual(t) => Plan(e, t).ops[i][c] =
                ResidualOp(e, t, Explicit(e, t), t.postings[i].acct, c, Plan(e, t).amts[i][c])
           /\ i \notin Given(t) \cup Residual(t) => Plan(e, t).ops[i][c] = NoOp
<1> DEFINE amts == Amounts(t, Totals(e, t), Off(e, t))
<1>1. Plan(e, t).ops = Operations(e, t, Explicit(e, t), amts) /\ Plan(e, t).amts = amts
    BY PlanIs
<1>2. Given(t) \cap Residual(t) = {} /\ (i \in Given(t) => Explicit(e, t)[i] = PlanOp(e, t.postings[i]))
    BY GivenParts DEF Explicit
<1> HIDE DEF amts
<1>3. Operations(e, t, Explicit(e, t), amts)[i][c] =
        CASE i \in Given(t) /\ c = t.postings[i].units.comm -> Explicit(e, t)[i]
          [] i \in Residual(t) ->
                ResidualOp(e, t, Explicit(e, t), t.postings[i].acct, c, amts[i][c])
          [] OTHER -> NoOp
    BY DEF Operations
<1>4. QED
    BY <1>1, <1>2, <1>3

(* Every buy of a faultless plan has a cost commodity, and only explicit   *)
(* buys open a lot.                                                        *)
LEMMA PlannedBuys ==
    ASSUME NEW e, e.inv \in Lots, NEW t \in Transaction, Faultless(e, t),
           NEW i \in DOMAIN t.postings, NEW c \in Commodities, Plan(e, t).ops[i][c].kind = "buy"
    PROVE  /\ Plan(e, t).ops[i][c].costComm \in Commodities
           /\ i \in Given(t) \/ HasPosition(e, t.postings[i].acct, c)
<1>1. NoOp.kind # "buy" /\ \A n, pos : SellOp(n, pos).kind # "buy"
    BY DEF NoOp, SellOp
<1>2. CASE i \in Given(t)
    BY <1>1, <1>2, PlannedOp, PlannedBuy DEF Faultless
<1>3. CASE i \in Residual(t)
    <2> DEFINE a == t.postings[i].acct
               n == Plan(e, t).amts[i][c]
               pos == e.inv[a][c]
    <2>1. a \in Accounts /\ pos.costComm \in Currency
        BY GivenParts, LotParts
    <2>2. Plan(e, t).ops[i][c] = ResidualOp(e, t, Explicit(e, t), a, c, n)
        BY <1>3, PlannedOp
    <2>3. /\ HasPosition(e, a, c) /\ pos.costComm # NoComm
          /\ Plan(e, t).ops[i][c] = BuyOp(n, [n |-> Avg(pos), comm |-> pos.costComm])
        BY <1>1, <2>2 DEF ResidualOp
    <2>4. QED
        BY <2>1, <2>3 DEF BuyOp, Currency
<1>4. CASE i \notin Given(t) \cup Residual(t)
    BY <1>1, <1>4, PlannedOp
<1>5. QED
    BY <1>2, <1>3, <1>4

----------------------------------------------------------------------------
(* Lots in a commodity. *)

LEMMA BoughtBy ==
    ASSUME NEW t \in Transaction, NEW plan \in Plans(t), NEW kind \in {"buy", "sell"},
           NEW a \in Accounts, NEW c \in Commodities, NEW upto \in 0..Len(t.postings),
           Net(t, plan, kind, "units", a, c, upto) # Zero
    PROVE  \E i \in 1..upto : t.postings[i].acct = a /\ plan.ops[i][c].kind = kind
<1>1. SUFFICES ASSUME \A i \in 1..upto : ~(t.postings[i].acct = a /\ plan.ops[i][c].kind = kind)
               PROVE  FALSE
    OBVIOUS
<1> DEFINE term == [i \in 1..upto |-> IF t.postings[i].acct = a /\ plan.ops[i][c].kind = kind
                                      THEN plan.ops[i][c]["units"] ELSE Zero]
<1>2. Net(t, plan, kind, "units", a, c, upto) = RSum(term)
    BY DEF Net
<1>3. upto \in Nat /\ term = [i \in 1..upto |-> term[i]] /\ \A i \in 1..upto : term[i] = Zero
    BY <1>1, GivenParts
<1> HIDE DEF term
<1>4. QED
    BY <1>2, <1>3, SumTermsZero

(* The same of the plan without its residual leg.                          *)
LEMMA EitherPlanBuys ==
    ASSUME NEW e, e.inv \in Lots, NEW t \in Transaction, Faultless(e, t),
           NEW plan \in {Plan(e, t), ExplicitOnly(t, Plan(e, t))},
           NEW i \in DOMAIN t.postings, NEW c \in Commodities, plan.ops[i][c].kind = "buy"
    PROVE  /\ plan.ops[i][c].costComm \in Commodities
           /\ i \in Given(t) \/ HasPosition(e, t.postings[i].acct, c)
<1>1. CASE plan = Plan(e, t)
    BY <1>1, PlannedBuys
<1>2. CASE plan = ExplicitOnly(t, Plan(e, t))
    <2>1. plan.ops[i][c] = IF i \in Given(t) THEN Plan(e, t).ops[i][c] ELSE NoOp
        BY <1>2, PlanType, ExplicitPlan
    <2>2. i \in Given(t) /\ plan.ops[i][c] = Plan(e, t).ops[i][c]
        BY <2>1 DEF NoOp
    <2>3. QED
        BY <2>2, PlannedBuys
<1>3. QED
    BY <1>1, <1>2

LEMMA CommodityAfterBuys ==
    ASSUME NEW e, e.inv \in Lots, InCommodity(e.inv), NEW t \in Transaction, Faultless(e, t),
           NEW plan \in {Plan(e, t), ExplicitOnly(t, Plan(e, t))}, NEW upto \in 0..Len(t.postings)
    PROVE  InCommodity(InvAfterBuys(e, t, plan, upto))
<1>1. SUFFICES ASSUME NEW a \in Accounts, NEW c \in Commodities,
                      InvAfterBuys(e, t, plan, upto)[a][c].units # Zero
               PROVE  CostCommAfter(e, t, plan, a, c, upto) # NoComm
    BY DEF InCommodity, InvAfterBuys
<1> DEFINE buys == BuysOf(t, plan, a, c, upto)
           net == Net(t, plan, "buy", "units", a, c, upto)
<1>2. plan \in Plans(t) /\ Len(t.postings) \in Nat /\ upto \in Nat
      /\ 1..upto \subseteq DOMAIN t.postings
    BY PlanType, ExplicitPlan, GivenParts
<1>3. RAdd(e.inv[a][c].units, net) # Zero /\ e.inv[a][c].units \in Num /\ net \in Num
    BY <1>1, <1>2, LotParts, NetUnits DEF InvAfterBuys
<1>4. CASE buys # {}
    <2>1. Max(buys) \in buys
        <3>1. buys \in SUBSET (1..upto)
            BY DEF BuysOf
        <3> HIDE DEF buys
        <3>2. QED
            BY <1>2, <1>4, <3>1, MaxIsIn
    <2>2. PICK i \in DOMAIN t.postings : i = Max(buys) /\ plan.ops[i][c].kind = "buy"
        BY <1>2, <2>1 DEF BuysOf
    <2>3. plan.ops[i][c].costComm \in Commodities
        BY <2>2, EitherPlanBuys
    <2>4. CostCommAfter(e, t, plan, a, c, upto) = plan.ops[i][c].costComm
        BY <1>4, <2>2 DEF CostCommAfter
    <2>5. QED
        BY <2>3, <2>4, CommoditiesAssumption
<1>5. CASE buys = {}
    <2>1. e.inv[a][c].units # Zero
        <3>1. SUFFICES ASSUME e.inv[a][c].units = Zero PROVE FALSE
            OBVIOUS
        <3>2. net # Zero
            BY <1>3, <3>1, AddZero
        <3>3. PICK i \in 1..upto : t.postings[i].acct = a /\ plan.ops[i][c].kind = "buy"
            BY <1>2, <3>2, BoughtBy
        <3>4. i \in Given(t) \/ HasPosition(e, a, c)
            BY <1>2, <3>3, EitherPlanBuys
        <3>5. i \in Given(t)
            BY <3>1, <3>4 DEF HasPosition
        <3>6. QED
            BY <1>5, <3>3, <3>5 DEF BuysOf
    <2>2. CostCommAfter(e, t, plan, a, c, upto) = e.inv[a][c].costComm
        BY <1>5 DEF CostCommAfter
    <2>3. QED
        BY <2>1, <2>2 DEF InCommodity
<1>6. QED
    BY <1>4, <1>5

(* Sales leave a lot's cost commodity, and nothing where there was nothing. *)
LEMMA CommodityAfterSells ==
    ASSUME NEW e, e.inv \in Lots, Sound(e.inv), NEW t \in Transaction, NEW plan \in Plans(t),
           Oversold(e, t, plan) = {}, InCommodity(InvAfterBuys(e, t, plan, Len(t.postings)))
    PROVE  InCommodity(InvAfterSells(InvAfterBuys(e, t, plan, Len(t.postings)), t, plan))
<1> DEFINE n == Len(t.postings)
           mid == InvAfterBuys(e, t, plan, n)
           new == InvAfterSells(mid, t, plan)
<1>1. SUFFICES ASSUME NEW a \in Accounts, NEW c \in Commodities, new[a][c].units # Zero
               PROVE  new[a][c].costComm # NoComm
    BY DEF InCommodity
<1> DEFINE sold == Net(t, plan, "sell", "units", a, c, n)
<1>2. n \in 0..n /\ mid \in Lots
    BY GivenParts, AfterBuys
<1>3. Sound(new) /\ sold \in Num /\ RNonNeg(sold)
    BY <1>2, AfterSells, NetUnits
<1>4. mid[a][c] \in Position /\ mid[a][c].units \in Num
    BY <1>2, LotParts
<1> HIDE DEF mid
<1>5. new[a][c].units = RSub(mid[a][c].units, sold) /\ new[a][c].costComm = mid[a][c].costComm
    <2>1. PICK pos \in Position : pos = mid[a][c]
        BY <1>4
    <2>2. \E y : new[a][c] = [pos EXCEPT !.units = RSub(pos.units, sold), !.cost = y]
        BY <2>1 DEF InvAfterSells
    <2>3. QED
        BY <2>1, <2>2 DEF Position
<1>6. mid[a][c].units # Zero
    <2>1. SUFFICES ASSUME mid[a][c].units = Zero PROVE FALSE
        OBVIOUS
    <2>2. RLe(sold, Zero)
        BY <1>3, <1>5, <2>1, SubNum, ZeroNum DEF Sound
    <2>3. sold = Zero
        BY <1>3, <2>2, NumParts DEF RLe, RNonNeg, Zero, RInt
    <2>4. QED
        BY <1>1, <1>5, <2>1, <2>3, SubZero, ZeroNum
<1>7. QED
    BY <1>5, <1>6 DEF InCommodity, mid

(* A transaction is applied to the lots it was planned for.                *)
LEMMA CheckedLots ==
    ASSUME NEW e \in Engine, NEW t \in Transaction, NEW upto
    PROVE  /\ InvAfterBuys(Checked(e, t), t, Plan(e, t), upto) = InvAfterBuys(e, t, Plan(e, t), upto)
           /\ InvAfterBuys(Checked(e, t), t, ExplicitOnly(t, Plan(e, t)), upto) =
                InvAfterBuys(e, t, ExplicitOnly(t, Plan(e, t)), upto)
           /\ Oversold(Checked(e, t), t, Plan(e, t)) = Oversold(e, t, Plan(e, t))
           /\ \A i : CostCommMismatch(Checked(e, t), t, Plan(e, t), i) = CostCommMismatch(e, t, Plan(e, t), i)
<1>1. Checked(e, t).inv = e.inv
    BY CheckedIs
<1>2. QED
    BY <1>1 DEF InvAfterBuys, Oversold, CostCommMismatch, CostCommAfter

(* What a booked transaction makes of lots, balances and journal.          *)
LEMMA JournaledIs ==
    ASSUME NEW e \in Engine, NEW t \in Transaction, Journaled(e, t)
    PROVE  /\ Faultless(e, t) /\ Oversold(e, t, Plan(e, t)) = {}
           /\ \A i \in Given(t) : ~CostCommMismatch(e, t, Plan(e, t), i)
           /\ BookTxn(e, t).inv =
                InvAfterSells(InvAfterBuys(e, t, Plan(e, t), Len(t.postings)), t, Plan(e, t))
           /\ BookTxn(e, t).bal = AddBal(e.bal, Legs(t, Plan(e, t)))
           /\ BookTxn(e, t).diags = Checked(e, t).diags
<1>1. Checked(e, t) \in Engine /\ Checked(e, t).bal = e.bal
    BY CheckedIs
<1>2. /\ BookTxn(e, t).inv =
            InvAfterSells(InvAfterBuys(Checked(e, t), t, Plan(e, t), Len(t.postings)), t, Plan(e, t))
      /\ BookTxn(e, t).bal = AddBal(Checked(e, t).bal, Legs(t, Plan(e, t)))
      /\ BookTxn(e, t).diags = Checked(e, t).diags
    BY <1>1 DEF Journaled, Engine
<1>3. QED
    BY <1>1, <1>2, CheckedLots DEF Journaled

LEMMA CommodityAfterTxn ==
    ASSUME NEW e \in Engine, NEW t \in Transaction, Sound(e.inv), InCommodity(e.inv)
    PROVE  InCommodity(BookTxn(e, t).inv)
<1>1. e.inv \in Lots /\ Plan(e, t) \in Plans(t) /\ Len(t.postings) \in 0..Len(t.postings)
    BY PlanType, GivenParts DEF Engine
<1>2. Checked(e, t) \in Engine /\ Checked(e, t).inv = e.inv
    BY CheckedIs
<1>3. CASE Stopped(e, t)
    BY <1>3, Reported DEF Stopped
<1>4. CASE Skipped(e, t)
    BY <1>2, <1>4 DEF Skipped, SkipOversell, Report, Engine
<1>5. CASE Clashed(e, t)
    <2>1. PICK k \in 0..Len(t.postings), a \in Accounts :
            BookTxn(e, t) = [Report(Checked(e, t), {Error(t.line, "cost commodity mismatch", a)})
                                EXCEPT !.inv = InvAfterBuys(Checked(e, t), t, ExplicitOnly(t, Plan(e, t)), k)]
        BY <1>5 DEF Clashed
    <2>2. BookTxn(e, t).inv = InvAfterBuys(e, t, ExplicitOnly(t, Plan(e, t)), k)
        BY <1>2, <2>1, CheckedLots, ZenonT(40) DEF Report, Engine
    <2>3. QED
        BY <1>1, <1>5, <2>2, CommodityAfterBuys, ZenonT(40) DEF Clashed
<1>6. CASE Journaled(e, t)
    <2>1. InCommodity(InvAfterBuys(e, t, Plan(e, t), Len(t.postings)))
        BY <1>1, <1>6, JournaledIs, CommodityAfterBuys
    <2>2. QED
        BY <1>1, <1>6, <2>1, JournaledIs, CommodityAfterSells
<1>7. QED
    BY <1>3, <1>4, <1>5, <1>6, Outcomes

LEMMA CommodityAfter ==
    ASSUME NEW e \in Engine, NEW d, IsDirective(d), NEW f, f = BookDirective(e, d),
           Sound(e.inv), InCommodity(e.inv)
    PROVE  InCommodity(f.inv)
<1>1. CASE d.kind \notin {"txn", "balance"}
    BY <1>1, LifecycleIs
<1>2. CASE d.kind = "txn"
    BY <1>2, DirectiveParts, CommodityAfterTxn DEF BookDirective
<1>3. CASE d.kind = "balance"
    <2>1. f = BookBalance(e, d)
        BY <1>3 DEF BookDirective
    <2>2. QED
        BY <1>3, <2>1, BookBalanceIs
<1>4. QED
    BY <1>1, <1>2, <1>3

----------------------------------------------------------------------------
(* Units: what a posting books is what it buys less what it sells. *)

Moved(plan, i, c, kind) == IF plan.ops[i][c].kind = kind THEN plan.ops[i][c].units ELSE Zero

(* The residual posting repeats an explicit one.                           *)
Repeats(t, plan) ==
    \E i \in Residual(t), j \in Given(t) :
        /\ t.postings[i].acct = t.postings[j].acct
        /\ plan.amts[i][t.postings[j].units.comm] = t.postings[j].units.n

LEMMA PlannedAmount ==
    ASSUME NEW e, NEW t \in Transaction, NEW i \in DOMAIN t.postings, NEW c \in Commodities
    PROVE  /\ i \in Given(t) => Plan(e, t).amts[i][c] =
                IF c = t.postings[i].units.comm THEN t.postings[i].units.n ELSE Zero
           /\ i \in Residual(t) => Plan(e, t).amts[i][c] =
                IF c \in Off(e, t) THEN RNeg(Totals(e, t)[c]) ELSE Zero
           /\ i \notin Given(t) \cup Residual(t) => Plan(e, t).amts[i][c] = Zero
<1>1. Plan(e, t).amts = Amounts(t, Totals(e, t), Off(e, t))
    BY PlanIs
<1>2. Given(t) \cap Residual(t) = {}
    BY GivenParts
<1>3. Amounts(t, Totals(e, t), Off(e, t))[i][c] =
        CASE i \in Given(t) /\ c = t.postings[i].units.comm -> t.postings[i].units.n
          [] i \in Residual(t) /\ c \in Off(e, t)          -> RNeg(Totals(e, t)[c])
          [] OTHER                                          -> Zero
    BY DEF Amounts
<1>4. QED
    BY <1>1, <1>2, <1>3

LEMMA PlanOpIs ==
    ASSUME NEW e, NEW p, p.units.n \in Num
    PROVE  /\ MovesInventory(e, p) /\ RPositive(p.units.n) =>
                PlanOp(e, p) = BuyOp(p.units.n, BuyCost(e, p))
           /\ MovesInventory(e, p) /\ RNegative(p.units.n) =>
                PlanOp(e, p) = SellOp(RNeg(p.units.n), e.inv[p.acct][p.units.comm])
           /\ ~MovesInventory(e, p) \/ p.units.n = Zero => PlanOp(e, p) = NoOp
<1>1. /\ ~(RPositive(p.units.n) /\ RNegative(p.units.n))
      /\ p.units.n = Zero => ~RPositive(p.units.n) /\ ~RNegative(p.units.n)
    BY Signs DEF RPositive, RNegative, Zero, RInt
<1>2. QED
    BY <1>1 DEF PlanOp

LEMMA ResidualOpIs ==
    ASSUME NEW e, NEW t, NEW explicit, NEW a, NEW c, NEW n \in Num,
           HasPosition(e, a, c), ~InvOpAlready(t, explicit, a, c, n)
    PROVE  ResidualOp(e, t, explicit, a, c, n) =
             IF RNegative(n) THEN SellOp(RNeg(n), e.inv[a][c])
             ELSE IF RPositive(n) /\ e.inv[a][c].costComm # NoComm
             THEN BuyOp(n, [n |-> Avg(e.inv[a][c]), comm |-> e.inv[a][c].costComm])
             ELSE NoOp
<1>1. ~(RPositive(n) /\ RNegative(n))
    BY Signs
<1>2. QED
    BY <1>1 DEF ResidualOp

LEMMA ResidualSells ==
    ASSUME NEW e, NEW t, NEW explicit, NEW a, NEW c, NEW n \in Num,
           HasPosition(e, a, c), ~InvOpAlready(t, explicit, a, c, n), RNegative(n)
    PROVE  ResidualOp(e, t, explicit, a, c, n) = SellOp(RNeg(n), e.inv[a][c])
<1>1. ~RPositive(n)
    BY Signs
<1>2. QED
    BY <1>1 DEF ResidualOp

LEMMA OpNames ==
    ASSUME NEW n, NEW x
    PROVE  /\ BuyOp(n, x).kind = "buy" /\ BuyOp(n, x).units = n
           /\ SellOp(n, x).kind = "sell" /\ SellOp(n, x).units = n
           /\ NoOp.kind = "none"
BY DEF BuyOp, SellOp, NoOp

Moving(op, n) ==
    \/ op.kind = "none" /\ n = Zero
    \/ op.kind = "buy" /\ op.units = n
    \/ op.kind = "sell" /\ op.units = RNeg(n)

LEMMA PlanOpMoves ==
    ASSUME NEW e, NEW p, p.units.n \in Num, MovesInventory(e, p)
    PROVE  Moving(PlanOp(e, p), p.units.n)
<1>1. CASE RPositive(p.units.n)
    <2>1. PlanOp(e, p) = BuyOp(p.units.n, BuyCost(e, p))
        BY <1>1, PlanOpIs
    <2>2. QED
        BY <2>1, OpNames DEF Moving
<1>2. CASE RNegative(p.units.n)
    <2>1. PlanOp(e, p) = SellOp(RNeg(p.units.n), e.inv[p.acct][p.units.comm])
        BY <1>2, PlanOpIs
    <2>2. QED
        BY <2>1, OpNames DEF Moving
<1>3. CASE p.units.n = Zero
    <2>1. PlanOp(e, p) = NoOp
        BY <1>3, PlanOpIs
    <2>2. QED
        BY <1>3, <2>1, OpNames DEF Moving
<1>4. QED
    BY <1>1, <1>2, <1>3, Signs

LEMMA ResidualOpMoves ==
    ASSUME NEW e, NEW t, NEW explicit, NEW a, NEW c, NEW n \in Num,
           HasPosition(e, a, c), ~InvOpAlready(t, explicit, a, c, n),
           e.inv[a][c].costComm # NoComm
    PROVE  Moving(ResidualOp(e, t, explicit, a, c, n), n)
<1>1. CASE RPositive(n)
    <2>1. ResidualOp(e, t, explicit, a, c, n) =
            BuyOp(n, [n |-> Avg(e.inv[a][c]), comm |-> e.inv[a][c].costComm])
        BY <1>1, ResidualOpIs, Signs
    <2>2. QED
        BY <2>1, OpNames DEF Moving
<1>2. CASE RNegative(n)
    <2>1. ResidualOp(e, t, explicit, a, c, n) = SellOp(RNeg(n), e.inv[a][c])
        BY <1>2, ResidualSells
    <2>2. QED
        BY <2>1, OpNames DEF Moving
<1>3. CASE n = Zero
    <2>1. ResidualOp(e, t, explicit, a, c, n) = NoOp
        <3>1. ~RNegative(n) /\ ~RPositive(n)
            BY <1>3 DEF RPositive, RNegative, Zero, RInt
        <3>2. QED
            BY <3>1, ResidualOpIs, Zenon
    <2>2. QED
        BY <1>3, <2>1, OpNames DEF Moving
<1>4. QED
    BY <1>1, <1>2, <1>3, Signs

(* On an account that holds the lot, every posting moves lot and balance   *)
(* by the same units.                                                      *)
LEMMA PostingTracks ==
    ASSUME NEW e, e.inv \in Lots, InCommodity(e.inv), NEW t \in Transaction, ~Repeats(t, Plan(e, t)),
           NEW i \in DOMAIN t.postings, NEW c \in Commodities,
           HasPosition(e, t.postings[i].acct, c)
    PROVE  Plan(e, t).amts[i][c] =
             RSub(Moved(Plan(e, t), i, c, "buy"), Moved(Plan(e, t), i, c, "sell"))
<1> DEFINE p == t.postings[i]
           a == p.acct
           op == Plan(e, t).ops[i][c]
           n == Plan(e, t).amts[i][c]
<1>1. a \in Accounts /\ n \in Num /\ e.inv[a][c].costComm # NoComm
    <2>1. a \in Accounts /\ Plan(e, t) \in Plans(t)
        BY PlanType, GivenParts
    <2>2. QED
        BY <2>1 DEF Plans, InCommodity, HasPosition
<1>2. SUFFICES Moving(op, n)
    <2>1. CASE op.kind = "none" /\ n = Zero
        BY <2>1, SubZero, ZeroNum DEF Moved
    <2>2. CASE op.kind = "buy" /\ op.units = n
        BY <1>1, <2>2, SubNothing DEF Moved
    <2>3. CASE op.kind = "sell" /\ op.units = RNeg(n)
        BY <1>1, <2>3, NegNum, NegNeg, AddNothing DEF Moved, RSub
    <2>4. QED
        BY <1>2, <2>1, <2>2, <2>3 DEF Moving
<1>4. CASE i \in Given(t) /\ c = p.units.comm
    <2>1. op = PlanOp(e, p) /\ n = p.units.n
        BY <1>4, PlannedOp, PlannedAmount
    <2>2. MovesInventory(e, p)
        BY <1>4 DEF MovesInventory
    <2>3. QED
        BY <1>1, <2>1, <2>2, PlanOpMoves
<1>5. CASE i \in Given(t) /\ c # p.units.comm
    BY <1>5, PlannedOp, PlannedAmount, OpNames DEF Moving
<1>6. CASE i \in Residual(t)
    <2>1. op = ResidualOp(e, t, Explicit(e, t), a, c, n)
        BY <1>6, PlannedOp
    <2>2. ~InvOpAlready(t, Explicit(e, t), a, c, n)
        <3>1. SUFFICES ASSUME InvOpAlready(t, Explicit(e, t), a, c, n) PROVE FALSE
            OBVIOUS
        <3>2. PICK j \in Given(t) :
                /\ t.postings[j].acct = a /\ t.postings[j].units.comm = c
                /\ \/ RNegative(n) /\ Explicit(e, t)[j].kind = "sell" /\ Explicit(e, t)[j].units = RNeg(n)
                   \/ RPositive(n) /\ Explicit(e, t)[j].kind = "buy" /\ Explicit(e, t)[j].units = n
            BY <3>1 DEF InvOpAlready
        <3> DEFINE m == t.postings[j].units.n
        <3>3. m \in Num /\ Explicit(e, t)[j] = PlanOp(e, t.postings[j])
            BY GivenParts DEF Explicit
        <3>4. \/ PlanOp(e, t.postings[j]).kind = "none"
              \/ PlanOp(e, t.postings[j]).kind = "buy" /\ PlanOp(e, t.postings[j]).units = m
              \/ PlanOp(e, t.postings[j]).kind = "sell" /\ PlanOp(e, t.postings[j]).units = RNeg(m)
            BY <3>3, Signs, PlanOpIs, OpNames, PlanOpMoves DEF Moving
        <3>5. m = n
            BY <1>1, <3>2, <3>3, <3>4, NegNeg
        <3>6. QED
            BY <1>6, <3>2, <3>5 DEF Repeats
    <2>3. QED
        BY <1>1, <2>1, <2>2, ResidualOpMoves
<1>7. CASE i \notin Given(t) \cup Residual(t)
    BY <1>7, PlannedOp, PlannedAmount, OpNames, SMTT(30) DEF Moving
<1>8. QED
    BY <1>4, <1>5, <1>6, <1>7

(* A lot after a booked transaction.                                       *)
LEMMA LotAfter ==
    ASSUME NEW e, e.inv \in Lots, NEW t \in Transaction, NEW plan \in Plans(t),
           NEW a \in Accounts, NEW c \in Commodities,
           NEW n, n = Len(t.postings),
           NEW new, new = InvAfterSells(InvAfterBuys(e, t, plan, n), t, plan)[a][c],
           NEW left, left = RSub(RAdd(e.inv[a][c].units, Net(t, plan, "buy", "units", a, c, n)),
                                 Net(t, plan, "sell", "units", a, c, n))
    PROVE  /\ new.units = left
           /\ new.cost = IF left = Zero /\ Net(t, plan, "sell", "units", a, c, n) # Zero THEN Zero
                         ELSE RSub(RAdd(e.inv[a][c].cost, Net(t, plan, "buy", "total", a, c, n)),
                                   Net(t, plan, "sell", "total", a, c, n))
           /\ new.costComm = CostCommAfter(e, t, plan, a, c, n)
<1> DEFINE mid == InvAfterBuys(e, t, plan, n)[a][c]
           cost == IF left = Zero /\ Net(t, plan, "sell", "units", a, c, n) # Zero THEN Zero
                   ELSE RSub(mid.cost, Net(t, plan, "sell", "total", a, c, n))
<1>1. /\ mid.units = RAdd(e.inv[a][c].units, Net(t, plan, "buy", "units", a, c, n))
      /\ mid.cost = RAdd(e.inv[a][c].cost, Net(t, plan, "buy", "total", a, c, n))
      /\ mid.costComm = CostCommAfter(e, t, plan, a, c, n)
    BY DEF InvAfterBuys
<1>2. PICK pos \in Position : pos = mid
    <2>1. n \in 0..Len(t.postings)
        BY GivenParts
    <2>2. InvAfterBuys(e, t, plan, n) \in Lots
        BY <2>1, AfterBuys
    <2>3. QED
        BY <2>2, LotParts
<1>3. new = [mid EXCEPT !.units = left, !.cost = cost]
    BY <1>1 DEF InvAfterSells
<1> HIDE DEF mid, cost
<1>4. new.units = left /\ new.cost = cost /\ new.costComm = mid.costComm
    BY <1>2, <1>3 DEF Position
<1>5. QED
    BY <1>1, <1>4 DEF cost

(* A booked transaction moves a lot that is held by what it does to the    *)
(* balance.                                                                *)
LEMMA LotTracks ==
    ASSUME NEW e \in Engine, InCommodity(e.inv), NEW t \in Transaction, Journaled(e, t),
           ~Repeats(t, Plan(e, t)), NEW a \in Accounts, NEW c \in Commodities,
           HasPosition(e, a, c)
    PROVE  RSub(BookTxn(e, t).bal[a][c], e.bal[a][c]) =
             RSub(BookTxn(e, t).inv[a][c].units, e.inv[a][c].units)
<1> DEFINE plan == Plan(e, t)
           n == Len(t.postings)
           u == e.inv[a][c].units
           B == Net(t, plan, "buy", "units", a, c, n)
           S == Net(t, plan, "sell", "units", a, c, n)
           buy == [i \in 1..n |-> IF t.postings[i].acct = a /\ plan.ops[i][c].kind = "buy"
                                  THEN plan.ops[i][c]["units"] ELSE Zero]
           sell == [i \in 1..n |-> IF t.postings[i].acct = a /\ plan.ops[i][c].kind = "sell"
                                   THEN plan.ops[i][c]["units"] ELSE Zero]
           legs == Legs(t, plan)
           leg == [i \in DOMAIN legs |-> IF legs[i].acct = a THEN legs[i].amts[c] ELSE Zero]
<1>1. /\ e.inv \in Lots /\ e.bal \in Balances /\ plan \in Plans(t) /\ n \in Nat /\ n \in 0..n
      /\ DOMAIN t.postings = 1..n
    <2>1. e.inv \in Lots /\ e.bal \in Balances
        BY DEF Engine
    <2>2. plan \in Plans(t)
        BY <2>1, PlanType
    <2>3. n \in Nat /\ n \in 0..n /\ DOMAIN t.postings = 1..n
        BY GivenParts
    <2>4. QED
        BY <2>1, <2>2, <2>3
<1>2. u \in Num /\ B \in Num /\ S \in Num /\ e.bal[a][c] \in Num
    BY <1>1, LotParts, NetUnits DEF Balances
<1>3. BookTxn(e, t).inv[a][c].units = RSub(RAdd(u, B), S)
    BY <1>1, JournaledIs, LotAfter
<1>4. RSub(BookTxn(e, t).inv[a][c].units, u) = RSub(B, S)
    <2>1. RNeg(S) \in Num /\ RSub(B, S) \in Num
        BY <1>2, NegNum, SubNum
    <2>2. RSub(RAdd(u, B), S) = RAdd(u, RSub(B, S))
        BY <1>2, <2>1, AddAssoc DEF RSub
    <2>3. QED
        BY <1>2, <1>3, <2>1, <2>2, SubSelf
<1>5. B = RSum(buy) /\ S = RSum(sell)
    BY DEF Net
<1>6. ASSUME NEW i \in 1..n
      PROVE  /\ buy[i] \in Num /\ sell[i] \in Num
             /\ leg[i] = RSub(buy[i], sell[i])
    <2>1. plan.ops[i][c] \in Operation
        BY <1>1 DEF Plans
    <2>2. plan.ops[i][c]["units"] \in Num /\ plan.ops[i][c]["units"] = plan.ops[i][c].units
        BY <2>1 DEF Operation
    <2>3. leg[i] = IF t.postings[i].acct = a THEN plan.amts[i][c] ELSE Zero
        BY <1>1 DEF Legs
    <2>4. CASE t.postings[i].acct = a
        <3>1. plan.amts[i][c] = RSub(Moved(plan, i, c, "buy"), Moved(plan, i, c, "sell"))
            BY <1>1, <2>4, PostingTracks
        <3>2. QED
            BY <2>2, <2>3, <2>4, <3>1, ZeroNum DEF Moved
    <2>5. CASE t.postings[i].acct # a
        <3>1. RSub(Zero, Zero) = Zero
            BY SubZero, ZeroNum
        <3>2. QED
            BY <2>3, <2>5, <3>1, ZeroNum
    <2>6. QED
        BY <2>4, <2>5
<1>7. /\ leg = [i \in 1..n |-> leg[i]]
      /\ buy = [i \in 1..n |-> buy[i]]
      /\ sell = [i \in 1..n |-> sell[i]]
    BY <1>1 DEF Legs
<1>8. Added(legs, a, c) = RSum(leg)
    BY DEF Added
<1>9. legs \in Seq(Leg)
    BY <1>1, LegsType
<1>10. BookTxn(e, t).bal[a][c] = RAdd(e.bal[a][c], Added(legs, a, c)) /\ Added(legs, a, c) \in Num
    BY <1>1, <1>9, JournaledIs, AddBalIs, AddedNum
<1> HIDE DEF legs, leg, buy, sell, plan, n
<1>11. RSum(leg) = RSub(RSum(buy), RSum(sell))
    <2>1. buy \in [1..n -> Num] /\ sell \in [1..n -> Num] /\ leg \in [1..n -> Num]
        <3>1. \A i \in 1..n : leg[i] \in Num
            BY <1>6, SubNum
        <3>2. QED
            BY <1>6, <1>7, <3>1
    <2>2. QED
        BY <1>1, <1>6, <2>1, SumMinus
<1>12. QED
    BY <1>2, <1>4, <1>5, <1>8, <1>10, <1>11, SubSelf

----------------------------------------------------------------------------
(* Cost: what a booked transaction moves into and out of the lots. *)

(* The cost of a lot in commodity c, and what an operation adds to it.     *)
LotCost(lot, c) == IF lot.costComm = c THEN lot.cost ELSE Zero
CostIn(op, c) ==
    IF op.costComm = c
    THEN IF op.kind = "buy" THEN op.total ELSE IF op.kind = "sell" THEN RNeg(op.total) ELSE Zero
    ELSE Zero

LEMMA CostInNum ==
    ASSUME NEW op \in Operation, NEW c
    PROVE  CostIn(op, c) \in Num
<1>1. op.total \in Num
    BY DEF Operation
<1>2. RNeg(op.total) \in Num
    BY <1>1, NegNum
<1>3. QED
    BY <1>1, <1>2, ZeroNum DEF CostIn

(* A planned sale removes cost at the average of the lot held before.      *)
LEMMA PlannedSell ==
    ASSUME NEW e, e.inv \in Lots, NEW t \in Transaction, NEW i \in DOMAIN t.postings, NEW c \in Commodities,
           NEW op, op = Plan(e, t).ops[i][c], op.kind = "sell"
    PROVE  op = SellOp(op.units, e.inv[t.postings[i].acct][c])
<1> DEFINE p == t.postings[i]
           pos == e.inv[p.acct][c]
           n == Plan(e, t).amts[i][c]
<1>1. NoOp.kind # "sell" /\ \A m, cost : BuyOp(m, cost).kind # "sell"
    BY DEF NoOp, BuyOp
<1>2. \A m : SellOp(m, pos).units = m
    BY DEF SellOp
<1>3. CASE i \in Given(t)
    <2>1. c = p.units.comm /\ op = PlanOp(e, p) /\ p.units.n \in Num
        BY <1>1, <1>3, PlannedOp, GivenParts
    <2>2. op = SellOp(RNeg(p.units.n), pos)
        BY <1>1, <2>1, Signs, PlanOpIs
    <2>3. QED
        BY <1>2, <2>2
<1>4. CASE i \in Residual(t)
    <2>1. op = ResidualOp(e, t, Explicit(e, t), p.acct, c, n)
        BY <1>4, PlannedOp
    <2>2. op = SellOp(RNeg(n), pos)
        BY <1>1, <2>1 DEF ResidualOp
    <2>3. QED
        BY <1>2, <2>2
<1>5. CASE i \notin Given(t) \cup Residual(t)
    BY <1>1, <1>5, PlannedOp
<1>6. QED
    BY <1>3, <1>4, <1>5

LEMMA NothingMoved ==
    ASSUME NEW t \in Transaction, NEW plan \in Plans(t), NEW kind \in {"buy", "sell"},
           NEW a \in Accounts, NEW c \in Commodities, NEW n, n = Len(t.postings),
           \A i \in 1..n : ~(t.postings[i].acct = a /\ plan.ops[i][c].kind = kind)
    PROVE  Net(t, plan, kind, "units", a, c, n) = Zero /\ Net(t, plan, kind, "total", a, c, n) = Zero
<1>1. n \in 0..Len(t.postings)
    BY GivenParts
<1>2. Net(t, plan, kind, "units", a, c, n) = Zero
    BY <1>1, BoughtBy
<1>3. QED
    BY <1>1, <1>2, NetUnits

(* What is sold but not bought was held.                                   *)
LEMMA HeldIfSold ==
    ASSUME NEW e, e.inv \in Lots, NEW t \in Transaction, NEW plan \in Plans(t), Oversold(e, t, plan) = {},
           NEW a \in Accounts, NEW c \in Commodities,
           \A j \in DOMAIN t.postings : ~(t.postings[j].acct = a /\ plan.ops[j][c].kind = "buy"),
           NEW i \in DOMAIN t.postings, t.postings[i].acct = a, plan.ops[i][c].kind = "sell"
    PROVE  HasPosition(e, a, c)
<1> DEFINE n == Len(t.postings)
           u == e.inv[a][c].units
           B == Net(t, plan, "buy", "units", a, c, n)
           S == Net(t, plan, "sell", "units", a, c, n)
<1>1. n \in 0..n /\ DOMAIN t.postings = 1..n
    BY GivenParts
<1>2. u \in Num /\ S \in Num /\ RNonNeg(S) /\ S # Zero
    BY <1>1, LotParts, NetUnits
<1>3. B = Zero
    BY <1>1, NothingMoved
<1>4. ~(RPositive(S) /\ ~RLe(S, RAdd(u, B)))
    <2>1. <<a, c>> \in Accounts \X Commodities
        OBVIOUS
    <2>2. <<a, c>> \notin Oversold(e, t, plan)
        OBVIOUS
    <2>3. QED
        BY <2>1, <2>2 DEF Oversold
<1>5. RPositive(S)
    BY <1>2, NumParts DEF RPositive, RNonNeg
<1>6. RLe(S, u)
    BY <1>2, <1>3, <1>4, <1>5, AddNothing
<1>7. u # Zero
    BY <1>2, <1>5, <1>6, NumParts DEF RLe, RPositive, Zero, RInt
<1>8. QED
    BY <1>7 DEF HasPosition

Clashless(e, t) == \A i \in Given(t) : ~CostCommMismatch(e, t, Plan(e, t), i)

(* The commodity r a lot starts in: the one it is held in, or, when        *)
(* nothing is held, that of the first of the buys.                         *)
StartsIn(r, e, t, a, c, buys) ==
    IF HasPosition(e, a, c) THEN r = e.inv[a][c].costComm
    ELSE buys # {} => \E f \in buys : Plan(e, t).ops[f][c].costComm = r /\ \A i \in buys : f <= i

(* Without a clash, every explicit buy of a lot is in the commodity the    *)
(* lot starts in.                                                          *)
LEMMA ExplicitBuysAgree ==
    ASSUME NEW e, e.inv \in Lots, Sound(e.inv), InCommodity(e.inv), NEW t \in Transaction, Faultless(e, t),
           Clashless(e, t),
           NEW a \in Accounts, NEW c \in Commodities, NEW n, n = Len(t.postings),
           NEW buys, buys = BuysOf(t, Plan(e, t), a, c, n),
           NEW r, StartsIn(r, e, t, a, c, buys)
    PROVE  \A i \in buys : Plan(e, t).ops[i][c].costComm = r
<1> DEFINE plan == Plan(e, t)
           odd == {i \in buys : plan.ops[i][c].costComm # r}
<1>1. /\ plan \in Plans(t) /\ n \in Nat /\ DOMAIN t.postings = 1..n
      /\ buys \subseteq 1..n
    BY PlanType, GivenParts DEF BuysOf
<1>2. \A i \in buys : /\ i \in Given(t) /\ t.postings[i].acct = a /\ plan.ops[i][c].kind = "buy"
                      /\ plan.ops[i][c].costComm # NoComm
    BY <1>1, PlannedBuys, CommoditiesAssumption DEF BuysOf
<1>3. SUFFICES ASSUME odd # {} PROVE FALSE
    OBVIOUS
<1>4. PICK j \in odd : \A m \in odd : j <= m
    <2>1. odd \in SUBSET Nat
        BY <1>1
    <2> HIDE DEF odd
    <2>2. QED
        BY <1>3, <2>1, LeastNat
<1>5. j \in buys /\ plan.ops[j][c].costComm # r /\ j - 1 \in 0..n /\ j \in 1..n
    BY <1>1, <1>4
<1> DEFINE before == BuysOf(t, plan, a, c, j - 1)
           comm == CostCommAfter(e, t, plan, a, c, j - 1)
           net == Net(t, plan, "buy", "units", a, c, j - 1)
           u == e.inv[a][c].units
<1>6. before \subseteq buys /\ \A i \in before : i < j /\ plan.ops[i][c].costComm = r
    <2>1. before \subseteq buys /\ \A i \in before : i < j
        BY <1>1, <1>5 DEF BuysOf
    <2>2. QED
        BY <1>1, <1>4, <1>5, <2>1
<1>7. c = t.postings[j].units.comm
    <2>1. NoOp.kind # "buy"
        BY DEF NoOp
    <2>2. QED
        BY <1>1, <1>2, <1>5, <2>1, PlannedOp
<1>8. ~(comm # NoComm /\ comm # plan.ops[j][c].costComm /\ RAdd(u, net) # Zero)
    <2>1. t.postings[j].acct = a /\ j \in Given(t) /\ plan.ops[j][c].kind = "buy"
        BY <1>2, <1>5
    <2>2. ~CostCommMismatch(e, t, plan, j)
        BY <2>1 DEF Clashless
    <2>3. QED
        BY <1>7, <2>1, <2>2 DEF CostCommMismatch
<1>9. u \in Num /\ RNonNeg(u) /\ net \in Num /\ RNonNeg(net)
      /\ (RAdd(u, net) = Zero => u = Zero /\ net = Zero)
    BY <1>1, <1>5, LotParts, NetUnits, AddNum DEF Sound
<1>10. before # {} => comm = r /\ r # NoComm
    <2>1. SUFFICES ASSUME before # {} PROVE comm = r /\ r # NoComm
        OBVIOUS
    <2>2. Max(before) \in before
        <3>1. before \in SUBSET (1..n)
            BY <1>1, <1>6
        <3> HIDE DEF before
        <3>2. QED
            BY <1>1, <2>1, <3>1, MaxIsIn
    <2>3. comm = plan.ops[Max(before)][c].costComm
        BY <2>1 DEF CostCommAfter
    <2>4. QED
        BY <1>2, <1>6, <2>2, <2>3
<1>11. CASE HasPosition(e, a, c)
    <2>1. u # Zero /\ r = e.inv[a][c].costComm /\ r # NoComm
        BY <1>11 DEF HasPosition, InCommodity, StartsIn
    <2>2. before = {} => comm = r
        BY <2>1 DEF CostCommAfter
    <2>3. QED
        BY <1>5, <1>8, <1>9, <1>10, <2>1, <2>2
<1>12. CASE ~HasPosition(e, a, c)
    <2>1. PICK f \in buys : plan.ops[f][c].costComm = r /\ \A i \in buys : f <= i
        BY <1>5, <1>12 DEF StartsIn
    <2>2. f \in 1..n /\ f <= j /\ f # j /\ j \in 1..n
        BY <1>1, <1>5, <2>1
    <2>3. f \in 1..(j - 1)
        BY <1>1, <2>2
    <2>4. f \in before
        BY <1>2, <2>3 DEF BuysOf
    <2>5. net # Zero
        BY <1>1, <1>2, <1>5, <2>3, NetUnits
    <2>6. QED
        BY <1>5, <1>8, <1>9, <1>10, <2>4, <2>5
<1>13. QED
    BY <1>11, <1>12

(* A lot's buys are all in the commodity the lot has afterwards, the one   *)
(* it was held in.                                                         *)
LEMMA BuysAgree ==
    ASSUME NEW e, e.inv \in Lots, Sound(e.inv), InCommodity(e.inv), NEW t \in Transaction, Faultless(e, t),
           Clashless(e, t),
           NEW a \in Accounts, NEW c \in Commodities, NEW n, n = Len(t.postings),
           NEW after, after = CostCommAfter(e, t, Plan(e, t), a, c, n)
    PROVE  /\ HasPosition(e, a, c) => after = e.inv[a][c].costComm
           /\ \A i \in 1..n : t.postings[i].acct = a /\ Plan(e, t).ops[i][c].kind = "buy" =>
                Plan(e, t).ops[i][c].costComm = after
<1> DEFINE plan == Plan(e, t)
<1>1. PICK buys : buys = BuysOf(t, plan, a, c, n)
    OBVIOUS
<1>2. /\ n \in Nat /\ DOMAIN t.postings = 1..n /\ buys \in SUBSET (1..n)
      /\ after = IF buys = {} THEN e.inv[a][c].costComm ELSE plan.ops[Max(buys)][c].costComm
    BY <1>1, GivenParts DEF BuysOf, CostCommAfter
<1>3. buys # {} => Max(buys) \in buys
    BY <1>2, MaxIsIn
<1>4. \E r : StartsIn(r, e, t, a, c, buys)
    <2>1. CASE HasPosition(e, a, c) \/ buys = {}
        BY <2>1 DEF StartsIn
    <2>2. CASE ~HasPosition(e, a, c) /\ buys # {}
        <3>1. buys \in SUBSET Nat
            BY <1>2
        <3>2. PICK f \in buys : \A i \in buys : f <= i
            BY <2>2, <3>1, LeastNat
        <3>3. StartsIn(plan.ops[f][c].costComm, e, t, a, c, buys)
            BY <2>2, <3>2 DEF StartsIn
        <3>4. QED
            BY <3>3
    <2>3. QED
        BY <2>1, <2>2
<1>5. PICK r : StartsIn(r, e, t, a, c, buys)
    BY <1>4
<1>6. \A i \in buys : plan.ops[i][c].costComm = r
    BY <1>1, <1>5, ExplicitBuysAgree
<1>7. HasPosition(e, a, c) => after = e.inv[a][c].costComm
    BY <1>2, <1>3, <1>5, <1>6 DEF StartsIn
<1>8. ASSUME NEW i \in 1..n, t.postings[i].acct = a, plan.ops[i][c].kind = "buy"
      PROVE  plan.ops[i][c].costComm = after
    <2>1. CASE i \in Given(t)
        <3>1. i \in buys
            BY <1>1, <1>8, <2>1 DEF BuysOf
        <3>2. QED
            BY <1>2, <1>3, <1>6, <3>1
    <2>2. CASE i \notin Given(t)
        <3>1. HasPosition(e, a, c)
            BY <1>2, <1>8, <2>2, PlannedBuys
        <3>2. NoOp.kind # "buy" /\ \A m, pos : SellOp(m, pos).kind # "buy"
            BY DEF NoOp, SellOp
        <3>3. i \in Residual(t)
            BY <1>2, <1>8, <2>2, <3>2, PlannedOp
        <3>4. plan.ops[i][c] = ResidualOp(e, t, Explicit(e, t), a, c, plan.amts[i][c])
            BY <1>2, <1>8, <3>3, PlannedOp
        <3>5. plan.ops[i][c].costComm = e.inv[a][c].costComm
            BY <1>8, <3>2, <3>4 DEF ResidualOp, BuyOp
        <3>6. QED
            BY <1>7, <3>1, <3>5
    <2>3. QED
        BY <2>1, <2>2
<1>9. QED
    BY <1>7, <1>8

(* What the postings of a transaction add to the cost of a lot in c.       *)
Costs(t, plan, a, k, c) ==
    [i \in 1..Len(t.postings) |->
        IF t.postings[i].acct = a THEN CostIn(plan.ops[i][k], c) ELSE Zero]

LEMMA CostsType ==
    ASSUME NEW t \in Transaction, NEW plan \in Plans(t), NEW a, NEW k \in Commodities, NEW c
    PROVE  Costs(t, plan, a, k, c) \in [1..Len(t.postings) -> Num]
<1>1. ASSUME NEW i \in 1..Len(t.postings)
      PROVE  CostIn(plan.ops[i][k], c) \in Num
    <2>1. plan.ops[i][k] \in Operation
        BY GivenParts DEF Plans
    <2>2. QED
        BY <2>1, CostInNum
<1>2. QED
    BY <1>1, ZeroNum DEF Costs

(* The totals of one kind of operation on a lot. *)
Totalled(t, plan, kind, a, k) ==
    [i \in 1..Len(t.postings) |->
        IF t.postings[i].acct = a /\ plan.ops[i][k].kind = kind THEN plan.ops[i][k]["total"] ELSE Zero]

LEMMA TotalledIs ==
    ASSUME NEW t \in Transaction, NEW plan \in Plans(t), NEW kind, NEW a, NEW k \in Commodities
    PROVE  /\ Totalled(t, plan, kind, a, k) \in [1..Len(t.postings) -> Num]
           /\ Net(t, plan, kind, "total", a, k, Len(t.postings)) = RSum(Totalled(t, plan, kind, a, k))
<1>1. ASSUME NEW i \in 1..Len(t.postings)
      PROVE  plan.ops[i][k]["total"] \in Num
    <2>1. plan.ops[i][k] \in Operation
        BY GivenParts DEF Plans
    <2>2. QED
        BY <2>1 DEF Operation
<1>2. QED
    BY <1>1, ZeroNum DEF Totalled, Net

(* A lot that is bought only costs what it did and what is bought.         *)
LEMMA BoughtLotCosts ==
    ASSUME NEW e, e.inv \in Lots, Sound(e.inv), InCommodity(e.inv), NEW t \in Transaction,
           Faultless(e, t), Clashless(e, t),
           NEW a \in Accounts, NEW k \in Commodities, NEW c \in Commodities,
           \A i \in 1..Len(t.postings) :
                ~(t.postings[i].acct = a /\ Plan(e, t).ops[i][k].kind = "sell"),
           NEW new, new = InvAfterSells(InvAfterBuys(e, t, Plan(e, t), Len(t.postings)),
                                        t, Plan(e, t))[a][k]
    PROVE  LotCost(new, c) =
             RAdd(LotCost(e.inv[a][k], c), RSum(Costs(t, Plan(e, t), a, k, c)))
<1> DEFINE plan == Plan(e, t)
           n == Len(t.postings)
           pos == e.inv[a][k]
           after == CostCommAfter(e, t, plan, a, k, n)
           B == Net(t, plan, "buy", "total", a, k, n)
<1>1. plan \in Plans(t) /\ n \in Nat /\ n \in 0..n /\ pos.cost \in Num /\ B \in Num
    BY PlanType, GivenParts, LotParts, NetUnits
<1>2. new.cost = RAdd(pos.cost, B) /\ new.costComm = after
    <2>1. /\ Net(t, plan, "sell", "units", a, k, n) = Zero
          /\ Net(t, plan, "sell", "total", a, k, n) = Zero
        BY <1>1, NothingMoved
    <2>2. /\ new.cost = RSub(RAdd(pos.cost, B), Zero)
          /\ new.costComm = after
        BY <1>1, <2>1, LotAfter
    <2>3. QED
        BY <1>1, <2>2, AddNum, SubNothing
<1>3. LotCost(pos, c) = IF after = c THEN pos.cost ELSE Zero
    <2>1. CASE HasPosition(e, a, k)
        BY <2>1, BuysAgree DEF LotCost
    <2>2. CASE ~HasPosition(e, a, k)
        BY <2>2 DEF LotCost, HasPosition, Sound
    <2>3. QED
        BY <2>1, <2>2
<1>4. RSum(Costs(t, plan, a, k, c)) = IF after = c THEN B ELSE Zero
    <2>1. ASSUME NEW i \in 1..n
          PROVE  Costs(t, plan, a, k, c)[i] =
                    IF after = c THEN Totalled(t, plan, "buy", a, k)[i] ELSE Zero
        <3>1. CASE t.postings[i].acct = a /\ plan.ops[i][k].kind = "buy"
            <4>1. plan.ops[i][k].costComm = after
                BY <3>1, BuysAgree
            <4>2. QED
                BY <3>1, <4>1 DEF Costs, CostIn, Totalled
        <3>2. CASE ~(t.postings[i].acct = a /\ plan.ops[i][k].kind = "buy")
            <4>1. ~(t.postings[i].acct = a /\ plan.ops[i][k].kind = "sell")
                OBVIOUS
            <4>2. QED
                BY <3>2, <4>1 DEF Costs, CostIn, Totalled
        <3>3. QED
            BY <3>1, <3>2
    <2>2. CASE after = c
        <3>1. Costs(t, plan, a, k, c) = Totalled(t, plan, "buy", a, k)
            BY <2>1, <2>2 DEF Costs, Totalled
        <3>2. QED
            BY <1>1, <2>2, <3>1, TotalledIs
    <2>3. CASE after # c
        <3>1. PICK f : f = Costs(t, plan, a, k, c)
            OBVIOUS
        <3>2. f = [i \in 1..n |-> f[i]] /\ \A i \in 1..n : f[i] = Zero
            BY <2>1, <2>3, <3>1 DEF Costs
        <3>3. QED
            BY <1>1, <2>3, <3>1, <3>2, SumTermsZero
    <2>4. QED
        BY <2>2, <2>3
<1>5. CASE after = c
    BY <1>2, <1>3, <1>4, <1>5 DEF LotCost
<1>6. CASE after # c
    BY <1>2, <1>3, <1>4, <1>6, AddZero DEF LotCost
<1>7. QED
    BY <1>5, <1>6

(* What is sold of a lot leaves it at the lot's average: all of the cost   *)
(* when all of the units go.                                               *)
LEMMA SoldAtAverage ==
    ASSUME NEW e, e.inv \in Lots, NEW t \in Transaction, NEW a \in Accounts, NEW k \in Commodities,
           HasPosition(e, a, k)
    PROVE  /\ \A i \in 1..Len(t.postings) :
                t.postings[i].acct = a /\ Plan(e, t).ops[i][k].kind = "sell" =>
                    Plan(e, t).ops[i][k].costComm = e.inv[a][k].costComm
           /\ Net(t, Plan(e, t), "sell", "total", a, k, Len(t.postings)) =
                RMul(Net(t, Plan(e, t), "sell", "units", a, k, Len(t.postings)), Avg(e.inv[a][k]))
<1> DEFINE plan == Plan(e, t)
           n == Len(t.postings)
           pos == e.inv[a][k]
           units == [i \in 1..n |-> IF t.postings[i].acct = a /\ plan.ops[i][k].kind = "sell"
                                    THEN plan.ops[i][k]["units"] ELSE Zero]
           total == Totalled(t, plan, "sell", a, k)
<1>1. /\ plan \in Plans(t) /\ n \in Nat /\ DOMAIN t.postings = 1..n /\ Avg(pos) \in Num
      /\ pos.units # Zero
    BY PlanType, GivenParts, LotParts, AvgNum DEF HasPosition
<1>2. ASSUME NEW i \in 1..n, t.postings[i].acct = a, plan.ops[i][k].kind = "sell"
      PROVE  /\ plan.ops[i][k].costComm = pos.costComm
             /\ plan.ops[i][k]["total"] = RMul(plan.ops[i][k]["units"], Avg(pos))
    <2>1. plan.ops[i][k] = SellOp(plan.ops[i][k].units, pos)
        BY <1>1, <1>2, PlannedSell
    <2>2. PICK u : u = plan.ops[i][k].units
        OBVIOUS
    <2>3. plan.ops[i][k] = SellOp(u, pos)
        BY <2>1, <2>2
    <2>4. SellOp(u, pos).costComm = pos.costComm /\ SellOp(u, pos).total = RMul(u, Avg(pos))
        BY <1>1 DEF SellOp
    <2>5. QED
        BY <2>2, <2>3, <2>4
<1>3. ASSUME NEW i \in 1..n
      PROVE  units[i] \in Num /\ total[i] = RMul(units[i], Avg(pos))
    <2>1. plan.ops[i][k] \in Operation
        BY <1>1, SMTT(60) DEF Plans
    <2>2. plan.ops[i][k]["units"] \in Num
        BY <2>1 DEF Operation
    <2>3. CASE t.postings[i].acct = a /\ plan.ops[i][k].kind = "sell"
        <3>1. plan.ops[i][k]["total"] = RMul(plan.ops[i][k]["units"], Avg(pos))
            BY <1>2, <2>3
        <3>2. QED
            BY <2>2, <2>3, <3>1 DEF Totalled
    <2>4. CASE ~(t.postings[i].acct = a /\ plan.ops[i][k].kind = "sell")
        <3>1. RMul(Zero, Avg(pos)) = Zero
            BY <1>1, MulNothing
        <3>2. QED
            BY <2>4, <3>1, ZeroNum DEF Totalled
    <2>5. QED
        BY <2>3, <2>4
<1>4. units \in [1..n -> Num] /\ total \in [1..n -> Num]
    BY <1>1, <1>3, TotalledIs
<1>5. Net(t, plan, "sell", "units", a, k, n) = RSum(units)
    BY DEF Net
<1>6. Net(t, plan, "sell", "total", a, k, n) = RSum(total)
    BY <1>1, TotalledIs
<1> HIDE DEF units, total
<1>7. RSum(total) = RMul(RSum(units), Avg(pos))
    BY <1>1, <1>3, <1>4, SumScale
<1>8. QED
    BY <1>2, <1>5, <1>6, <1>7

(* A lot that is sold only costs what it did less what is sold of it.      *)
LEMMA SoldLotCosts ==
    ASSUME NEW e, e.inv \in Lots, NEW t \in Transaction,
           NEW a \in Accounts, NEW k \in Commodities, NEW c \in Commodities,
           HasPosition(e, a, k),
           \A i \in 1..Len(t.postings) :
                ~(t.postings[i].acct = a /\ Plan(e, t).ops[i][k].kind = "buy"),
           NEW new, new = InvAfterSells(InvAfterBuys(e, t, Plan(e, t), Len(t.postings)),
                                        t, Plan(e, t))[a][k]
    PROVE  LotCost(new, c) =
             RAdd(LotCost(e.inv[a][k], c), RSum(Costs(t, Plan(e, t), a, k, c)))
<1> DEFINE plan == Plan(e, t)
           n == Len(t.postings)
           pos == e.inv[a][k]
           S == Net(t, plan, "sell", "units", a, k, n)
           T == Net(t, plan, "sell", "total", a, k, n)
           left == RSub(pos.units, S)
<1>1. /\ plan \in Plans(t) /\ n \in Nat /\ n \in 0..n
      /\ pos.units \in Num /\ pos.cost \in Num /\ S \in Num /\ T \in Num
    BY PlanType, GivenParts, LotParts, NetUnits
<1>2. pos.units # Zero /\ T = RMul(S, RDiv(pos.cost, pos.units))
    BY SoldAtAverage DEF HasPosition, Avg
<1>3. new.costComm = pos.costComm /\ new.cost = IF left = Zero /\ S # Zero THEN Zero ELSE RSub(pos.cost, T)
    <2>1. /\ Net(t, plan, "buy", "units", a, k, n) = Zero
          /\ Net(t, plan, "buy", "total", a, k, n) = Zero
        BY <1>1, NothingMoved
    <2>2. CostCommAfter(e, t, plan, a, k, n) = pos.costComm
        <3>1. BuysOf(t, plan, a, k, n) = {}
            BY DEF BuysOf
        <3>2. QED
            BY <3>1 DEF CostCommAfter
    <2>3. RAdd(pos.units, Zero) = pos.units /\ RAdd(pos.cost, Zero) = pos.cost
        BY <1>1, AddNothing
    <2>4. PICK rest : rest = RSub(RAdd(pos.units, Net(t, plan, "buy", "units", a, k, n)), S)
        OBVIOUS
    <2>5. /\ new.cost = IF rest = Zero /\ S # Zero THEN Zero
                        ELSE RSub(RAdd(pos.cost, Net(t, plan, "buy", "total", a, k, n)), T)
          /\ new.costComm = CostCommAfter(e, t, plan, a, k, n)
        BY <1>1, <2>4, LotAfter
    <2>6. rest = left
        BY <2>1, <2>3, <2>4
    <2>7. QED
        BY <2>1, <2>2, <2>3, <2>5, <2>6
<1>4. new.cost = RSub(pos.cost, T)
    <2>1. SUFFICES ASSUME left = Zero PROVE RSub(pos.cost, T) = Zero
        BY <1>3
    <2>2. S = pos.units
        BY <1>1, <2>1, AddBack, AddNothing
    <2>3. T = pos.cost
        BY <1>1, <1>2, <2>2, DivBack
    <2>4. QED
        BY <1>1, <2>3, AddNeg DEF RSub
<1>5. RSum(Costs(t, plan, a, k, c)) = IF pos.costComm = c THEN RNeg(T) ELSE Zero
    <2> DEFINE total == Totalled(t, plan, "sell", a, k)
               costs == Costs(t, plan, a, k, c)
               none == [i \in 1..n |-> Zero]
    <2>1. ASSUME NEW i \in 1..n
          PROVE  costs[i] = IF pos.costComm = c THEN RNeg(total[i]) ELSE Zero
        <3>1. RNeg(Zero) = Zero
            BY NegZero
        <3>2. CASE t.postings[i].acct = a /\ plan.ops[i][k].kind = "sell"
            <4>1. plan.ops[i][k].costComm = pos.costComm
                BY <3>2, SoldAtAverage
            <4>2. QED
                BY <3>1, <3>2, <4>1 DEF Costs, CostIn, Totalled
        <3>3. CASE ~(t.postings[i].acct = a /\ plan.ops[i][k].kind = "sell")
            <4>1. ~(t.postings[i].acct = a /\ plan.ops[i][k].kind = "buy")
                OBVIOUS
            <4>2. QED
                BY <3>1, <3>3, <4>1 DEF Costs, CostIn, Totalled
        <3>4. QED
            BY <3>2, <3>3
    <2>2. /\ total \in [1..n -> Num] /\ RSum(total) = T /\ costs \in [1..n -> Num]
          /\ none \in [1..n -> Num]
        BY <1>1, ZeroNum, TotalledIs, CostsType
    <2>3. none = [i \in 1..n |-> none[i]] /\ \A i \in 1..n : none[i] = Zero
        OBVIOUS
    <2> HIDE DEF total, costs, none
    <2>4. RSum(none) = Zero
        BY <1>1, <2>3, SumTermsZero
    <2>5. CASE pos.costComm = c
        <3>1. \A i \in 1..n : costs[i] = RSub(none[i], total[i])
            <4>1. ASSUME NEW i \in 1..n
                  PROVE  costs[i] = RSub(none[i], total[i])
                <5>1. total[i] \in Num
                    BY <2>2
                <5>2. RSub(Zero, total[i]) = RNeg(total[i])
                    BY <5>1, NegNum, AddNothing DEF RSub
                <5>3. QED
                    BY <2>1, <2>3, <2>5, <5>2
            <4>2. QED
                BY <4>1
        <3>2. RSum(costs) = RSub(RSum(none), RSum(total))
            BY <1>1, <2>2, <3>1, SumMinus, ZenonT(60)
        <3>3. RSub(Zero, T) = RNeg(T)
            BY <1>1, NegNum, AddNothing DEF RSub
        <3>4. QED
            BY <2>2, <2>4, <2>5, <3>2, <3>3 DEF costs
    <2>6. CASE pos.costComm # c
        <3>1. costs = [i \in 1..n |-> costs[i]] /\ \A i \in 1..n : costs[i] = Zero
            BY <2>1, <2>2, <2>6
        <3>2. RSum(costs) = Zero
            BY <1>1, <3>1, SumTermsZero
        <3>3. QED
            BY <2>6, <3>2 DEF costs
    <2>7. QED
        BY <2>5, <2>6
<1>6. CASE pos.costComm = c
    BY <1>3, <1>4, <1>5, <1>6 DEF LotCost, RSub
<1>7. CASE pos.costComm # c
    BY <1>3, <1>5, <1>7, AddZero DEF LotCost
<1>8. QED
    BY <1>6, <1>7

(* No lot of account a in commodity k is both bought and sold.             *)
OneWay(t, plan, a, k) ==
    ~\E i, j \in DOMAIN t.postings :
        /\ t.postings[i].acct = a /\ t.postings[j].acct = a
        /\ plan.ops[i][k].kind = "buy" /\ plan.ops[j][k].kind = "sell"

(* A transaction that does not buy and sell a lot at once moves what the   *)
(* lot costs by what its postings say they move.                           *)
LEMMA LotCostMoves ==
    ASSUME NEW e \in Engine, Sound(e.inv), InCommodity(e.inv), NEW t \in Transaction, Journaled(e, t),
           NEW a \in Accounts, NEW k \in Commodities, NEW c \in Commodities,
           OneWay(t, Plan(e, t), a, k)
    PROVE  LotCost(BookTxn(e, t).inv[a][k], c) =
             RAdd(LotCost(e.inv[a][k], c), RSum(Costs(t, Plan(e, t), a, k, c)))
<1>1. e.inv \in Lots /\ Plan(e, t) \in Plans(t) /\ DOMAIN t.postings = 1..Len(t.postings)
    BY PlanType, GivenParts DEF Engine
<1>2. /\ Faultless(e, t) /\ Oversold(e, t, Plan(e, t)) = {} /\ Clashless(e, t)
      /\ BookTxn(e, t).inv = InvAfterSells(InvAfterBuys(e, t, Plan(e, t), Len(t.postings)), t, Plan(e, t))
    BY JournaledIs DEF Clashless
<1>3. CASE \A i \in 1..Len(t.postings) :
                ~(t.postings[i].acct = a /\ Plan(e, t).ops[i][k].kind = "sell")
    BY <1>1, <1>2, <1>3, BoughtLotCosts
<1>4. CASE \E i \in 1..Len(t.postings) :
                t.postings[i].acct = a /\ Plan(e, t).ops[i][k].kind = "sell"
    <2>1. \A j \in DOMAIN t.postings : ~(t.postings[j].acct = a /\ Plan(e, t).ops[j][k].kind = "buy")
        BY <1>1, <1>4 DEF OneWay
    <2>2. HasPosition(e, a, k)
        BY <1>1, <1>2, <1>4, <2>1, HeldIfSold
    <2>3. QED
        BY <1>1, <1>2, <2>1, <2>2, SoldLotCosts
<1>5. QED
    BY <1>3, <1>4

----------------------------------------------------------------------------
(* Weight: what the postings must sum to, and what they book. *)

Demand(e, t)    == FaceCurrencyDemand(t, Given(t), Bases(e, t))
Weight(e, t, i) == LegWeight(t.postings[i], Bases(e, t)[i], Demand(e, t))
Weighed(e, t, c) ==
    [i \in 1..Len(t.postings) |->
        IF i \in Given(t) /\ Weight(e, t, i).comm = c THEN Weight(e, t, i).n ELSE Zero]

AtOwnFace(e, t, i) == CashFaceWeight(t.postings[i], Bases(e, t)[i], Demand(e, t))
Converted(e, t, i) ==
    /\ ~Costed(Bases(e, t)[i])
    /\ t.postings[i].price.kind # "none" \/ t.postings[i].cost.kind = "unit"

LEMMA WeighedIs ==
    ASSUME NEW e, e.inv \in Lots, NEW t \in Transaction, NEW c \in Commodities
    PROVE  /\ Weighed(e, t, c) \in [1..Len(t.postings) -> Num]
           /\ Totals(e, t)[c] = RSum(Weighed(e, t, c))
<1> DEFINE weight == [i \in DOMAIN t.postings |->
                        IF i \in Given(t) THEN LegWeight(t.postings[i], Bases(e, t)[i], Demand(e, t))
                                          ELSE [comm |-> NoComm, n |-> Zero]]
           term == [i \in DOMAIN weight |-> IF weight[i].comm = c THEN weight[i].n ELSE Zero]
<1>1. DOMAIN t.postings = 1..Len(t.postings)
    BY GivenParts
<1>2. Totals(e, t)[c] = RSum(term)
    BY DEF Totals, WeightTotals, Demand
<1>3. ASSUME NEW i \in 1..Len(t.postings)
      PROVE  term[i] = Weighed(e, t, c)[i] /\ Weighed(e, t, c)[i] \in Num
    <2>1. CASE i \in Given(t)
        <3>1. t.postings[i] \in Posting /\ t.postings[i].units.kind = "amount" /\ Bases(e, t)[i] \in BasisOf
            BY <1>1, <2>1, GivenParts, ExplicitType
        <3>2. Weight(e, t, i) \in [comm : Currency, n : Num]
            BY <3>1, WeightType DEF Weight
        <3>3. weight[i] = Weight(e, t, i)
            BY <1>1, <2>1 DEF Weight
        <3> HIDE DEF weight
        <3>4. term[i] = IF weight[i].comm = c THEN weight[i].n ELSE Zero
            BY <1>1 DEF weight
        <3>5. Weighed(e, t, c)[i] = IF Weight(e, t, i).comm = c THEN Weight(e, t, i).n ELSE Zero
            BY <2>1 DEF Weighed
        <3>6. QED
            BY <3>2, <3>3, <3>4, <3>5, ZeroNum
    <2>2. CASE i \notin Given(t)
        BY <1>1, <2>2, ZeroNum, CommoditiesAssumption DEF Weighed
    <2>3. QED
        BY <2>1, <2>2
<1>4. term = Weighed(e, t, c)
    BY <1>1, <1>3 DEF Weighed
<1>5. Weighed(e, t, c) \in [1..Len(t.postings) -> Num]
    BY <1>3 DEF Weighed
<1>6. QED
    BY <1>2, <1>4, <1>5

(* The weight of an explicit posting that is not a bare conversion.        *)
LEMMA GivenWeight ==
    ASSUME NEW e, e.inv \in Lots, NEW t \in Transaction, NEW i \in Given(t), ~Converted(e, t, i),
           NEW p, p = t.postings[i], NEW op, op = PlanOp(e, p)
    PROVE  /\ AtOwnFace(e, t, i) => Costed(Bases(e, t)[i])
           /\ Costed(Bases(e, t)[i]) <=> op.kind # "none" /\ op.costComm # NoComm
           /\ AtOwnFace(e, t, i) \/ ~Costed(Bases(e, t)[i]) =>
                Weight(e, t, i) = [comm |-> p.units.comm, n |-> p.units.n]
           /\ ~AtOwnFace(e, t, i) /\ Costed(Bases(e, t)[i]) =>
                Weight(e, t, i) = [comm |-> op.costComm,
                                   n |-> IF op.kind = "buy" THEN op.total ELSE RNeg(op.total)]
<1>1. PICK basis \in BasisOf : basis = Bases(e, t)[i] /\ basis = Basis(op)
    BY GivenParts, ExplicitType, ZenonT(60) DEF Bases, Explicit
<1>2. op \in Operation /\ p \in Posting /\ p.units.kind = "amount"
    BY GivenParts, ExplicitType DEF Explicit
<1>3. /\ op.kind = "none" => basis = NoBasis
      /\ op.kind = "buy" => basis = [set |-> TRUE, n |-> op.total, comm |-> op.costComm]
      /\ op.kind = "sell" => basis = [set |-> TRUE, n |-> RNeg(op.total), comm |-> op.costComm]
      /\ op.kind \in {"none", "buy", "sell"}
    BY <1>1, <1>2 DEF Basis, Operation
<1>4. Costed(basis) <=> op.kind # "none" /\ op.costComm # NoComm
    BY <1>3 DEF Costed, NoBasis
<1>5. AtOwnFace(e, t, i) = CashFaceWeight(p, basis, Demand(e, t))
    BY <1>1 DEF AtOwnFace
<1>6. Weight(e, t, i) = LegWeight(p, basis, Demand(e, t))
    BY <1>1 DEF Weight
<1>7. AtOwnFace(e, t, i) => Costed(basis)
    BY <1>5 DEF CashFaceWeight
<1>8. ~Costed(basis) => PostingWeight(p, basis) = [comm |-> p.units.comm, n |-> p.units.n]
    <2>1. SUFFICES ASSUME ~Costed(basis)
                   PROVE  PostingWeight(p, basis) = [comm |-> p.units.comm, n |-> p.units.n]
        OBVIOUS
    <2>2. p.price.kind = "none" /\ p.cost.kind # "unit"
        BY <1>1, <2>1 DEF Converted
    <2>3. QED
        BY <2>1, <2>2 DEF PostingWeight
<1>9. Costed(basis) => PostingWeight(p, basis) = [comm |-> basis.comm, n |-> basis.n]
    BY DEF PostingWeight
<1>10. /\ AtOwnFace(e, t, i) => Weight(e, t, i) = [comm |-> p.units.comm, n |-> p.units.n]
       /\ ~AtOwnFace(e, t, i) => Weight(e, t, i) = PostingWeight(p, basis)
    BY <1>5, <1>6 DEF LegWeight
<1>11. ASSUME ~AtOwnFace(e, t, i), Costed(basis)
       PROVE  Weight(e, t, i) = [comm |-> op.costComm,
                                 n |-> IF op.kind = "buy" THEN op.total ELSE RNeg(op.total)]
    <2>1. Weight(e, t, i) = [comm |-> basis.comm, n |-> basis.n]
        BY <1>9, <1>10, <1>11
    <2>2. op.kind = "buy" \/ op.kind = "sell"
        BY <1>3, <1>4, <1>11
    <2>3. CASE op.kind = "buy"
        <3>1. basis.comm = op.costComm /\ basis.n = op.total
            BY <1>3, <2>3
        <3>2. QED
            BY <2>1, <2>3, <3>1
    <2>4. CASE op.kind = "sell"
        <3>1. basis.comm = op.costComm /\ basis.n = RNeg(op.total)
            BY <1>3, <2>4
        <3>2. QED
            BY <2>1, <2>4, <3>1
    <2>5. QED
        BY <2>2, <2>3, <2>4
<1>12. QED
    BY <1>1, <1>4, <1>7, <1>8, <1>10, <1>11

(* What posting i books in c apart from what it moves of the lot of c.     *)
Unlotted(plan, i, c) ==
    RSub(plan.amts[i][c], RSub(Moved(plan, i, c, "buy"), Moved(plan, i, c, "sell")))

LEMMA UnlottedNum ==
    ASSUME NEW t \in Transaction, NEW plan \in Plans(t), NEW i \in DOMAIN t.postings, NEW c \in Commodities
    PROVE  /\ Moved(plan, i, c, "buy") \in Num /\ Moved(plan, i, c, "sell") \in Num
           /\ plan.amts[i][c] \in Num
           /\ Unlotted(plan, i, c) \in Num
<1>1. plan.ops[i][c] \in Operation /\ plan.amts[i][c] \in Num
    BY DEF Plans
<1>2. plan.ops[i][c].units \in Num
    BY <1>1 DEF Operation
<1>3. Moved(plan, i, c, "buy") \in Num /\ Moved(plan, i, c, "sell") \in Num
    BY <1>2, ZeroNum DEF Moved
<1>4. QED
    BY <1>1, <1>3, SubNum DEF Unlotted

LEMMA PlanOpUnits ==
    ASSUME NEW e, NEW p, p.units.n \in Num, PlanOp(e, p).kind # "none"
    PROVE  Moving(PlanOp(e, p), p.units.n)
<1>1. MovesInventory(e, p)
    BY PlanOpIs, OpNames
<1>2. QED
    BY <1>1, PlanOpMoves

(* An explicit posting that weighs at cost books its weight: what it does  *)
(* not move of a lot at face, and the lot it moves at cost.                *)
LEMMA GivenAtCost ==
    ASSUME NEW e, e.inv \in Lots, NEW t \in Transaction, NEW i \in Given(t), NEW c \in Commodities,
           ~Converted(e, t, i), ~AtOwnFace(e, t, i),
           NEW op, op = PlanOp(e, t.postings[i]), op.kind # "none" => op.costComm # NoComm
    PROVE  RAdd(Unlotted(Plan(e, t), i, c), CostIn(op, c)) = Weighed(e, t, c)[i]
<1> DEFINE p == t.postings[i]
           n == p.units.n
           plan == Plan(e, t)
           w == Weight(e, t, i)
<1>1. /\ i \in 1..Len(t.postings) /\ i \in DOMAIN t.postings /\ n \in Num /\ p.units.comm \in Commodities
      /\ op \in Operation
    BY GivenParts, ExplicitType DEF Explicit
<1>2. Weighed(e, t, c)[i] = IF w.comm = c THEN w.n ELSE Zero
    BY <1>1 DEF Weighed
<1>3. /\ plan.ops[i][c] = IF c = p.units.comm THEN op ELSE NoOp
      /\ plan.amts[i][c] = IF c = p.units.comm THEN n ELSE Zero
    BY <1>1, PlannedOp, PlannedAmount
<1>4. RSub(Zero, Zero) = Zero /\ NoOp.kind = "none" /\ RSub(n, Zero) = n
    BY <1>1, SubZero, ZeroNum, SubNothing DEF NoOp
<1>5. c # p.units.comm => Unlotted(plan, i, c) = Zero
    BY <1>3, <1>4 DEF Unlotted, Moved
<1>6. CASE op.kind = "none"
    <2>1. w = [comm |-> p.units.comm, n |-> n]
        BY <1>6, GivenWeight
    <2>2. c = p.units.comm => Unlotted(plan, i, c) = n
        BY <1>3, <1>4, <1>6 DEF Unlotted, Moved
    <2>3. CostIn(op, c) = Zero
        BY <1>6 DEF CostIn
    <2>4. QED
        BY <1>1, <1>2, <1>5, <2>1, <2>2, <2>3, AddNothing, ZeroNum
<1>7. CASE op.kind # "none"
    <2>1. w = [comm |-> op.costComm, n |-> IF op.kind = "buy" THEN op.total ELSE RNeg(op.total)]
        BY <1>7, GivenWeight
    <2>2. CostIn(op, c) = Weighed(e, t, c)[i]
        <3>1. op.kind = "buy" \/ op.kind = "sell"
            BY <1>1, <1>7 DEF Operation
        <3>2. QED
            BY <1>2, <2>1, <3>1 DEF CostIn
    <2>3. c = p.units.comm => Unlotted(plan, i, c) = Zero
        <3>1. SUFFICES ASSUME c = p.units.comm
                       PROVE  RSub(n, RSub(Moved(plan, i, c, "buy"), Moved(plan, i, c, "sell"))) = Zero
            BY <1>3 DEF Unlotted
        <3>2. RSub(n, n) = Zero
            BY <1>1, AddNeg DEF RSub
        <3>3. CASE op.kind = "buy" /\ op.units = n
            BY <1>3, <1>4, <3>1, <3>2, <3>3 DEF Moved
        <3>4. CASE op.kind = "sell" /\ op.units = RNeg(n)
            <4>1. RSub(Zero, RNeg(n)) = n
                BY <1>1, NegNeg, AddNothing DEF RSub
            <4>2. QED
                BY <1>3, <3>1, <3>2, <3>4, <4>1 DEF Moved
        <3>5. QED
            BY <1>1, <1>7, <3>3, <3>4, PlanOpUnits DEF Moving
    <2>4. CostIn(op, c) \in Num
        BY <1>1, CostInNum
    <2>5. QED
        BY <1>5, <2>2, <2>3, <2>4, AddNothing
<1>8. QED
    BY <1>6, <1>7

(* An explicit posting books its weight also at the face of c, when its    *)
(* own units of c weigh at face and it moves the cost of another lot in c  *)
(* only at cost.                                                           *)
LEMMA GivenAtFace ==
    ASSUME NEW e, e.inv \in Lots, NEW t \in Transaction, NEW i \in Given(t), NEW c \in Commodities,
           ~Converted(e, t, i),
           NEW p, p = t.postings[i], NEW op, op = PlanOp(e, p),
           p.units.comm = c => AtOwnFace(e, t, i) \/ ~Costed(Bases(e, t)[i]),
           p.units.comm # c /\ AtOwnFace(e, t, i) => op.costComm # c
    PROVE  RAdd(Plan(e, t).amts[i][c], IF p.units.comm # c THEN CostIn(op, c) ELSE Zero) =
             Weighed(e, t, c)[i]
<1> DEFINE n == p.units.n
           w == Weight(e, t, i)
<1>1. /\ i \in 1..Len(t.postings) /\ i \in DOMAIN t.postings /\ n \in Num /\ op \in Operation
    BY GivenParts, ExplicitType DEF Explicit
<1>2. Weighed(e, t, c)[i] = IF w.comm = c THEN w.n ELSE Zero
    BY <1>1 DEF Weighed
<1>3. Plan(e, t).amts[i][c] = IF c = p.units.comm THEN n ELSE Zero
    BY <1>1, PlannedAmount
<1>4. CASE p.units.comm = c
    <2>1. w = [comm |-> c, n |-> n]
        BY <1>4, GivenWeight
    <2>2. QED
        BY <1>1, <1>2, <1>3, <1>4, <2>1, AddNothing
<1>5. CASE p.units.comm # c
    <2>1. CostIn(op, c) \in Num /\ RAdd(Zero, CostIn(op, c)) = CostIn(op, c)
        BY <1>1, CostInNum, AddNothing
    <2>2. SUFFICES CostIn(op, c) = Weighed(e, t, c)[i]
        BY <1>3, <1>5, <2>1, <2>2
    <2>3. CASE AtOwnFace(e, t, i) \/ ~Costed(Bases(e, t)[i])
        <3>1. w = [comm |-> p.units.comm, n |-> n]
            BY <2>3, GivenWeight
        <3>2. Weighed(e, t, c)[i] = Zero
            BY <1>2, <1>5, <3>1
        <3>3. op.kind = "none" \/ op.costComm # c
            BY <1>5, <2>3, GivenWeight, CommoditiesAssumption
        <3>4. QED
            BY <3>2, <3>3 DEF CostIn
    <2>4. CASE ~AtOwnFace(e, t, i) /\ Costed(Bases(e, t)[i])
        <3>1. w = [comm |-> op.costComm, n |-> IF op.kind = "buy" THEN op.total ELSE RNeg(op.total)]
            BY <2>4, GivenWeight
        <3>2. op.kind = "buy" \/ op.kind = "sell"
            BY <1>1, <2>4, GivenWeight DEF Operation
        <3>3. QED
            BY <1>2, <3>1, <3>2 DEF CostIn
    <2>5. QED
        BY <2>3, <2>4
<1>6. QED
    BY <1>4, <1>5

(* A faultless transaction has amounts, but for at most one elided.        *)
LEMMA FaultlessPostings ==
    ASSUME NEW e, NEW t \in Transaction, Faultless(e, t)
    PROVE  /\ 1..Len(t.postings) \subseteq Given(t) \cup Residual(t)
           /\ \A i, j \in Residual(t) : i = j
<1>1. DOMAIN t.postings = 1..Len(t.postings) /\ Len(t.postings) \in Nat
    BY GivenParts
<1>2. ASSUME NEW i \in 1..Len(t.postings)
      PROVE  i \in Given(t) \cup Residual(t)
    <2>1. t.postings[i].units \in PostingUnits /\ PostingErrors(e, t, i) = {}
        BY <1>1, GivenParts DEF Posting, Faultless
    <2>2. t.postings[i].units.kind \in {"amount", "elided", "noNumber", "noComm"}
        BY <2>1 DEF PostingUnits, Quantity
    <2>3. t.postings[i].units.kind # "noNumber" /\ t.postings[i].units.kind # "noComm"
        BY <2>1 DEF PostingErrors
    <2>4. QED
        BY <1>1, <2>2, <2>3 DEF Given, Residual
<1>3. ASSUME NEW i \in Residual(t), NEW j \in Residual(t), j < i
      PROVE  FALSE
    <2>1. PostingErrors(e, t, i) = {} /\ t.postings[i].units.kind = "elided"
          /\ t.postings[j].units.kind = "elided"
        BY <1>1 DEF Faultless, Residual
    <2>2. PostingErrors(e, t, i) =
            {Error(t.line, "multiple residual postings", NoAccount) :
                k \in {m \in 1..(i - 1) : t.postings[m].units.kind = "elided"}}
        BY <2>1 DEF PostingErrors
    <2>3. j \in 1..(i - 1)
        BY <1>1, <1>3 DEF Residual
    <2>4. QED
        BY <2>1, <2>2, <2>3
<1>4. ASSUME NEW i \in Residual(t), NEW j \in Residual(t)
      PROVE  i = j
    <2>1. i \in Nat /\ j \in Nat
        BY <1>1 DEF Residual
    <2>2. ~(j < i) /\ ~(i < j)
        BY <1>3
    <2>3. QED
        BY <2>1, <2>2
<1>5. QED
    BY <1>2, <1>4

(* A transaction booked without an error balances, or has its residual.    *)
Clean(e, t) ==
    ~\E d \in BookTxn(e, t).diags : d.line = t.line /\ d.sev = "error"

LEMMA CleanBalances ==
    ASSUME NEW e \in Engine, NEW t \in Transaction, Journaled(e, t), Clean(e, t), Residual(t) = {}
    PROVE  Off(e, t) = {}
<1>1. Checked(e, t).diags = BookTxn(e, t).diags
    BY JournaledIs
<1>2. Unbalanced(t, Plan(e, t)) \subseteq Checked(e, t).diags
    <2>1. PICK r \in Engine : r = Report(e, Checks(e, t))
        <3>1. t.line \in Nat /\ \A i \in 1..Len(t.postings) : t.postings[i].acct \in Accounts
            BY GivenParts DEF Transaction
        <3>2. Checks(e, t) \in SUBSET Diag
            BY <3>1, ChecksType DEF Checks
        <3>3. QED
            BY <3>2, Reported
    <2>2. Checked(e, t) = Report(r, Unbalanced(t, Plan(e, t)))
        BY <2>1 DEF Checked
    <2>3. QED
        BY <2>2 DEF Report, Engine
<1>3. Unbalanced(t, Plan(e, t)) = {Error(t.line, "unbalanced transaction", c) : c \in Off(e, t)}
    <2>1. Plan(e, t).off = Off(e, t)
        BY PlanIs
    <2>2. QED
        BY <2>1 DEF Unbalanced
<1>4. SUFFICES ASSUME NEW c \in Off(e, t) PROVE FALSE
    OBVIOUS
<1>5. Error(t.line, "unbalanced transaction", c) \in BookTxn(e, t).diags
    BY <1>1, <1>2, <1>3
<1>6. QED
    BY <1>5 DEF Clean, Error

(* What the postings of a clean transaction book sums to nothing, within   *)
(* the tolerance, when the explicit ones book their weights.               *)
LEMMA PartsBalance ==
    ASSUME NEW e \in Engine, NEW t \in Transaction, Journaled(e, t), Clean(e, t),
           NEW c \in Commodities, RNonNeg(e.tol[c]),
           NEW parts \in [1..Len(t.postings) -> Num],
           \A i \in Given(t) : parts[i] = Weighed(e, t, c)[i],
           \A i \in Residual(t) : parts[i] = Plan(e, t).amts[i][c]
    PROVE  RLe(RAbs(RSum(parts)), e.tol[c])
<1> DEFINE n == Len(t.postings)
           total == Totals(e, t)[c]
<1>1. /\ e.inv \in Lots /\ n \in Nat /\ DOMAIN t.postings = 1..n
      /\ Given(t) \subseteq 1..n /\ Residual(t) \subseteq 1..n /\ Given(t) \cap Residual(t) = {}
      /\ e.tol[c] \in Num
    BY GivenParts DEF Engine
<1>2. 1..n \subseteq Given(t) \cup Residual(t) /\ \A i, j \in Residual(t) : i = j
    BY JournaledIs, FaultlessPostings
<1>3. Weighed(e, t, c) \in [1..n -> Num] /\ total = RSum(Weighed(e, t, c)) /\ total \in Num
    <2>1. Weighed(e, t, c) \in [1..n -> Num] /\ total = RSum(Weighed(e, t, c))
        BY <1>1, WeighedIs
    <2>2. total \in Num
        BY <1>1, TotalsType
    <2>3. QED
        BY <2>1, <2>2
<1>4. c \notin Off(e, t) => RLe(RAbs(total), e.tol[c])
    BY DEF Off
<1>5. CASE Residual(t) = {}
    <2>1. c \notin Off(e, t)
        BY <1>5, CleanBalances
    <2>2. parts = Weighed(e, t, c)
        BY <1>1, <1>2, <1>3, <1>5
    <2>3. QED
        BY <1>3, <1>4, <2>1, <2>2
<1>6. CASE Residual(t) # {}
    <2>1. PICK k \in Residual(t) : TRUE
        BY <1>6
    <2> DEFINE rest == [i \in 1..n |-> IF i = k THEN parts[k] ELSE Zero]
    <2>2. k \in 1..n /\ parts[k] \in Num /\ rest \in [1..n -> Num]
        BY <1>1, <2>1, ZeroNum
    <2>3. \A i \in 1..n : parts[i] = RAdd(Weighed(e, t, c)[i], rest[i])
        <3>1. ASSUME NEW i \in 1..n
              PROVE  parts[i] = RAdd(Weighed(e, t, c)[i], rest[i])
            <4>1. CASE i = k
                <5>1. Weighed(e, t, c)[i] = Zero
                    BY <1>1, <2>1, <4>1 DEF Weighed
                <5>2. QED
                    BY <2>2, <4>1, <5>1, AddNothing
            <4>2. CASE i # k
                <5>1. i \in Given(t) /\ rest[i] = Zero
                    BY <1>2, <2>1, <4>2
                <5>2. parts[i] = Weighed(e, t, c)[i] /\ Weighed(e, t, c)[i] \in Num
                    BY <1>3, <5>1
                <5>3. QED
                    BY <5>1, <5>2, AddNothing
            <4>3. QED
                BY <4>1, <4>2
        <3>2. QED
            BY <3>1
    <2>4. RSum(rest) = parts[k]
        <3>1. (\A i \in 1..n : i # k => rest[i] = Zero) /\ rest[k] = parts[k]
            BY <2>2
        <3> HIDE DEF rest
        <3>2. QED
            BY <1>1, <2>2, <3>1, SumSingle
    <2>5. RSum(parts) = RAdd(total, parts[k])
        <3> HIDE DEF rest
        <3>1. RSum(parts) = RAdd(RSum(Weighed(e, t, c)), RSum(rest))
            BY <1>1, <1>3, <2>2, <2>3, SumPlus, ZenonT(60)
        <3>2. QED
            BY <1>3, <2>4, <3>1
    <2>6. parts[k] = IF c \in Off(e, t) THEN RNeg(total) ELSE Zero
        BY <1>1, <2>1, PlannedAmount
    <2>7. CASE c \in Off(e, t)
        <3>1. RSum(parts) = Zero
            BY <1>3, <2>5, <2>6, <2>7, AddNeg
        <3>2. RLe(RAbs(Zero), e.tol[c])
            <4>1. RAbs(Zero) = Zero
                BY DEF RAbs, RNegative, Zero, RInt
            <4>2. RLe(Zero, e.tol[c])
                BY <1>1, NumParts DEF RLe, RNonNeg, Zero, RInt
            <4>3. QED
                BY <4>1, <4>2
        <3>3. QED
            BY <3>1, <3>2
    <2>8. CASE c \notin Off(e, t)
        BY <1>3, <1>4, <2>5, <2>6, <2>8, AddNothing
    <2>9. QED
        BY <2>7, <2>8
<1>7. QED
    BY <1>5, <1>6

----------------------------------------------------------------------------
(* The engine over a stream of directives.                                 *)

TypeInv ==
    /\ scenario \in Scenarios
    /\ eng \in Engine /\ eng.tol = Tolerance
    /\ IsDirective(cur) \/ cur = NoDirective

(* The inductive invariant.  Lots sound in both senses at once, because an *)
(* empty lot's missing cost follows from units that are never negative;    *)
(* the journal no younger than the last directive, because a close that    *)
(* comes later must not reach back; held lots in a commodity, because an   *)
(* elided posting buys more of a lot only where its weight is in the lot's *)
(* cost commodity.                                                         *)
LedgerInv ==
    /\ TypeInv
    /\ Sound(eng.inv)
    /\ InCommodity(eng.inv)
    /\ Reconciled(eng.bal, eng.txns)
    /\ OutOfLife(eng)
    /\ Timely(eng.txns, cur.date)

LEMMA CurParts ==
    ASSUME TypeInv
    PROVE  cur.line \in Nat /\ cur.date \in Nat /\ NextLine \in Nat
<1>1. cur.line \in Nat /\ cur.date \in Nat
    BY DirectiveParts DEF TypeInv, NoDirective, NoDate
<1>2. QED
    BY <1>1 DEF NextLine

(* What one step books. *)
Books(d) ==
    /\ eng' = BookDirective(eng, d) /\ cur' = d /\ scenario' = scenario
    /\ cur.date <= d.date

LEMMA TakeBooks ==
    ASSUME TypeInv, NEW d, IsDirective(d), Take(d)
    PROVE  Books(d)
<1>1. cur.date \in Nat /\ d.date \in Nat
    BY CurParts, DirectiveParts
<1>2. cur.date <= d.date
    BY <1>1 DEF Take, Sorted, NoDirective, NoDate
<1>3. QED
    BY <1>2 DEF Take, Books

LEMMA StepBooks ==
    ASSUME TypeInv, Next
    PROVE  \E d : IsDirective(d) /\ Books(d)
<1> DEFINE S == scenario
<1>1. /\ S.dates \subseteq Dates
      /\ S.accounts \subseteq Accounts /\ S.froms \subseteq Accounts
      /\ S.assertions \subseteq [acct : Accounts, n : Num, comm : Commodities]
      /\ S.bodies \subseteq Seq(Posting)
    BY ScenarioAssumption DEF TypeInv
<1>2. NextLine \in Nat
    BY CurParts
<1>3. CASE TakeOpen
    <2>1. PICK a \in S.accounts, date \in S.dates :
            Take([kind |-> "open", date |-> date, line |-> NextLine, acct |-> a])
        BY <1>3 DEF TakeOpen
    <2>2. IsDirective([kind |-> "open", date |-> date, line |-> NextLine, acct |-> a])
        BY <1>1, <1>2 DEF IsDirective
    <2>3. QED
        BY <2>1, <2>2, TakeBooks
<1>4. CASE TakeClose
    <2>1. PICK a \in S.accounts, date \in S.dates :
            Take([kind |-> "close", date |-> date, line |-> NextLine, acct |-> a])
        BY <1>4 DEF TakeClose
    <2>2. IsDirective([kind |-> "close", date |-> date, line |-> NextLine, acct |-> a])
        BY <1>1, <1>2 DEF IsDirective
    <2>3. QED
        BY <2>1, <2>2, TakeBooks
<1>5. CASE TakePad
    <2>1. PICK a \in S.accounts, from \in S.froms, date \in S.dates :
            Take([kind |-> "pad", date |-> date, line |-> NextLine, acct |-> a, from |-> from])
        BY <1>5 DEF TakePad
    <2>2. IsDirective([kind |-> "pad", date |-> date, line |-> NextLine, acct |-> a, from |-> from])
        BY <1>1, <1>2 DEF IsDirective
    <2>3. QED
        BY <2>1, <2>2, TakeBooks
<1>6. CASE TakeBalance
    <2>1. PICK b \in S.assertions, date \in S.dates :
            Take([kind |-> "balance", date |-> date, line |-> NextLine,
                  acct |-> b.acct, n |-> b.n, comm |-> b.comm])
        BY <1>6 DEF TakeBalance
    <2>2. b.acct \in Accounts /\ b.n \in Num /\ b.comm \in Commodities /\ date \in Dates
        BY <1>1
    <2>3. IsDirective([kind |-> "balance", date |-> date, line |-> NextLine,
           acct |-> b.acct, n |-> b.n, comm |-> b.comm])
        BY <1>2, <2>2 DEF IsDirective
    <2>4. QED
        BY <2>1, <2>3, TakeBooks
<1>7. CASE TakeTxn
    <2>1. PICK body \in S.bodies, date \in S.dates :
            Take([kind |-> "txn", date |-> date, line |-> NextLine, flag |-> "*", postings |-> body])
        BY <1>7 DEF TakeTxn
    <2>2. body \in Seq(Posting) /\ date \in Dates
        BY <1>1
    <2>3. [kind |-> "txn", date |-> date, line |-> NextLine, flag |-> "*", postings |-> body] \in Transaction
        BY <1>2, <2>2 DEF Transaction, Flags
    <2>4. IsDirective([kind |-> "txn", date |-> date, line |-> NextLine, flag |-> "*", postings |-> body])
        BY <1>2, <2>2, <2>3 DEF IsDirective
    <2>5. QED
        BY <2>1, <2>4, TakeBooks
<1>8. CASE TakeStored
    <2>1. PICK kind \in {"note", "event", "document"}, date \in S.dates :
            Take([kind |-> kind, date |-> date, line |-> NextLine])
        BY <1>8 DEF TakeStored
    <2>2. IsDirective([kind |-> kind, date |-> date, line |-> NextLine])
        BY <1>1, <1>2 DEF IsDirective
    <2>3. QED
        BY <2>1, <2>2, TakeBooks
<1>9. QED
    BY <1>3, <1>4, <1>5, <1>6, <1>7, <1>8 DEF Next

----------------------------------------------------------------------------
(* The inductive invariant. *)

LEMMA NewIs ==
    /\ New(Tolerance) \in Engine /\ New(Tolerance).tol = Tolerance
    /\ Sound(New(Tolerance).inv)
    /\ InCommodity(New(Tolerance).inv)
    /\ Reconciled(New(Tolerance).bal, New(Tolerance).txns)
    /\ New(Tolerance).txns = << >>
<1>1. NoPosition.units = Zero /\ NoPosition.cost = Zero
    BY DEF NoPosition
<1>2. InCommodity(New(Tolerance).inv)
    BY <1>1 DEF New, InCommodity
<1>3. QED
    BY <1>2, NewEngine, ToleranceAssumption

LEMMA InitInv == Init => LedgerInv
<1> SUFFICES ASSUME Init PROVE LedgerInv
    OBVIOUS
<1>1. TypeInv
    BY NewIs DEF Init, TypeInv
<1>2. eng.txns = << >>
    BY NewIs DEF Init
<1>3. OutOfLife(eng) /\ Timely(eng.txns, cur.date)
    BY <1>2 DEF OutOfLife, Timely
<1>4. QED
    BY <1>1, <1>3, NewIs DEF Init, LedgerInv

LEMMA StepInv == LedgerInv /\ [Next]_vars => LedgerInv'
<1> SUFFICES ASSUME LedgerInv, [Next]_vars PROVE LedgerInv'
    OBVIOUS
<1>1. TypeInv
    BY DEF LedgerInv
<1>2. CASE UNCHANGED vars
    BY <1>2 DEF LedgerInv, TypeInv, vars
<1>3. CASE Next
    <2>1. PICK d : IsDirective(d) /\ Books(d)
        BY <1>1, <1>3, StepBooks
    <2>2. eng \in Engine /\ Sound(eng.inv) /\ InCommodity(eng.inv) /\ Reconciled(eng.bal, eng.txns) /\ OutOfLife(eng)
          /\ Timely(eng.txns, cur.date) /\ eng.tol = Tolerance
        BY DEF LedgerInv, TypeInv
    <2>3. eng' = BookDirective(eng, d) /\ cur' = d /\ scenario' = scenario /\ cur.date <= d.date
        BY <2>1 DEF Books
    <2>4. /\ eng' \in Engine /\ eng'.tol = Tolerance /\ Sound(eng'.inv)
          /\ InCommodity(eng'.inv)
          /\ Posts(eng, eng')
        BY <2>1, <2>2, <2>3, BookDirectiveIs, CommodityAfter
    <2>5. TypeInv'
        BY <1>1, <2>1, <2>3, <2>4 DEF TypeInv
    <2>6. Reconciled(eng'.bal, eng'.txns)
        <3>1. eng.bal \in Balances /\ eng.txns \in Seq(Entry)
            BY <2>2 DEF Engine
        <3>2. QED
            BY <2>2, <2>4, <3>1, PostingReconciles DEF Posts
    <2>7. Timely(eng.txns, d.date)
        <3>1. cur.date \in Nat /\ d.date \in Nat
            BY <1>1, <2>1, CurParts, DirectiveParts
        <3>2. ASSUME NEW i \in DOMAIN eng.txns
              PROVE  eng.txns[i].date \in Nat
            <4>1. eng.txns \in Seq(Entry)
                BY <2>2 DEF Engine
            <4>2. eng.txns[i] \in Entry
                BY <4>1
            <4>3. QED
                BY <4>2 DEF Entry, Dates
        <3>3. QED
            BY <2>2, <2>3, <3>1, <3>2 DEF Timely
    <2>8. OutOfLife(eng') /\ Timely(eng'.txns, d.date)
        BY <2>1, <2>2, <2>3, <2>7, DirectiveNoted
    <2>9. QED
        BY <2>3, <2>4, <2>5, <2>6, <2>8 DEF LedgerInv
<1>4. QED
    BY <1>2, <1>3

(* The inductive invariant holds throughout. *)
THEOREM LedgerInvariant == Spec => []LedgerInv
<1>1. Init => LedgerInv
    BY InitInv
<1>2. LedgerInv /\ [Next]_vars => LedgerInv'
    BY StepInv
<1>3. QED
    BY <1>1, <1>2, PTL DEF Spec

----------------------------------------------------------------------------
(* The safety invariants of the engine. *)

(* However a journal mixes buys and sells of a lot, and wherever the       *)
(* booking of a transaction stops, no lot goes below zero.                 *)
THEOREM LotsStayNonNegative == Spec => []LotsNonNegative
<1>1. LedgerInv => LotsNonNegative
    BY DEF LedgerInv, Sound, LotsNonNegative
<1>2. QED
    BY <1>1, LedgerInvariant, PTL

(* A lot that is sold out leaves no cost behind for the next buy.          *)
THEOREM EmptyLotsAreFree == Spec => []EmptyLotHasNoCost
<1>1. LedgerInv => EmptyLotHasNoCost
    BY DEF LedgerInv, Sound, EmptyLotHasNoCost
<1>2. QED
    BY <1>1, LedgerInvariant, PTL

(* The balances that assertions read and the journal that reports read     *)
(* never part, pads included.                                              *)
THEOREM BalancesAreTheJournal == Spec => []BalanceIsJournal
<1>1. LedgerInv => BalanceIsJournal
    BY DEF LedgerInv, Reconciled, Added, BalanceIsJournal
<1>2. QED
    BY <1>1, LedgerInvariant, PTL

(* What is journaled on an account before its opening or after its close   *)
(* has been reported, whatever opens and closes later.                     *)
THEOREM OutOfLifeIsReported == Spec => []OutOfLifeReported
<1>1. LedgerInv => OutOfLifeReported
    BY DEF LedgerInv, OutOfLife, Noted, OutOfLifeReported, HasError
<1>2. QED
    BY <1>1, LedgerInvariant, PTL

----------------------------------------------------------------------------
(* What booking one directive may never do. *)

LEMMA JournaledGrows ==
    ASSUME NEW e \in Engine, NEW t \in Transaction, Journaled(e, t)
    PROVE  Len(BookTxn(e, t).txns) > Len(e.txns)
<1>1. Checked(e, t) \in Engine /\ Checked(e, t).txns = e.txns
    BY CheckedIs
<1>2. e.txns \in Seq(Entry)
    BY DEF Engine
<1>3. Len(BookTxn(e, t).txns) = Len(e.txns) + 1 /\ Len(e.txns) \in Nat
    <2>1. PICK mid \in Engine : mid = Checked(e, t)
        BY <1>1
    <2>2. BookTxn(e, t).txns =
            Append(mid.txns, [date |-> t.date, line |-> t.line, flag |-> t.flag,
                              legs |-> Legs(t, Plan(e, t))])
        BY <2>1 DEF Journaled, Engine
    <2>3. QED
        BY <1>1, <1>2, <2>1, <2>2
<1>4. QED
    BY <1>3

(* Only a transaction that is journaled lengthens the journal.             *)
LEMMA BookedIs ==
    ASSUME NEW e \in Engine, NEW t \in Transaction, Len(BookTxn(e, t).txns) > Len(e.txns)
    PROVE  Journaled(e, t)
<1>1. Checked(e, t) \in Engine /\ Checked(e, t).txns = e.txns
    BY CheckedIs
<1>2. BookTxn(e, t).txns # e.txns
    <2>1. e.txns \in Seq(Entry)
        BY DEF Engine
    <2>2. Len(e.txns) \in Nat
        BY <2>1
    <2>3. QED
        BY <2>2
<1>3. ASSUME Stopped(e, t) PROVE FALSE
    BY <1>2, <1>3 DEF Stopped, Report, Engine
<1>4. ASSUME Skipped(e, t) PROVE FALSE
    BY <1>1, <1>2, <1>4 DEF Skipped, SkipOversell, Report, Engine
<1>5. ASSUME Clashed(e, t) PROVE FALSE
    BY <1>1, <1>2, <1>5 DEF Clashed, Report, Engine
<1>6. QED
    BY <1>3, <1>4, <1>5, Outcomes

(* After an assertion no pad is pending for its account, and the balance   *)
(* is the asserted one or an error says so.                                *)
THEOREM AssertionsSettle == Spec => AssertionSettles
<1> DEFINE Settles ==
        cur'.kind = "balance"
        => /\ eng'.pad[cur'.acct] = NoPad
           /\ \/ RWithin(cur'.n, eng'.bal[cur'.acct][cur'.comm], Tolerance[cur'.comm])
              \/ \E d \in eng'.diags : d.line = cur'.line /\ d.sev = "error"
<1>1. LedgerInv /\ [Next]_vars => [Settles]_vars
    <2> SUFFICES ASSUME LedgerInv, Next PROVE Settles
        OBVIOUS
    <2>1. TypeInv /\ eng \in Engine /\ eng.tol = Tolerance
        BY DEF LedgerInv, TypeInv
    <2>2. PICK d : IsDirective(d) /\ Books(d)
        BY <2>1, StepBooks
    <2>3. eng' = BookDirective(eng, d) /\ cur' = d
        BY <2>2 DEF Books
    <2>4. ASSUME d.kind = "balance"
          PROVE  eng' = BookBalance(eng, d)
        BY <2>3, <2>4 DEF BookDirective
    <2>5. QED
        BY <2>1, <2>2, <2>3, <2>4, BookBalanceIs
<1>2. QED
    BY <1>1, LedgerInvariant, PTL DEF Spec, AssertionSettles

(* A transaction that is not journaled moves no balance, moves lots only   *)
(* when a cost-commodity clash stopped it between its buys, and is always  *)
(* reported.                                                               *)
THEOREM RejectedTxnsAreInert == Spec => RejectedTxnInert
<1> DEFINE Inert ==
        cur'.kind = "txn" /\ ~Booked
        => /\ eng'.bal = eng.bal
           /\ eng'.inv = eng.inv \/ \E d \in eng'.diags :
                d.line = cur'.line /\ d.what = "cost commodity mismatch"
           /\ \E d \in eng'.diags : d.line = cur'.line
<1>1. LedgerInv /\ [Next]_vars => [Inert]_vars
    <2> SUFFICES ASSUME LedgerInv, Next, cur'.kind = "txn", ~Booked
                 PROVE  /\ eng'.bal = eng.bal
                        /\ eng'.inv = eng.inv \/ \E d \in eng'.diags :
                                d.line = cur'.line /\ d.what = "cost commodity mismatch"
                        /\ \E d \in eng'.diags : d.line = cur'.line
        OBVIOUS
    <2>1. TypeInv /\ eng \in Engine /\ eng.txns \in Seq(Entry)
        BY DEF LedgerInv, TypeInv, Engine
    <2>2. PICK t : IsDirective(t) /\ Books(t)
        BY <2>1, StepBooks
    <2>3. cur' = t /\ t \in Transaction /\ eng' = BookTxn(eng, t)
        BY <2>2, DirectiveParts DEF Books, BookDirective
    <2>4. ~(Len(eng'.txns) > Len(eng.txns))
        BY DEF Booked
    <2>5. /\ Checked(eng, t) \in Engine
          /\ Checked(eng, t).inv = eng.inv /\ Checked(eng, t).bal = eng.bal
          /\ Checked(eng, t).txns = eng.txns
        BY <2>1, <2>3, CheckedIs
    <2>6. CASE Stopped(eng, t)
        BY <2>1, <2>3, <2>6, Reported, ZenonT(40) DEF Stopped
    <2>7. CASE Skipped(eng, t)
        <3>1. eng' = Report(Checked(eng, t), {Warn(t.line, "oversell", NoComm)})
            BY <2>3, <2>7 DEF Skipped, SkipOversell
        <3>2. Warn(t.line, "oversell", NoComm).line = t.line
            BY DEF Warn
        <3>3. /\ eng'.bal = eng.bal /\ eng'.inv = eng.inv
              /\ Warn(t.line, "oversell", NoComm) \in eng'.diags
            BY <2>5, <3>1 DEF Report, Engine
        <3>4. QED
            BY <2>3, <3>2, <3>3
    <2>8. CASE Clashed(eng, t)
        <3>1. PICK k \in 0..Len(t.postings), a \in Accounts :
                eng' = [Report(Checked(eng, t), {Error(t.line, "cost commodity mismatch", a)})
                        EXCEPT !.inv = InvAfterBuys(Checked(eng, t), t, ExplicitOnly(t, Plan(eng, t)), k)]
            BY <2>3, <2>8 DEF Clashed
        <3>2. /\ Error(t.line, "cost commodity mismatch", a).line = t.line
              /\ Error(t.line, "cost commodity mismatch", a).what = "cost commodity mismatch"
            BY DEF Error
        <3>3. eng'.bal = eng.bal /\ Error(t.line, "cost commodity mismatch", a) \in eng'.diags
            BY <2>5, <3>1 DEF Report, Engine
        <3>4. QED
            BY <2>3, <3>2, <3>3
    <2>9. ~Journaled(eng, t)
        BY <2>1, <2>3, <2>4, JournaledGrows
    <2>10. QED
        BY <2>1, <2>3, <2>6, <2>7, <2>8, <2>9, Outcomes
<1>2. QED
    BY <1>1, LedgerInvariant, PTL DEF Spec, RejectedTxnInert

(* An account's lot and its balance never drift apart: a journaled         *)
(* transaction moves the units of a lot that is held by exactly what it    *)
(* does to the balance, elided postings that buy or sell included, unless  *)
(* its residual repeats an explicit leg.                                   *)
THEOREM LotsTrackBalances == Spec => LotTracksBalance
<1> DEFINE Tracks ==
        cur'.kind = "txn" /\ Booked /\ ~ResidualRepeatsLeg(Plan(eng, cur'))
        => \A a \in Accounts, c \in Commodities :
            HasPosition(eng, a, c) =>
                RSub(eng'.bal[a][c], eng.bal[a][c]) =
                RSub(eng'.inv[a][c].units, eng.inv[a][c].units)
<1>1. LedgerInv /\ [Next]_vars => [Tracks]_vars
    <2> SUFFICES ASSUME LedgerInv, Next, cur'.kind = "txn", Booked,
                        ~ResidualRepeatsLeg(Plan(eng, cur')),
                        NEW a \in Accounts, NEW c \in Commodities, HasPosition(eng, a, c)
                 PROVE  RSub(eng'.bal[a][c], eng.bal[a][c]) =
                        RSub(eng'.inv[a][c].units, eng.inv[a][c].units)
        OBVIOUS
    <2>1. TypeInv /\ eng \in Engine /\ InCommodity(eng.inv)
        BY DEF LedgerInv, TypeInv
    <2>2. PICK t : IsDirective(t) /\ Books(t)
        BY <2>1, StepBooks
    <2>3. cur' = t /\ t \in Transaction /\ eng' = BookTxn(eng, t)
        BY <2>2, DirectiveParts DEF Books, BookDirective
    <2>4. Journaled(eng, t)
        BY <2>1, <2>3, BookedIs DEF Booked
    <2>5. ~Repeats(t, Plan(eng, t))
        BY <2>3 DEF ResidualRepeatsLeg, Repeats
    <2>6. QED
        BY <2>1, <2>3, <2>4, <2>5, LotTracks
<1>2. QED
    BY <1>1, LedgerInvariant, PTL DEF Spec, LotTracksBalance

----------------------------------------------------------------------------
(* Sums over a finite set. *)

(* The order a sum over S is taken in lists every element once.            *)
Lists(s, m, S) ==
    /\ s \in [1..m -> S]
    /\ \A i, j \in 1..m : s[i] = s[j] => i = j
    /\ \A x \in S : \E j \in 1..m : s[j] = x

(* Every sum over S is taken in the order s. *)
Orders(s, m, S) == \A f : SumOver(S, f) = RSum([j \in 1..m |-> f[s[j]]])

LEMMA SumOverIs ==
    ASSUME NEW S, IsFiniteSet(S)
    PROVE  \E m \in Nat : \E s \in [1..m -> S] : Lists(s, m, S) /\ Orders(s, m, S)
<1> DEFINE m == Cardinality(S)
           s == SetToSeq(S)
<1>1. m \in Nat /\ ExistsBijection(1..m, S)
    BY FS_CardinalityType
<1>2. s \in [1..m -> S] /\ IsInjective(s)
    <2>1. \E f \in [1..m -> S] : IsInjective(f)
        BY <1>1 DEF ExistsBijection, Bijection, Injection
    <2>2. s = CHOOSE f \in [1..m -> S] : IsInjective(f)
        BY DEF SetToSeq
    <2> HIDE DEF s, m
    <2>3. QED
        BY <2>1, <2>2
<1>3. \A x \in S : \E j \in 1..m : s[j] = x
    <2>1. s \in Injection(1..m, S)
        BY <1>2 DEF Injection
    <2>2. Cardinality(1..m) = m
        <3> HIDE DEF m
        <3>1. Cardinality(1..m) = IF 1 > m THEN 0 ELSE m - 1 + 1
            BY <1>1, FS_Interval
        <3>2. QED
            BY <1>1, <3>1
    <2>3. s \in Surjection(1..m, S)
        BY <2>1, <2>2, FS_Injection
    <2>4. QED
        BY <2>3 DEF Surjection
<1>4. Lists(s, m, S)
    BY <1>2, <1>3 DEF Lists, IsInjective
<1>5. ASSUME NEW f
      PROVE  SumOver(S, f) = RSum([j \in 1..m |-> f[s[j]]])
    <2>1. DOMAIN s = 1..m
        BY <1>2
    <2>2. SumOver(S, f) = RSum([j \in DOMAIN s |-> f[s[j]]])
        BY DEF SumOver
    <2> HIDE DEF s, m
    <2>3. QED
        BY <2>1, <2>2
<1>6. Orders(s, m, S)
    BY <1>5 DEF Orders
<1> HIDE DEF s, m
<1>7. QED
    BY <1>1, <1>2, <1>4, <1>6

LEMMA OverPlus ==
    ASSUME NEW S, IsFiniteSet(S),
           NEW f \in [S -> Num], NEW g \in [S -> Num], NEW h \in [S -> Num],
           \A x \in S : h[x] = RAdd(f[x], g[x])
    PROVE  /\ SumOver(S, f) \in Num /\ SumOver(S, g) \in Num
           /\ SumOver(S, h) = RAdd(SumOver(S, f), SumOver(S, g))
<1>0. PICK m \in Nat : \E s \in [1..m -> S] : Orders(s, m, S)
    BY SumOverIs
<1>1. PICK s \in [1..m -> S] : Orders(s, m, S)
    BY <1>0
<1> DEFINE F == [j \in 1..m |-> f[s[j]]]
           G == [j \in 1..m |-> g[s[j]]]
           H == [j \in 1..m |-> h[s[j]]]
<1>2. /\ F \in [1..m -> Num] /\ G \in [1..m -> Num] /\ H \in [1..m -> Num]
      /\ F = [j \in 1..m |-> F[j]] /\ G = [j \in 1..m |-> G[j]]
      /\ \A j \in 1..m : H[j] = RAdd(F[j], G[j])
    OBVIOUS
<1>3. SumOver(S, f) = RSum(F) /\ SumOver(S, g) = RSum(G) /\ SumOver(S, h) = RSum(H)
    BY <1>1 DEF Orders
<1> HIDE DEF F, G, H
<1>4. RSum(H) = RAdd(RSum(F), RSum(G))
    BY <1>2, SumPlus
<1>5. RSum(F) \in Num /\ RSum(G) \in Num
    <2>1. (\A j \in 1..m : F[j] \in Num) /\ \A j \in 1..m : G[j] \in Num
        BY <1>2
    <2>2. QED
        BY <1>2, <2>1, SumTerms
<1>6. QED
    BY <1>3, <1>4, <1>5

LEMMA OverNum ==
    ASSUME NEW S, IsFiniteSet(S), NEW f \in [S -> Num]
    PROVE  SumOver(S, f) \in Num
<1> DEFINE h == [x \in S |-> RAdd(f[x], f[x])]
<1>1. h \in [S -> Num] /\ \A x \in S : h[x] = RAdd(f[x], f[x])
    BY AddNum
<1> HIDE DEF h
<1>2. QED
    BY <1>1, OverPlus

(* A sum whose terms are nothing but at one element.                       *)
LEMMA OverSingle ==
    ASSUME NEW S, IsFiniteSet(S), NEW f \in [S -> Num], NEW k \in S,
           \A x \in S : x # k => f[x] = Zero
    PROVE  SumOver(S, f) = f[k]
<1>0. PICK m \in Nat : \E s \in [1..m -> S] :
            Lists(s, m, S) /\ Orders(s, m, S)
    BY SumOverIs
<1>1. PICK s \in [1..m -> S] :
            Lists(s, m, S) /\ Orders(s, m, S)
    BY <1>0
<1> DEFINE F == [j \in 1..m |-> f[s[j]]]
<1>2. PICK i \in 1..m : s[i] = k
    BY <1>1 DEF Lists
<1>3. \A j \in 1..m : j # i => F[j] = Zero
    BY <1>1, <1>2 DEF Lists
<1>4. F \in [1..m -> Num] /\ F[i] = f[k] /\ SumOver(S, f) = RSum(F)
    BY <1>1, <1>2 DEF Orders
<1> HIDE DEF F
<1>5. RSum(F) = F[i]
    BY <1>2, <1>3, <1>4, SumSingle
<1>6. QED
    BY <1>4, <1>5

LEMMA OverNothing ==
    ASSUME NEW S, IsFiniteSet(S), NEW f \in [S -> Num], \A x \in S : f[x] = Zero
    PROVE  SumOver(S, f) = Zero
<1>0. PICK m \in Nat : \E s \in [1..m -> S] : Orders(s, m, S)
    BY SumOverIs
<1>1. PICK s \in [1..m -> S] : Orders(s, m, S)
    BY <1>0
<1> DEFINE F == [j \in 1..m |-> f[s[j]]]
<1>2. F = [j \in 1..m |-> F[j]] /\ (\A j \in 1..m : F[j] = Zero) /\ SumOver(S, f) = RSum(F)
    BY <1>1 DEF Orders
<1> HIDE DEF F
<1>3. QED
    BY <1>2, SumTermsZero

(* Sums over a set of sums over postings, in either order.                 *)
Tabled(S, n, g, h, rows, cols) ==
    /\ g \in [1..n -> [S -> Num]] /\ h \in [S -> [1..n -> Num]]
    /\ \A i \in 1..n, x \in S : g[i][x] = h[x][i]
    /\ rows \in [1..n -> Num] /\ \A i \in 1..n : rows[i] = SumOver(S, g[i])
    /\ cols \in [S -> Num] /\ \A x \in S : cols[x] = RSum(h[x])

LEMMA OverExchange ==
    ASSUME NEW S, IsFiniteSet(S), NEW n \in Nat, NEW g, NEW h, NEW rows, NEW cols,
           Tabled(S, n, g, h, rows, cols)
    PROVE  RSum(rows) = SumOver(S, cols)
<1> USE DEF Tabled
<1>0. PICK m \in Nat : \E s \in [1..m -> S] : Orders(s, m, S)
    BY SumOverIs
<1>1. PICK s \in [1..m -> S] : Orders(s, m, S)
    BY <1>0
<1> DEFINE G == [i \in 1..n |-> [j \in 1..m |-> g[i][s[j]]]]
           H == [j \in 1..m |-> h[s[j]]]
           ends == [j \in 1..m |-> cols[s[j]]]
<1>2. /\ G \in [1..n -> [1..m -> Num]] /\ H \in [1..m -> [1..n -> Num]]
      /\ \A i \in 1..n, j \in 1..m : G[i][j] = H[j][i]
    OBVIOUS
<1>3. ends \in [1..m -> Num] /\ \A j \in 1..m : ends[j] = RSum(H[j])
    OBVIOUS
<1>4. \A i \in 1..n : rows[i] = RSum(G[i])
    BY <1>1 DEF Orders
<1>5. SumOver(S, cols) = RSum(ends)
    BY <1>1 DEF Orders
<1>6. rows \in [1..n -> Num]
    OBVIOUS
<1> HIDE DEF G, H, ends, Tabled
<1>7. RSum(rows) = RSum(ends)
    BY <1>2, <1>3, <1>4, <1>6, SumExchange
<1>8. QED
    BY <1>5, <1>7

----------------------------------------------------------------------------
(* The books. *)

(* What is booked on one account of what the postings book. *)
OnAccount(acct, a, f) == [i \in DOMAIN f |-> IF acct[i] = a THEN f[i] ELSE Zero]

LEMMA OnAccountType ==
    ASSUME NEW n \in Nat, NEW acct, NEW a, NEW f \in [1..n -> Num]
    PROVE  /\ OnAccount(acct, a, f) \in [1..n -> Num] /\ RSum(OnAccount(acct, a, f)) \in Num
           /\ \A i \in 1..n : OnAccount(acct, a, f)[i] = IF acct[i] = a THEN f[i] ELSE Zero
<1> DEFINE g == OnAccount(acct, a, f)
<1>1. g \in [1..n -> Num] /\ \A i \in 1..n : g[i] = IF acct[i] = a THEN f[i] ELSE Zero
    BY ZeroNum DEF OnAccount
<1> HIDE DEF g
<1>2. g = [i \in 1..n |-> g[i]] /\ \A i \in 1..n : g[i] \in Num
    BY <1>1
<1>3. RSum(g) \in Num
    BY <1>2, SumTerms
<1>4. QED
    BY <1>1, <1>3 DEF g

Columns(acct, f, cols) ==
    cols \in [Accounts -> Num] /\ \A a \in Accounts : cols[a] = RSum(OnAccount(acct, a, f))

(* Every posting is on one account, so what the accounts are booked sums   *)
(* to what the postings book.                                              *)
LEMMA AccountsSum ==
    ASSUME NEW n \in Nat, NEW acct \in [1..n -> Accounts], NEW f \in [1..n -> Num],
           NEW cols, Columns(acct, f, cols)
    PROVE  SumOver(Accounts, cols) = RSum(f)
<1> DEFINE g == [i \in 1..n |-> [a \in Accounts |-> IF acct[i] = a THEN f[i] ELSE Zero]]
           h == [a \in Accounts |-> OnAccount(acct, a, f)]
<1>1. g \in [1..n -> [Accounts -> Num]]
    BY ZeroNum
<1>2. h \in [Accounts -> [1..n -> Num]]
    BY OnAccountType
<1>3. \A i \in 1..n, a \in Accounts : g[i][a] = h[a][i]
    BY DEF OnAccount
<1>4. cols \in [Accounts -> Num] /\ \A a \in Accounts : cols[a] = RSum(h[a])
    BY DEF Columns
<1>5. ASSUME NEW i \in 1..n
      PROVE  f[i] = SumOver(Accounts, g[i])
    <2>1. PICK k \in [Accounts -> Num] : k = g[i]
        BY <1>1
    <2>2. acct[i] \in Accounts /\ k[acct[i]] = f[i] /\ \A x \in Accounts : x # acct[i] => k[x] = Zero
        BY <2>1
    <2>3. SumOver(Accounts, k) = k[acct[i]]
        BY <2>2, OverSingle, FiniteAssumption
    <2>4. QED
        BY <2>1, <2>2, <2>3
<1> HIDE DEF g, h
<1>6. Tabled(Accounts, n, g, h, f, cols)
    BY <1>1, <1>2, <1>3, <1>4, <1>5 DEF Tabled
<1>7. QED
    BY <1>6, OverExchange, FiniteAssumption

(* What an account holds of all lots moves by what its postings move of    *)
(* them all.                                                               *)
LEMMA LotsMove ==
    ASSUME NEW n \in Nat, NEW acct, NEW a \in Accounts,
           NEW moves \in [1..n -> [Commodities -> Num]],
           NEW old \in [Commodities -> Num], NEW new \in [Commodities -> Num],
           NEW at \in [Commodities -> [1..n -> Num]],
           \A k \in Commodities, i \in 1..n : at[k][i] = IF acct[i] = a THEN moves[i][k] ELSE Zero,
           \A k \in Commodities : new[k] = RAdd(old[k], RSum(at[k])),
           NEW rows \in [1..n -> Num], \A i \in 1..n : rows[i] = SumOver(Commodities, moves[i])
    PROVE  /\ SumOver(Commodities, old) \in Num
           /\ SumOver(Commodities, new) =
                RAdd(SumOver(Commodities, old), RSum(OnAccount(acct, a, rows)))
<1> DEFINE g == [i \in 1..n |-> IF acct[i] = a THEN moves[i] ELSE [k \in Commodities |-> Zero]]
           cols == [k \in Commodities |-> RSum(at[k])]
           mine == OnAccount(acct, a, rows)
<1>1. g \in [1..n -> [Commodities -> Num]]
    BY ZeroNum
<1>2. \A i \in 1..n, k \in Commodities : g[i][k] = at[k][i]
    OBVIOUS
<1>3. cols \in [Commodities -> Num] /\ \A k \in Commodities : cols[k] = RSum(at[k])
    <2>1. ASSUME NEW k \in Commodities
          PROVE  RSum(at[k]) \in Num
        <3>1. PICK f \in [1..n -> Num] : f = at[k]
            OBVIOUS
        <3>2. f = [i \in 1..n |-> f[i]] /\ \A i \in 1..n : f[i] \in Num
            OBVIOUS
        <3>3. QED
            BY <3>1, <3>2, SumTerms
    <2>2. QED
        BY <2>1
<1>4. mine \in [1..n -> Num] /\ \A i \in 1..n : mine[i] = IF acct[i] = a THEN rows[i] ELSE Zero
    BY OnAccountType
<1>5. ASSUME NEW i \in 1..n
      PROVE  mine[i] = SumOver(Commodities, g[i])
    <2>1. CASE acct[i] = a
        <3>1. mine[i] = rows[i] /\ g[i] = moves[i]
            BY <1>4, <2>1
        <3>2. QED
            BY <3>1
    <2>2. CASE acct[i] # a
        <3>1. PICK none \in [Commodities -> Num] : none = g[i]
            BY <1>1
        <3>2. \A k \in Commodities : none[k] = Zero
            BY <2>2, <3>1
        <3>3. SumOver(Commodities, none) = Zero
            BY <3>2, OverNothing, FiniteAssumption
        <3>4. QED
            BY <1>4, <2>2, <3>1, <3>3
    <2>3. QED
        BY <2>1, <2>2
<1> HIDE DEF g, cols, mine
<1>6. RSum(mine) = SumOver(Commodities, cols)
    <2>1. Tabled(Commodities, n, g, at, mine, cols)
        BY <1>1, <1>2, <1>3, <1>4, <1>5 DEF Tabled
    <2>2. QED
        BY <2>1, OverExchange, FiniteAssumption
<1>7. \A k \in Commodities : new[k] = RAdd(old[k], cols[k])
    BY <1>3
<1>8. /\ SumOver(Commodities, old) \in Num
      /\ SumOver(Commodities, new) = RAdd(SumOver(Commodities, old), SumOver(Commodities, cols))
    BY <1>3, <1>7, OverPlus, FiniteAssumption, ZenonT(40)
<1>9. QED
    BY <1>6, <1>8 DEF mine

LEMMA AccountsPlus ==
    ASSUME NEW f \in [Accounts -> Num], NEW g \in [Accounts -> Num], NEW h \in [Accounts -> Num],
           \A a \in Accounts : h[a] = RAdd(f[a], g[a])
    PROVE  /\ SumOver(Accounts, f) \in Num /\ SumOver(Accounts, g) \in Num
           /\ SumOver(Accounts, h) = RAdd(SumOver(Accounts, f), SumOver(Accounts, g))
BY OverPlus, FiniteAssumption

Gains(acct, f, f2, mine) ==
    /\ f \in [Accounts -> Num] /\ f2 \in [Accounts -> Num]
    /\ \A a \in Accounts : f2[a] = RAdd(f[a], RSum(OnAccount(acct, a, mine)))
Joins(books, own, lots) ==
    books \in [Accounts -> Num] /\ \A a \in Accounts : books[a] = RAdd(own[a], lots[a])

Audited(n, acct, mine, rows, parts, own, own2, lots, lots2, books, books2) ==
    /\ acct \in [1..n -> Accounts]
    /\ mine \in [1..n -> Num] /\ rows \in [1..n -> Num] /\ parts \in [1..n -> Num]
    /\ \A i \in 1..n : parts[i] = RAdd(mine[i], rows[i])
    /\ Gains(acct, own, own2, mine) /\ Gains(acct, lots, lots2, rows)
    /\ Joins(books, own, lots) /\ Joins(books2, own2, lots2)

(* The books move by what the postings book of balances and of lots.       *)
LEMMA BooksMove ==
    ASSUME NEW n \in Nat, NEW acct, NEW mine, NEW rows, NEW parts, NEW own, NEW own2,
           NEW lots, NEW lots2, NEW books, NEW books2,
           Audited(n, acct, mine, rows, parts, own, own2, lots, lots2, books, books2)
    PROVE  RSub(SumOver(Accounts, books2), SumOver(Accounts, books)) = RSum(parts)
<1>a. /\ acct \in [1..n -> Accounts]
      /\ mine \in [1..n -> Num] /\ rows \in [1..n -> Num] /\ parts \in [1..n -> Num]
      /\ \A i \in 1..n : parts[i] = RAdd(mine[i], rows[i])
    BY DEF Audited
<1>0. /\ own \in [Accounts -> Num] /\ own2 \in [Accounts -> Num]
      /\ lots \in [Accounts -> Num] /\ lots2 \in [Accounts -> Num]
      /\ \A a \in Accounts : own2[a] = RAdd(own[a], RSum(OnAccount(acct, a, mine)))
      /\ \A a \in Accounts : lots2[a] = RAdd(lots[a], RSum(OnAccount(acct, a, rows)))
      /\ books \in [Accounts -> Num] /\ \A a \in Accounts : books[a] = RAdd(own[a], lots[a])
      /\ books2 \in [Accounts -> Num] /\ \A a \in Accounts : books2[a] = RAdd(own2[a], lots2[a])
    BY DEF Audited, Gains, Joins
<1> DEFINE cols == [a \in Accounts |-> RSum(OnAccount(acct, a, parts))]
<1>1. cols \in [Accounts -> Num] /\ \A a \in Accounts : cols[a] = RSum(OnAccount(acct, a, parts))
    BY <1>a, OnAccountType
<1> HIDE DEF cols
<1>2. ASSUME NEW a \in Accounts
      PROVE  books2[a] = RAdd(books[a], cols[a])
    <2> DEFINE m == OnAccount(acct, a, mine)
               r == OnAccount(acct, a, rows)
               p == OnAccount(acct, a, parts)
    <2>1. m \in [1..n -> Num] /\ r \in [1..n -> Num] /\ p \in [1..n -> Num]
          /\ RSum(m) \in Num /\ RSum(r) \in Num
        BY <1>a, OnAccountType
    <2>2. \A i \in 1..n : p[i] = RAdd(m[i], r[i])
        BY <1>a, AddZero DEF OnAccount
    <2> HIDE DEF m, r, p
    <2>3. RSum(p) = RAdd(RSum(m), RSum(r))
        BY <2>1, <2>2, SumPlus
    <2>4. own2[a] = RAdd(own[a], RSum(m)) /\ lots2[a] = RAdd(lots[a], RSum(r)) /\ cols[a] = RSum(p)
        BY <1>0, <1>1 DEF m, r, p
    <2>5. RAdd(RAdd(own[a], RSum(m)), RAdd(lots[a], RSum(r)))
            = RAdd(RAdd(own[a], lots[a]), RAdd(RSum(m), RSum(r)))
        BY <1>0, <2>1, AddSwap
    <2>6. QED
        BY <1>0, <2>3, <2>4, <2>5
<1>3. /\ SumOver(Accounts, books) \in Num /\ SumOver(Accounts, cols) \in Num
      /\ SumOver(Accounts, books2) = RAdd(SumOver(Accounts, books), SumOver(Accounts, cols))
    BY <1>0, <1>1, <1>2, AccountsPlus
<1>4. SumOver(Accounts, cols) = RSum(parts)
    <2>1. Columns(acct, parts, cols)
        BY <1>1 DEF Columns
    <2>2. QED
        BY <1>a, <2>1, AccountsSum
<1>5. QED
    BY <1>3, <1>4, SubSelf

(* What the postings of a transaction book, posting by posting: units,     *)
(* units of lots, and the cost of the held lots.                           *)
Posted(t)          == [i \in 1..Len(t.postings) |-> t.postings[i].acct]
Amts(t, plan, c)   == [i \in 1..Len(t.postings) |-> plan.amts[i][c]]
Shifts(t, plan, c) ==
    [i \in 1..Len(t.postings) |-> RSub(Moved(plan, i, c, "buy"), Moved(plan, i, c, "sell"))]
Moves(t, plan, c, held) ==
    [i \in 1..Len(t.postings) |->
        [k \in Commodities |-> IF k \in held THEN CostIn(plan.ops[i][k], c) ELSE Zero]]
CostRows(t, plan, c, held) ==
    [i \in 1..Len(t.postings) |-> SumOver(Commodities, Moves(t, plan, c, held)[i])]

LEMMA PostedTypes ==
    ASSUME NEW t \in Transaction, NEW plan \in Plans(t), NEW c \in Commodities, NEW held
    PROVE  /\ Len(t.postings) \in Nat /\ DOMAIN t.postings = 1..Len(t.postings)
           /\ Posted(t) \in [1..Len(t.postings) -> Accounts]
           /\ Amts(t, plan, c) \in [1..Len(t.postings) -> Num]
           /\ Shifts(t, plan, c) \in [1..Len(t.postings) -> Num]
           /\ Moves(t, plan, c, held) \in [1..Len(t.postings) -> [Commodities -> Num]]
           /\ CostRows(t, plan, c, held) \in [1..Len(t.postings) -> Num]
<1> DEFINE n == Len(t.postings)
<1>1. n \in Nat /\ DOMAIN t.postings = 1..n /\ \A i \in 1..n : t.postings[i].acct \in Accounts
    BY GivenParts
<1>2. ASSUME NEW i \in 1..n
      PROVE  /\ plan.amts[i][c] \in Num
             /\ RSub(Moved(plan, i, c, "buy"), Moved(plan, i, c, "sell")) \in Num
    BY <1>1, UnlottedNum, SubNum
<1>3. ASSUME NEW i \in 1..n, NEW k \in Commodities
      PROVE  CostIn(plan.ops[i][k], c) \in Num
    <2>1. plan.ops[i][k] \in Operation
        BY <1>1 DEF Plans
    <2>2. QED
        BY <2>1, CostInNum
<1>4. Moves(t, plan, c, held) \in [1..n -> [Commodities -> Num]]
    BY <1>3, ZeroNum DEF Moves
<1>5. CostRows(t, plan, c, held) \in [1..n -> Num]
    <2>1. PICK moves \in [1..n -> [Commodities -> Num]] : moves = Moves(t, plan, c, held)
        BY <1>4
    <2>2. \A i \in 1..n : SumOver(Commodities, moves[i]) \in Num
        BY OverNum, FiniteAssumption
    <2>3. CostRows(t, plan, c, held) = [i \in 1..n |-> SumOver(Commodities, moves[i])]
        BY <2>1 DEF CostRows
    <2>4. QED
        BY <2>2, <2>3
<1>6. QED
    BY <1>1, <1>2, <1>4, <1>5 DEF Posted, Amts, Shifts

LEMMA BalanceMoves ==
    ASSUME NEW e \in Engine, NEW t \in Transaction, Journaled(e, t),
           NEW a \in Accounts, NEW c \in Commodities
    PROVE  BookTxn(e, t).bal[a][c] =
             RAdd(e.bal[a][c], RSum(OnAccount(Posted(t), a, Amts(t, Plan(e, t), c))))
<1> DEFINE plan == Plan(e, t)
           legs == Legs(t, plan)
<1>1. e.inv \in Lots /\ e.bal \in Balances /\ plan \in Plans(t)
    BY PlanType DEF Engine
<1>2. legs \in Seq(Leg)
    BY <1>1, LegsType
<1>3. BookTxn(e, t).bal[a][c] = RAdd(e.bal[a][c], Added(legs, a, c))
    BY <1>1, <1>2, JournaledIs, AddBalIs
<1>4. Added(legs, a, c) = RSum(OnAccount(Posted(t), a, Amts(t, plan, c)))
    <2>1. DOMAIN t.postings = 1..Len(t.postings)
        BY GivenParts
    <2>2. DOMAIN legs = 1..Len(t.postings)
          /\ \A i \in 1..Len(t.postings) : /\ legs[i].acct = t.postings[i].acct
                                           /\ legs[i].amts[c] = plan.amts[i][c]
        BY <2>1 DEF Legs
    <2> HIDE DEF legs, plan
    <2>3. [i \in DOMAIN legs |-> IF legs[i].acct = a THEN legs[i].amts[c] ELSE Zero] =
            OnAccount(Posted(t), a, Amts(t, plan, c))
        BY <2>2 DEF OnAccount, Posted, Amts
    <2>4. QED
        BY <2>3 DEF Added
<1>5. QED
    BY <1>3, <1>4

LEMMA UnitsMove ==
    ASSUME NEW e \in Engine, NEW t \in Transaction, Journaled(e, t),
           NEW a \in Accounts, NEW c \in Commodities
    PROVE  BookTxn(e, t).inv[a][c].units =
             RAdd(e.inv[a][c].units, RSum(OnAccount(Posted(t), a, Shifts(t, Plan(e, t), c))))
<1> DEFINE plan == Plan(e, t)
           n == Len(t.postings)
           u == e.inv[a][c].units
           B == Net(t, plan, "buy", "units", a, c, n)
           S == Net(t, plan, "sell", "units", a, c, n)
           buy == [i \in 1..n |-> IF t.postings[i].acct = a /\ plan.ops[i][c].kind = "buy"
                                  THEN plan.ops[i][c]["units"] ELSE Zero]
           sell == [i \in 1..n |-> IF t.postings[i].acct = a /\ plan.ops[i][c].kind = "sell"
                                   THEN plan.ops[i][c]["units"] ELSE Zero]
           shift == OnAccount(Posted(t), a, Shifts(t, plan, c))
<1>1. e.inv \in Lots /\ plan \in Plans(t) /\ n \in Nat /\ n \in 0..n /\ DOMAIN t.postings = 1..n
    <2>1. e.inv \in Lots
        BY DEF Engine
    <2>2. n \in Nat /\ n \in 0..n /\ DOMAIN t.postings = 1..n
        BY GivenParts
    <2>3. QED
        BY <2>1, <2>2, PlanType
<1>2. u \in Num /\ B \in Num /\ S \in Num
    BY <1>1, LotParts, NetUnits
<1>3. BookTxn(e, t).inv[a][c].units = RSub(RAdd(u, B), S)
    BY <1>1, JournaledIs, LotAfter
<1>4. RSub(RAdd(u, B), S) = RAdd(u, RSub(B, S))
    BY <1>2, NegNum, AddAssoc DEF RSub
<1>5. B = RSum(buy) /\ S = RSum(sell)
    BY DEF Net
<1>6. shift \in [1..n -> Num]
    BY <1>1, PostedTypes, OnAccountType
<1>7. ASSUME NEW i \in 1..n
      PROVE  buy[i] \in Num /\ sell[i] \in Num /\ shift[i] = RSub(buy[i], sell[i])
    <2>1. plan.ops[i][c] \in Operation
        BY <1>1 DEF Plans
    <2>2. plan.ops[i][c]["units"] \in Num
        BY <2>1 DEF Operation
    <2>3. shift[i] = IF t.postings[i].acct = a
                     THEN RSub(Moved(plan, i, c, "buy"), Moved(plan, i, c, "sell")) ELSE Zero
        BY DEF OnAccount, Posted, Shifts
    <2>4. RSub(Zero, Zero) = Zero
        BY SubZero, ZeroNum
    <2>5. buy[i] = IF t.postings[i].acct = a THEN Moved(plan, i, c, "buy") ELSE Zero
        BY DEF Moved
    <2>6. sell[i] = IF t.postings[i].acct = a THEN Moved(plan, i, c, "sell") ELSE Zero
        BY DEF Moved
    <2>7. Moved(plan, i, c, "buy") \in Num /\ Moved(plan, i, c, "sell") \in Num
        BY <2>2, ZeroNum DEF Moved
    <2> HIDE DEF buy, sell, shift
    <2>8. QED
        BY <2>3, <2>4, <2>5, <2>6, <2>7, ZeroNum
<1>8. buy \in [1..n -> Num] /\ sell \in [1..n -> Num]
    BY <1>7
<1> HIDE DEF buy, sell, shift
<1>9. RSum(shift) = RSub(RSum(buy), RSum(sell))
    BY <1>1, <1>6, <1>7, <1>8, SumMinus
<1>10. QED
    BY <1>3, <1>4, <1>5, <1>9 DEF shift

(* The cost of the held lots of an account, in c. *)
Holding(e, a, c, held) ==
    [k \in Commodities |-> IF k \in held THEN LotCost(e.inv[a][k], c) ELSE Zero]

LEMMA HoldingIs ==
    ASSUME NEW e, e.inv \in Lots, NEW a \in Accounts, NEW c, NEW held
    PROVE  /\ Holding(e, a, c, held) \in [Commodities -> Num]
           /\ LotsAt(e, a, c, held) = SumOver(Commodities, Holding(e, a, c, held))
<1>1. \A k \in Commodities : LotCost(e.inv[a][k], c) \in Num
    BY LotParts, ZeroNum DEF LotCost
<1>2. Holding(e, a, c, held) \in [Commodities -> Num]
    BY <1>1, ZeroNum DEF Holding
<1>3. Holding(e, a, c, held) =
        [k \in Commodities |->
            IF k \in held /\ e.inv[a][k].costComm = c THEN e.inv[a][k].cost ELSE Zero]
    BY DEF Holding, LotCost
<1>4. QED
    BY <1>2, <1>3 DEF LotsAt

LEMMA HoldingMoves ==
    ASSUME NEW e \in Engine, Sound(e.inv), InCommodity(e.inv), NEW t \in Transaction, Journaled(e, t),
           BookTxn(e, t) \in Engine, NEW a \in Accounts, NEW c \in Commodities, NEW held,
           \A k \in Commodities : OneWay(t, Plan(e, t), a, k)
    PROVE  /\ LotsAt(e, a, c, held) \in Num /\ LotsAt(BookTxn(e, t), a, c, held) \in Num
           /\ LotsAt(BookTxn(e, t), a, c, held) =
                RAdd(LotsAt(e, a, c, held),
                     RSum(OnAccount(Posted(t), a, CostRows(t, Plan(e, t), c, held))))
<1> DEFINE plan == Plan(e, t)
           n == Len(t.postings)
           old == Holding(e, a, c, held)
           new == Holding(BookTxn(e, t), a, c, held)
           at == [k \in Commodities |->
                    IF k \in held THEN Costs(t, plan, a, k, c) ELSE [i \in 1..n |-> Zero]]
           moves == Moves(t, plan, c, held)
           rows == CostRows(t, plan, c, held)
<1>1. e.inv \in Lots /\ BookTxn(e, t).inv \in Lots /\ plan \in Plans(t) /\ n \in Nat
    BY PlanType, GivenParts DEF Engine
<1>2. /\ old \in [Commodities -> Num] /\ new \in [Commodities -> Num]
      /\ LotsAt(e, a, c, held) = SumOver(Commodities, old)
      /\ LotsAt(BookTxn(e, t), a, c, held) = SumOver(Commodities, new)
    BY <1>1, HoldingIs
<1>3. /\ moves \in [1..n -> [Commodities -> Num]] /\ rows \in [1..n -> Num]
      /\ \A i \in 1..n : rows[i] = SumOver(Commodities, moves[i])
    BY <1>1, PostedTypes DEF CostRows
<1>4. at \in [Commodities -> [1..n -> Num]]
    <2>1. \A k \in Commodities : Costs(t, plan, a, k, c) \in [1..n -> Num]
        BY <1>1, CostsType
    <2>2. QED
        BY <2>1, ZeroNum
<1>5. ASSUME NEW k \in Commodities
      PROVE  new[k] = RAdd(old[k], RSum(at[k]))
    <2>1. CASE k \in held
        <3>1. at[k] = Costs(t, plan, a, k, c)
            BY <2>1
        <3>2. new[k] = LotCost(BookTxn(e, t).inv[a][k], c) /\ old[k] = LotCost(e.inv[a][k], c)
            BY <2>1 DEF Holding
        <3>3. QED
            BY <3>1, <3>2, LotCostMoves
    <2>2. CASE k \notin held
        <3>1. new[k] = Zero /\ old[k] = Zero
            BY <2>2 DEF Holding
        <3>2. PICK none : none = at[k]
            OBVIOUS
        <3>3. none = [i \in 1..n |-> none[i]] /\ \A i \in 1..n : none[i] = Zero
            BY <2>2, <3>2
        <3>4. RSum(none) = Zero
            BY <1>1, <3>3, SumTermsZero
        <3>5. QED
            BY <3>1, <3>2, <3>4, AddZero
    <2>3. QED
        BY <2>1, <2>2
<1>6. ASSUME NEW k \in Commodities, NEW i \in 1..n
      PROVE  at[k][i] = IF Posted(t)[i] = a THEN moves[i][k] ELSE Zero
    BY DEF Costs, Moves, Posted
<1> HIDE DEF at, moves, rows, old, new, plan
<1>7. /\ SumOver(Commodities, old) \in Num
      /\ SumOver(Commodities, new) =
            RAdd(SumOver(Commodities, old), RSum(OnAccount(Posted(t), a, rows)))
    BY <1>1, <1>2, <1>3, <1>4, <1>5, <1>6, LotsMove, ZenonT(40)
<1>8. SumOver(Commodities, new) \in Num
    BY <1>2, OverNum, FiniteAssumption
<1>9. QED
    BY <1>2, <1>7, <1>8 DEF rows, plan

(* What an explicit posting moves of the cost of the held lots.            *)
LEMMA GivenRow ==
    ASSUME NEW e, e.inv \in Lots, NEW t \in Transaction, NEW i \in Given(t), NEW c \in Commodities,
           NEW held, NEW k, k = t.postings[i].units.comm
    PROVE  CostRows(t, Plan(e, t), c, held)[i] =
             IF k \in held THEN CostIn(PlanOp(e, t.postings[i]), c) ELSE Zero
<1>1. i \in 1..Len(t.postings) /\ i \in DOMAIN t.postings /\ k \in Commodities /\ Plan(e, t) \in Plans(t)
    BY GivenParts, PlanType
<1>2. PICK move \in [Commodities -> Num] : move = Moves(t, Plan(e, t), c, held)[i]
    BY <1>1, PostedTypes
<1>3. \A x \in Commodities : move[x] = IF x \in held THEN CostIn(Plan(e, t).ops[i][x], c) ELSE Zero
    BY <1>1, <1>2 DEF Moves
<1>4. CostIn(NoOp, c) = Zero
    BY DEF CostIn, NoOp
<1>5. ASSUME NEW x \in Commodities, x # k
      PROVE  move[x] = Zero
    <2>1. Plan(e, t).ops[i][x] = NoOp
        BY <1>1, <1>5, PlannedOp
    <2>2. QED
        BY <1>3, <1>4, <2>1
<1>6. SumOver(Commodities, move) = move[k]
    BY <1>1, <1>5, OverSingle, FiniteAssumption
<1>7. Plan(e, t).ops[i][k] = PlanOp(e, t.postings[i])
    BY <1>1, PlannedOp
<1>8. QED
    BY <1>1, <1>2, <1>3, <1>6, <1>7 DEF CostRows

(* A residual that moves no held lot in c moves no cost of theirs.         *)
LEMMA ResidualRow ==
    ASSUME NEW t \in Transaction, NEW plan \in Plans(t), NEW i \in Residual(t), NEW c \in Commodities,
           NEW held, \A k \in Commodities : k \in held => CostIn(plan.ops[i][k], c) = Zero
    PROVE  CostRows(t, plan, c, held)[i] = Zero
<1>1. i \in 1..Len(t.postings)
    BY GivenParts
<1>2. PICK move \in [Commodities -> Num] : move = Moves(t, plan, c, held)[i]
    BY <1>1, PostedTypes
<1>3. \A k \in Commodities : move[k] = Zero
    BY <1>1, <1>2 DEF Moves
<1>4. SumOver(Commodities, move) = Zero
    BY <1>3, OverNothing, FiniteAssumption
<1>5. QED
    BY <1>1, <1>2, <1>4 DEF CostRows

(* No lot is both bought and sold by the transaction. *)
NoRoundTrip(t, plan) == \A a \in Accounts, k \in Commodities : OneWay(t, plan, a, k)

(* The books at the face of c, lots of other commodities at cost.          *)
LEMMA FaceBalances ==
    ASSUME NEW e \in Engine, Sound(e.inv), InCommodity(e.inv), NEW t \in Transaction, Journaled(e, t),
           BookTxn(e, t) \in Engine, Clean(e, t), NEW c \in Commodities, RNonNeg(e.tol[c]),
           NoRoundTrip(t, Plan(e, t)),
           \A i \in Given(t) : ~Converted(e, t, i),
           \A i \in Given(t) : t.postings[i].units.comm = c =>
                AtOwnFace(e, t, i) \/ ~Costed(Bases(e, t)[i]),
           \A i \in DOMAIN t.postings, k \in Commodities \ {c} :
                i \in Residual(t) \/ (i \in Given(t) /\ AtOwnFace(e, t, i)) =>
                    Plan(e, t).ops[i][k].costComm # c
    PROVE  RWithin(AtFace(BookTxn(e, t), c), AtFace(e, c), e.tol[c])
<1> DEFINE plan == Plan(e, t)
           n == Len(t.postings)
           held == Commodities \ {c}
           own == [a \in Accounts |-> e.bal[a][c]]
           own2 == [a \in Accounts |-> BookTxn(e, t).bal[a][c]]
           lots == [a \in Accounts |-> LotsAt(e, a, c, held)]
           lots2 == [a \in Accounts |-> LotsAt(BookTxn(e, t), a, c, held)]
           books == [a \in Accounts |-> RAdd(e.bal[a][c], LotsAt(e, a, c, held))]
           books2 == [a \in Accounts |-> RAdd(BookTxn(e, t).bal[a][c], LotsAt(BookTxn(e, t), a, c, held))]
           mine == Amts(t, plan, c)
           rows == CostRows(t, plan, c, held)
           parts == [i \in 1..n |-> RAdd(mine[i], rows[i])]
<1>1. /\ e.inv \in Lots /\ e.bal \in Balances /\ BookTxn(e, t).bal \in Balances
      /\ plan \in Plans(t) /\ DOMAIN t.postings = 1..n
    <2>1. e.inv \in Lots /\ e.bal \in Balances /\ BookTxn(e, t).bal \in Balances
        BY DEF Engine
    <2>2. QED
        BY <2>1, PlanType, GivenParts
<1>2. /\ n \in Nat /\ Posted(t) \in [1..n -> Accounts]
      /\ mine \in [1..n -> Num] /\ rows \in [1..n -> Num]
    BY <1>1, PostedTypes
<1>3. parts \in [1..n -> Num] /\ \A i \in 1..n : parts[i] = RAdd(mine[i], rows[i])
    BY <1>2, AddNum
<1>4. ASSUME NEW a \in Accounts
      PROVE  /\ e.bal[a][c] \in Num /\ BookTxn(e, t).bal[a][c] \in Num
             /\ LotsAt(e, a, c, held) \in Num /\ LotsAt(BookTxn(e, t), a, c, held) \in Num
             /\ BookTxn(e, t).bal[a][c] = RAdd(e.bal[a][c], RSum(OnAccount(Posted(t), a, mine)))
             /\ LotsAt(BookTxn(e, t), a, c, held) =
                    RAdd(LotsAt(e, a, c, held), RSum(OnAccount(Posted(t), a, rows)))
    <2>1. e.bal[a][c] \in Num /\ BookTxn(e, t).bal[a][c] \in Num
        BY <1>1 DEF Balances
    <2>2. \A k \in Commodities : OneWay(t, plan, a, k)
        BY DEF NoRoundTrip
    <2> HIDE DEF held
    <2>3. QED
        BY <2>1, <2>2, BalanceMoves, HoldingMoves
<1>5. ASSUME NEW i \in Given(t)
      PROVE  parts[i] = Weighed(e, t, c)[i]
    <2>1. i \in 1..n /\ t.postings[i].units.comm \in Commodities
          /\ plan.ops[i][t.postings[i].units.comm] = PlanOp(e, t.postings[i])
        BY <1>1, GivenParts, PlannedOp
    <2>2. rows[i] = IF t.postings[i].units.comm # c THEN CostIn(PlanOp(e, t.postings[i]), c) ELSE Zero
        BY <1>1, <2>1, GivenRow
    <2>3. mine[i] = plan.amts[i][c]
        BY <2>1 DEF Amts
    <2>4. t.postings[i].units.comm # c /\ AtOwnFace(e, t, i) => PlanOp(e, t.postings[i]).costComm # c
        BY <1>1, <2>1
    <2>5. RAdd(plan.amts[i][c],
               IF t.postings[i].units.comm # c THEN CostIn(PlanOp(e, t.postings[i]), c) ELSE Zero) =
            Weighed(e, t, c)[i]
        BY <1>1, <2>4, GivenAtFace
    <2>6. QED
        BY <1>3, <2>1, <2>2, <2>3, <2>5
<1>6. ASSUME NEW i \in Residual(t)
      PROVE  parts[i] = plan.amts[i][c]
    <2>1. i \in 1..n
        BY <1>1, GivenParts
    <2>2. \A k \in Commodities : k \in held => CostIn(plan.ops[i][k], c) = Zero
        BY <1>1, <2>1 DEF CostIn
    <2>3. rows[i] = Zero
        BY <1>1, <2>2, ResidualRow
    <2>4. mine[i] = plan.amts[i][c] /\ mine[i] \in Num
        BY <1>2, <2>1 DEF Amts
    <2>5. QED
        BY <1>3, <2>1, <2>3, <2>4, AddNothing
<1>7. Gains(Posted(t), own, own2, mine) /\ Gains(Posted(t), lots, lots2, rows)
    <2> HIDE DEF mine, rows, held
    <2>1. QED
        BY <1>4 DEF Gains
<1>8. Joins(books, own, lots) /\ Joins(books2, own2, lots2)
    <2> HIDE DEF held
    <2>1. QED
        BY <1>4, AddNum DEF Joins
<1>9. AtFace(e, c) = SumOver(Accounts, books) /\ AtFace(BookTxn(e, t), c) = SumOver(Accounts, books2)
    BY DEF AtFace
<1> HIDE DEF own, own2, lots, lots2, books, books2, mine, rows, parts
<1>10. RSub(SumOver(Accounts, books2), SumOver(Accounts, books)) = RSum(parts)
    <2>1. Audited(n, Posted(t), mine, rows, parts, own, own2, lots, lots2, books, books2)
        BY <1>2, <1>3, <1>7, <1>8 DEF Audited
    <2>2. QED
        BY <1>2, <2>1, BooksMove
<1>11. RLe(RAbs(RSum(parts)), e.tol[c])
    BY <1>3, <1>5, <1>6, PartsBalance
<1>12. QED
    BY <1>9, <1>10, <1>11 DEF RWithin

(* What the postings book apart from what they move of the lot of c, and   *)
(* so what is left of a balance besides its lot.                           *)
Loose(t, plan, c) == [i \in 1..Len(t.postings) |-> Unlotted(plan, i, c)]

LEMMA LooseMoves ==
    ASSUME NEW e \in Engine, NEW t \in Transaction, Journaled(e, t), BookTxn(e, t) \in Engine,
           NEW a \in Accounts, NEW c \in Commodities,
           NEW old, old = RSub(e.bal[a][c], e.inv[a][c].units),
           NEW new, new = RSub(BookTxn(e, t).bal[a][c], BookTxn(e, t).inv[a][c].units)
    PROVE  /\ old \in Num /\ new \in Num
           /\ new = RAdd(old, RSum(OnAccount(Posted(t), a, Loose(t, Plan(e, t), c))))
<1> DEFINE plan == Plan(e, t)
           n == Len(t.postings)
           amt == OnAccount(Posted(t), a, Amts(t, plan, c))
           shift == OnAccount(Posted(t), a, Shifts(t, plan, c))
           loose == OnAccount(Posted(t), a, Loose(t, plan, c))
<1>1. /\ e.inv \in Lots /\ e.bal \in Balances
      /\ BookTxn(e, t).inv \in Lots /\ BookTxn(e, t).bal \in Balances
    BY DEF Engine
<1>2. plan \in Plans(t) /\ DOMAIN t.postings = 1..n /\ n \in Nat
    BY <1>1, PlanType, GivenParts
<1>3. /\ e.bal[a][c] \in Num /\ e.inv[a][c].units \in Num
      /\ BookTxn(e, t).bal[a][c] \in Num /\ BookTxn(e, t).inv[a][c].units \in Num
    BY <1>1, LotParts DEF Balances
<1>4. /\ Posted(t) \in [1..n -> Accounts]
      /\ Amts(t, plan, c) \in [1..n -> Num] /\ Shifts(t, plan, c) \in [1..n -> Num]
    BY <1>2, PostedTypes
<1>5. Loose(t, plan, c) \in [1..n -> Num]
    BY <1>2, UnlottedNum DEF Loose
<1>6. /\ amt \in [1..n -> Num] /\ shift \in [1..n -> Num] /\ loose \in [1..n -> Num]
      /\ RSum(amt) \in Num /\ RSum(shift) \in Num
    BY <1>2, <1>4, <1>5, OnAccountType
<1>7. ASSUME NEW i \in 1..n
      PROVE  loose[i] = RSub(amt[i], shift[i])
    <2>1. RSub(Zero, Zero) = Zero
        BY SubZero, ZeroNum
    <2>2. Loose(t, plan, c)[i] = RSub(Amts(t, plan, c)[i], Shifts(t, plan, c)[i])
        BY DEF Loose, Unlotted, Amts, Shifts
    <2>3. QED
        BY <1>4, <1>5, <2>1, <2>2 DEF OnAccount
<1> HIDE DEF amt, shift, loose, plan
<1>8. RSum(loose) = RSub(RSum(amt), RSum(shift))
    BY <1>2, <1>6, <1>7, SumMinus
<1>9. /\ BookTxn(e, t).bal[a][c] = RAdd(e.bal[a][c], RSum(amt))
      /\ BookTxn(e, t).inv[a][c].units = RAdd(e.inv[a][c].units, RSum(shift))
    BY BalanceMoves, UnitsMove DEF amt, shift, plan
<1>10. new = RAdd(old, RSum(loose))
    BY <1>3, <1>6, <1>8, <1>9, SubSwap
<1>11. QED
    BY <1>3, <1>10, SubNum DEF loose, plan

(* An explicit posting that moves a lot names a commodity of cost: buys    *)
(* name one, and what is sold without being bought was held at one.        *)
LEMMA GivenInCommodity ==
    ASSUME NEW e \in Engine, InCommodity(e.inv), NEW t \in Transaction, Journaled(e, t),
           NoRoundTrip(t, Plan(e, t)), NEW i \in Given(t),
           NEW op, op = PlanOp(e, t.postings[i]), op.kind # "none"
    PROVE  op.costComm # NoComm
<1> DEFINE plan == Plan(e, t)
           a == t.postings[i].acct
           k == t.postings[i].units.comm
<1>1. /\ e.inv \in Lots /\ plan \in Plans(t)
      /\ i \in DOMAIN t.postings /\ a \in Accounts /\ k \in Commodities
    <2>1. e.inv \in Lots
        BY DEF Engine
    <2>2. QED
        BY <2>1, PlanType, GivenParts
<1>2. plan.ops[i][k] = op
    BY <1>1, PlannedOp
<1>3. CASE op.kind = "buy"
    <2>1. Faultless(e, t)
        BY JournaledIs
    <2>2. plan.ops[i][k].costComm \in Commodities
        BY <1>1, <1>2, <1>3, <2>1, PlannedBuys
    <2>3. QED
        BY <1>2, <2>2, CommoditiesAssumption
<1>4. CASE op.kind = "sell"
    <2>1. \A j \in DOMAIN t.postings : ~(t.postings[j].acct = a /\ plan.ops[j][k].kind = "buy")
        BY <1>1, <1>2, <1>4 DEF NoRoundTrip, OneWay
    <2>2. Oversold(e, t, plan) = {}
        BY JournaledIs
    <2>3. HasPosition(e, a, k)
        BY <1>1, <1>2, <1>4, <2>1, <2>2, HeldIfSold
    <2>4. op = SellOp(op.units, e.inv[a][k])
        BY <1>1, <1>2, <1>4, PlannedSell
    <2>5. PICK pos : pos = e.inv[a][k]
        OBVIOUS
    <2>6. pos.units # Zero /\ pos.costComm # NoComm
        BY <1>1, <2>3, <2>5 DEF InCommodity, HasPosition
    <2>7. SellOp(op.units, pos).costComm = pos.costComm
        BY <2>6 DEF SellOp
    <2>8. QED
        BY ONLY <2>4, <2>5, <2>6, <2>7
<1>5. op.kind \in {"none", "buy", "sell"}
    <2>1. op \in Operation
        BY <1>1, <1>2 DEF Plans
    <2>2. QED
        BY <2>1 DEF Operation
<1>6. QED
    BY <1>3, <1>4, <1>5

(* The books with lots at cost.                                            *)
LEMMA CostBalances ==
    ASSUME NEW e \in Engine, Sound(e.inv), InCommodity(e.inv), NEW t \in Transaction, Journaled(e, t),
           BookTxn(e, t) \in Engine, Clean(e, t), NEW c \in Commodities, RNonNeg(e.tol[c]),
           NoRoundTrip(t, Plan(e, t)),
           \A i \in Given(t) : ~Converted(e, t, i) /\ ~AtOwnFace(e, t, i),
           \A i \in Residual(t), k \in Commodities : Plan(e, t).ops[i][k].kind = "none"
    PROVE  RWithin(AtCost(BookTxn(e, t), c), AtCost(e, c), e.tol[c])
<1> DEFINE plan == Plan(e, t)
           n == Len(t.postings)
           held == Commodities
           own == [a \in Accounts |-> RSub(e.bal[a][c], e.inv[a][c].units)]
           own2 == [a \in Accounts |-> RSub(BookTxn(e, t).bal[a][c], BookTxn(e, t).inv[a][c].units)]
           lots == [a \in Accounts |-> LotsAt(e, a, c, held)]
           lots2 == [a \in Accounts |-> LotsAt(BookTxn(e, t), a, c, held)]
           books == [a \in Accounts |->
                        RAdd(RSub(e.bal[a][c], e.inv[a][c].units), LotsAt(e, a, c, held))]
           books2 == [a \in Accounts |->
                        RAdd(RSub(BookTxn(e, t).bal[a][c], BookTxn(e, t).inv[a][c].units),
                             LotsAt(BookTxn(e, t), a, c, held))]
           mine == Loose(t, plan, c)
           rows == CostRows(t, plan, c, held)
           parts == [i \in 1..n |-> RAdd(mine[i], rows[i])]
<1>1. e.inv \in Lots /\ plan \in Plans(t) /\ DOMAIN t.postings = 1..n
    <2>1. e.inv \in Lots
        BY DEF Engine
    <2>2. QED
        BY <2>1, PlanType, GivenParts
<1>2. /\ n \in Nat /\ Posted(t) \in [1..n -> Accounts]
      /\ mine \in [1..n -> Num] /\ rows \in [1..n -> Num]
    BY <1>1, PostedTypes, UnlottedNum DEF Loose
<1>3. parts \in [1..n -> Num] /\ \A i \in 1..n : parts[i] = RAdd(mine[i], rows[i])
    BY <1>2, AddNum
<1>4. ASSUME NEW a \in Accounts
      PROVE  /\ RSub(e.bal[a][c], e.inv[a][c].units) \in Num
             /\ RSub(BookTxn(e, t).bal[a][c], BookTxn(e, t).inv[a][c].units) \in Num
             /\ LotsAt(e, a, c, held) \in Num /\ LotsAt(BookTxn(e, t), a, c, held) \in Num
             /\ RSub(BookTxn(e, t).bal[a][c], BookTxn(e, t).inv[a][c].units) =
                    RAdd(RSub(e.bal[a][c], e.inv[a][c].units), RSum(OnAccount(Posted(t), a, mine)))
             /\ LotsAt(BookTxn(e, t), a, c, held) =
                    RAdd(LotsAt(e, a, c, held), RSum(OnAccount(Posted(t), a, rows)))
    <2>1. \A k \in Commodities : OneWay(t, plan, a, k)
        BY DEF NoRoundTrip
    <2> HIDE DEF held
    <2>2. QED
        BY <2>1, LooseMoves, HoldingMoves
<1>5. ASSUME NEW i \in Given(t)
      PROVE  parts[i] = Weighed(e, t, c)[i]
    <2>1. i \in 1..n /\ t.postings[i].units.comm \in Commodities
        BY <1>1, GivenParts
    <2>2. rows[i] = CostIn(PlanOp(e, t.postings[i]), c)
        BY <1>1, <2>1, GivenRow
    <2>3. mine[i] = Unlotted(plan, i, c)
        BY <2>1 DEF Loose
    <2>4. PlanOp(e, t.postings[i]).kind # "none" => PlanOp(e, t.postings[i]).costComm # NoComm
        BY GivenInCommodity
    <2>5. RAdd(Unlotted(plan, i, c), CostIn(PlanOp(e, t.postings[i]), c)) = Weighed(e, t, c)[i]
        BY <1>1, <2>4, GivenAtCost
    <2>6. QED
        BY <1>3, <2>1, <2>2, <2>3, <2>5
<1>6. ASSUME NEW i \in Residual(t)
      PROVE  parts[i] = plan.amts[i][c]
    <2>1. i \in 1..n
        BY <1>1, GivenParts
    <2>2. \A k \in Commodities : k \in held => CostIn(plan.ops[i][k], c) = Zero
        BY <1>1, <2>1 DEF CostIn
    <2>3. rows[i] = Zero
        BY <1>1, <2>2, ResidualRow
    <2>4. Moved(plan, i, c, "buy") = Zero /\ Moved(plan, i, c, "sell") = Zero
        BY DEF Moved
    <2>5. RSub(Zero, Zero) = Zero /\ plan.amts[i][c] \in Num
        BY <1>1, <2>1, SubZero, ZeroNum, UnlottedNum
    <2>6. RSub(plan.amts[i][c], Zero) = plan.amts[i][c]
        BY <2>5, NegZero, AddNothing DEF RSub
    <2>7. mine[i] = plan.amts[i][c]
        BY <2>1, <2>4, <2>5, <2>6 DEF Loose, Unlotted
    <2>8. QED
        BY <1>3, <2>1, <2>3, <2>5, <2>7, AddNothing
<1>7. Gains(Posted(t), own, own2, mine) /\ Gains(Posted(t), lots, lots2, rows)
    <2> HIDE DEF mine, rows, held
    <2>1. QED
        BY <1>4 DEF Gains
<1>8. Joins(books, own, lots) /\ Joins(books2, own2, lots2)
    <2> HIDE DEF held
    <2>1. QED
        BY <1>4, AddNum DEF Joins
<1>9. AtCost(e, c) = SumOver(Accounts, books) /\ AtCost(BookTxn(e, t), c) = SumOver(Accounts, books2)
    BY DEF AtCost
<1> HIDE DEF own, own2, lots, lots2, books, books2, mine, rows, parts
<1>10. RSub(SumOver(Accounts, books2), SumOver(Accounts, books)) = RSum(parts)
    <2>1. Audited(n, Posted(t), mine, rows, parts, own, own2, lots, lots2, books, books2)
        BY <1>2, <1>3, <1>7, <1>8 DEF Audited
    <2>2. QED
        BY <1>2, <2>1, BooksMove
<1>11. RLe(RAbs(RSum(parts)), e.tol[c])
    BY <1>3, <1>5, <1>6, PartsBalance
<1>12. QED
    BY <1>9, <1>10, <1>11 DEF RWithin

----------------------------------------------------------------------------
(* Double entry, for tolerances that are not negative. *)

Tolerant == \A c \in Commodities : RNonNeg(Tolerance[c])

(* What a step that journals a transaction without error does.             *)
LEMMA CleanStep ==
    ASSUME LedgerInv, Next, BooksCleanTxn
    PROVE  /\ eng \in Engine /\ eng.tol = Tolerance /\ Sound(eng.inv) /\ InCommodity(eng.inv)
           /\ cur' \in Transaction /\ eng' = BookTxn(eng, cur') /\ BookTxn(eng, cur') \in Engine
           /\ Journaled(eng, cur') /\ Clean(eng, cur')
<1>1. eng \in Engine /\ eng.tol = Tolerance /\ Sound(eng.inv) /\ InCommodity(eng.inv)
    BY DEF LedgerInv, TypeInv
<1>2. PICK t : IsDirective(t) /\ Books(t)
    BY <1>1, StepBooks DEF LedgerInv
<1>3. /\ cur' = t /\ t \in Transaction
      /\ eng' = BookTxn(eng, t) /\ BookTxn(eng, t) = BookDirective(eng, t)
    BY <1>2, DirectiveParts DEF BooksCleanTxn, Books, BookDirective
<1>4. Journaled(eng, t) /\ Clean(eng, t)
    BY <1>1, <1>3, BookedIs DEF BooksCleanTxn, Booked, Clean
<1>5. BookTxn(eng, t) \in Engine
    BY <1>1, <1>2, <1>3, BookDirectiveIs
<1>6. QED
    BY <1>1, <1>3, <1>4, <1>5

(* A transaction booked without error leaves the books, lots valued at     *)
(* cost, where they were in every commodity, to within the tolerance:      *)
(* what the weights of the postings say of a transaction is what booking   *)
(* it does to balances and lots.                                           *)
THEOREM TxnsBalanceAtCost ==
    ASSUME Tolerant
    PROVE  Spec => BalancedAtCost
<1> DEFINE Settled ==
        BooksCleanTxn /\ WeighsAtCost(Plan(eng, cur')) =>
            \A c \in Commodities : RWithin(AtCost(eng', c), AtCost(eng, c), Tolerance[c])
<1>1. LedgerInv /\ [Next]_vars => [Settled]_vars
    <2> SUFFICES ASSUME LedgerInv, Next, BooksCleanTxn, WeighsAtCost(Plan(eng, cur')),
                        NEW c \in Commodities
                 PROVE  RWithin(AtCost(eng', c), AtCost(eng, c), Tolerance[c])
        OBVIOUS
    <2>1. PICK t \in Transaction : cur' = t /\ eng' = BookTxn(eng, t)
        BY CleanStep
    <2>2. /\ eng \in Engine /\ eng.tol = Tolerance /\ Sound(eng.inv) /\ InCommodity(eng.inv)
          /\ BookTxn(eng, t) \in Engine /\ Journaled(eng, t) /\ Clean(eng, t)
        BY <2>1, CleanStep
    <2>3. Plan(eng, t).basis = Bases(eng, t) /\ DOMAIN Plan(eng, t).ops = DOMAIN t.postings
        BY PlanIs DEF Operations
    <2>4. NoRoundTrip(t, Plan(eng, t))
        BY <2>1, <2>3 DEF WeighsAtCost, RoundTrip, NoRoundTrip, OneWay
    <2>5. \A i \in Given(t) : ~AtOwnFace(eng, t, i)
        BY <2>1, <2>3 DEF WeighsAtCost, FaceWeighted, AtOwnFace, Demand
    <2>6. \A i \in Given(t) : ~Converted(eng, t, i)
        BY <2>1, <2>3 DEF WeighsAtCost, Conversions, Converted
    <2>7. \A i \in Residual(t), k \in Commodities : Plan(eng, t).ops[i][k].kind = "none"
        BY <2>1 DEF WeighsAtCost, ResidualMovesLot
    <2>8. RNonNeg(eng.tol[c])
        BY <2>2 DEF Tolerant
    <2>9. RWithin(AtCost(BookTxn(eng, t), c), AtCost(eng, c), eng.tol[c])
        BY <2>2, <2>4, <2>5, <2>6, <2>7, <2>8, CostBalances
    <2>10. QED
        BY <2>1, <2>2, <2>9
<1>2. QED
    BY <1>1, LedgerInvariant, PTL DEF Spec, BalancedAtCost

(* A transaction booked without error that spends a currency held at a     *)
(* foreign cost balances in that currency's own amounts, together with     *)
(* the lots of other commodities at their cost in it.                      *)
THEOREM FxSpendsBalanceAtFace ==
    ASSUME Tolerant
    PROVE  Spec => FxSpendBalancedAtFace
<1> DEFINE Settled ==
        BooksCleanTxn =>
            \A c \in SpentAtFace(Plan(eng, cur')) :
                RWithin(AtFace(eng', c), AtFace(eng, c), Tolerance[c])
<1>1. LedgerInv /\ [Next]_vars => [Settled]_vars
    <2> SUFFICES ASSUME LedgerInv, Next, BooksCleanTxn,
                        NEW c \in SpentAtFace(Plan(eng, cur'))
                 PROVE  RWithin(AtFace(eng', c), AtFace(eng, c), Tolerance[c])
        OBVIOUS
    <2>1. PICK t \in Transaction : cur' = t /\ eng' = BookTxn(eng, t)
        BY CleanStep
    <2>2. /\ eng \in Engine /\ eng.tol = Tolerance /\ Sound(eng.inv) /\ InCommodity(eng.inv)
          /\ BookTxn(eng, t) \in Engine /\ Journaled(eng, t) /\ Clean(eng, t)
        BY <2>1, CleanStep
    <2>3. Plan(eng, t).basis = Bases(eng, t) /\ DOMAIN Plan(eng, t).ops = DOMAIN t.postings
        BY PlanIs DEF Operations
    <2>4. PICK face : face = FaceWeighted(Plan(eng, t))
        OBVIOUS
    <2>5. \A i : i \in face <=> i \in Given(t) /\ AtOwnFace(eng, t, i)
        BY <2>1, <2>3, <2>4 DEF FaceWeighted, AtOwnFace, Demand
    <2>6. /\ ~RoundTrip(Plan(eng, t)) /\ Conversions(Plan(eng, t)) = {}
          /\ \E i \in face : c = t.postings[i].units.comm
          /\ \A i \in Given(t) : t.postings[i].units.comm = c =>
                i \in face \/ ~Costed(Bases(eng, t)[i])
          /\ \A i \in face \cup Residual(t), k \in Commodities \ {c} :
                Plan(eng, t).ops[i][k].costComm # c
        BY <2>1, <2>3, <2>4 DEF SpentAtFace
    <2>7. c \in Commodities
        BY <2>5, <2>6, GivenParts
    <2>8. NoRoundTrip(t, Plan(eng, t))
        BY <2>1, <2>3, <2>6 DEF RoundTrip, NoRoundTrip, OneWay
    <2>9. \A i \in Given(t) : ~Converted(eng, t, i)
        BY <2>1, <2>3, <2>6 DEF Conversions, Converted
    <2>10. RNonNeg(eng.tol[c])
        BY <2>2, <2>7 DEF Tolerant
    <2>11. RWithin(AtFace(BookTxn(eng, t), c), AtFace(eng, c), eng.tol[c])
        <3>1. \A i \in Given(t) : t.postings[i].units.comm = c =>
                AtOwnFace(eng, t, i) \/ ~Costed(Bases(eng, t)[i])
            BY <2>5, <2>6
        <3>2. \A i \in DOMAIN t.postings, k \in Commodities \ {c} :
                i \in Residual(t) \/ (i \in Given(t) /\ AtOwnFace(eng, t, i)) =>
                    Plan(eng, t).ops[i][k].costComm # c
            BY <2>5, <2>6
        <3>3. QED
            BY <2>2, <2>7, <2>8, <2>9, <2>10, <3>1, <3>2, FaceBalances
    <2>12. QED
        BY <2>1, <2>2, <2>11
<1>2. QED
    BY <1>1, LedgerInvariant, PTL DEF Spec, FxSpendBalancedAtFace
=============================================================================
