-------------------------- MODULE FrontEndsProofs --------------------------
(***************************************************************************)
(* What the pages promise, for any number of pages loaded, transactions    *)
(* in flight and events, any prices and any amounts that are typed.        *)
(***************************************************************************)
EXTENDS FrontEnds, SumsProofs

-----------------------------------------------------------------------------
(* The pages of a Safe: what each of them, and each transaction, keeps. *)

Buttons == {"openSafe", "borrow", "repay", "closeSafe", "user-balances"}

Chains == [price : Prices, owner : {"none", "user", "other"}, collateral : Nat, debt : Nat,
           owedDebt : Nat, owedCollateral : Nat, stakers : BOOLEAN]

PageData == [safeId : BOOLEAN, price : Nat, collateral : Nat, debt : Nat, value : Int,
             max : Int, deposit : Deposits \cup {0}, amount : Amounts \cup {0},
             rate : 0 .. 300, fee : Int, youGet : Int, of : Amounts \cup {0},
             repayValue : Amounts \cup {None}, ratio : Int,
             buttons : SUBSET Buttons, visit : Nat, fresh : BOOLEAN]

Transactions == [call : {"openSafe", "borrow", "repay", "closeSafe"}, app : Apps,
                 visit : Nat, amount : Nat, rate : 0 .. 300, youGet : Int,
                 of : Amounts \cup {0}, fresh : BOOLEAN]

SafeAppsType ==
  /\ chain \in Chains /\ dfid \in Nat
  /\ page \in [Apps -> PageData]
  /\ sent \in Seq(Transactions)
  /\ visits \in Nat /\ events \in Nat

\* "You Get" comes with an amount, and is at most what that amount and the rate give:
\* they change together, unless the slider goes to a 0 that its handler does not notice.
Agrees(data) ==
  data.youGet # None => /\ data.amount # 0
                        /\ data.youGet <= data.of - Fee(data.of, Parsed(data.rate))

\* The maximum is that of the deposit which was typed, or else of what was read.
MaximumOf(data) ==
  IF data.deposit = 0 THEN MaxBorrow(Value(data.collateral, data.price)) - data.debt
                      ELSE MaxBorrow(Value(data.deposit, data.price))
Bounded(data) == data.max # None => data.max = MaximumOf(data)

\* What a transaction carries is what its page said.
Carries(tx) ==
  /\ tx.call = "openSafe" => tx.amount \in Deposits
  /\ tx.youGet # None => tx.youGet <= tx.of - Fee(tx.of, tx.rate)

\* A page that is fresh has read the Safe as it is, and offers what comes next.
UpToDate(data) ==
  data.fresh /\ chain.owner = "user" =>
    /\ data.collateral = chain.collateral /\ data.debt = chain.debt
    /\ "openSafe" \notin data.buttons /\ (Room > 0 => "borrow" \in data.buttons)

SafeAppsInv ==
  /\ SafeAppsType
  /\ chain.owner = "user" => chain.collateral > 0
  /\ \A app \in Apps : Agrees(page[app]) /\ Bounded(page[app])
  /\ UpToDate(page["borrow"])
  /\ \A i \in DOMAIN sent : Carries(sent[i])
  /\ GetsWhatIsShown /\ RetryDepositsOnce

\* The names of the pages are different.
LEMMA SafeAppsNames ==
  /\ "borrow" \in Apps /\ "repay" \in Apps /\ "closeSafe" \in Apps /\ "user-balances" \in Apps
  /\ "borrow" # "repay" /\ "borrow" # "closeSafe" /\ "borrow" # "user-balances"
BY DEF Apps

\* The rate that is sent is one of the slider's, and no fee exceeds its amount.
LEMMA FeeBounds ==
  /\ \A r \in 0 .. 300 : Parsed(r) \in 0 .. 300
  /\ \A a \in Nat, r \in 0 .. 300 : Fee(a, r) \in Nat /\ Fee(a, r) <= a
<1>1. ASSUME NEW r \in 0 .. 300 PROVE Parsed(r) \in 0 .. 300
  <2>1. r \in Truncated => r > 0
    BY DEF Truncated
  <2>2. QED
    BY <2>1 DEF Parsed
<1>2. ASSUME NEW a \in Nat, NEW r \in 0 .. 300
      PROVE  Fee(a, r) \in Nat /\ Fee(a, r) <= a
  <2>1. PICK x \in Nat : x = a * r
    OBVIOUS
  <2>2. x <= 10000 * a
    BY <2>1
  <2>3. x \div 10000 \in Nat /\ 10000 * (x \div 10000) <= x
    BY <2>1
  <2>4. QED
    BY <2>1, <2>2, <2>3 DEF Fee, BASIS_POINTS_DIVISOR
<1>3. QED
  BY <1>1, <1>2

\* What a page computes of a collateral is a number.
LEMMA MaxBorrowType ==
  \A c, p \in Nat : Value(c, p) \in Nat /\ MaxBorrow(Value(c, p)) \in Nat
<1> SUFFICES ASSUME NEW c \in Nat, NEW p \in Nat
             PROVE  Value(c, p) \in Nat /\ MaxBorrow(Value(c, p)) \in Nat
  OBVIOUS
<1>1. PICK x \in Nat : x = c * p
  OBVIOUS
<1>2. x \div PRECISION \in Nat
  BY <1>1, DivisionRoundsDown, SafeAppsAssumption
<1>3. PICK v \in Nat : v = Value(c, p)
  BY <1>1, <1>2 DEF Value
<1>4. (v * 10000) \div 11000 \in Nat
  OBVIOUS
<1>5. QED
  BY <1>3, <1>4 DEF MaxBorrow, BASIS_POINTS_DIVISOR, liquidationRatio

\* A page that is not loaded claims nothing.
LEMMA UnloadedPage ==
  /\ Unloaded \in PageData
  /\ Unloaded.max = None /\ Unloaded.youGet = None /\ Unloaded.deposit = 0
  /\ Unloaded.fresh = FALSE /\ Unloaded.buttons = {}
BY DEF Unloaded, PageData, None

\* Numbers are what is read of the chain, and what is typed.
LEMMA SafeAppsNumbers ==
  /\ \A c \in Chains : c.price \in Nat \ {0} /\ c.collateral \in Nat /\ c.debt \in Nat
                     /\ c.owedDebt \in Nat /\ c.owedCollateral \in Nat
  /\ \A d \in PageData : d.amount \in Nat /\ d.deposit \in Nat /\ d.of \in Nat
                       /\ d.price \in Nat /\ d.collateral \in Nat /\ d.debt \in Nat
                       /\ d.rate \in 0 .. 300
<1>1. /\ Amounts \cup {0} \subseteq Nat /\ Deposits \cup {0} \subseteq Nat
      /\ Prices \subseteq Nat \ {0}
  BY SafeAppsAssumption
<1>2. \A c \in Chains : c.price \in Nat \ {0} /\ c.collateral \in Nat /\ c.debt \in Nat
                      /\ c.owedDebt \in Nat /\ c.owedCollateral \in Nat
  BY <1>1 DEF Chains
<1>3. \A d \in PageData : d.amount \in Nat /\ d.deposit \in Nat /\ d.of \in Nat
                        /\ d.price \in Nat /\ d.collateral \in Nat /\ d.debt \in Nat
                        /\ d.rate \in 0 .. 300
  BY <1>1 DEF PageData
<1>4. QED
  BY <1>2, <1>3

\* Initially no page is loaded and there is no Safe.
LEMMA SafeAppsInit == Init => SafeAppsInv
<1> SUFFICES ASSUME Init PROVE SafeAppsInv
  OBVIOUS
<1>1. chain \in Chains /\ chain.owner = "none"
  BY DEF Init, Chains
<1>2. page \in [Apps -> PageData] /\ \A app \in Apps : page[app] = Unloaded
  BY UnloadedPage DEF Init
<1>3. sent = <<>> /\ sent \in Seq(Transactions) /\ DOMAIN sent = {}
  BY DEF Init
<1>4. SafeAppsType
  BY <1>1, <1>2, <1>3 DEF SafeAppsType, Init
<1>5. \A app \in Apps : Agrees(page[app]) /\ Bounded(page[app])
  BY <1>2, UnloadedPage DEF Agrees, Bounded
<1>6. UpToDate(page["borrow"])
  BY <1>1 DEF UpToDate
<1>7. GetsWhatIsShown /\ RetryDepositsOnce
  BY DEF Init, GetsWhatIsShown, RetryDepositsOnce
<1>8. QED
  BY <1>1, <1>3, <1>4, <1>5, <1>6, <1>7 DEF SafeAppsInv

\* A step that changes the data of one page to data that claim no more than they
\* may preserves the invariant.
LEMMA SafeAppsPage ==
  ASSUME SafeAppsInv, NEW app \in Apps, NEW data \in PageData,
         page' = [page EXCEPT ![app] = data], visits' \in Nat,
         UNCHANGED <<chain, dfid, sent, events, outcome, paidIn>>,
         Agrees(data), Bounded(data), app = "borrow" => UpToDate(data)
  PROVE  SafeAppsInv'
<1>1. page \in [Apps -> PageData]
  BY DEF SafeAppsInv, SafeAppsType
<1>2. page'[app] = data /\ \A a \in Apps : a # app => page'[a] = page[a]
  BY <1>1
<1>3. SafeAppsType'
  BY <1>1 DEF SafeAppsInv, SafeAppsType
<1>4. \A a \in Apps : (Agrees(page[a]) /\ Bounded(page[a]))'
  BY <1>2 DEF SafeAppsInv, Agrees, Bounded, MaximumOf
<1>5. UpToDate(page["borrow"])'
  BY <1>2, SafeAppsNames DEF SafeAppsInv, UpToDate, Room
<1>6. (\A i \in DOMAIN sent : Carries(sent[i]))' /\ GetsWhatIsShown' /\ RetryDepositsOnce'
  BY DEF SafeAppsInv, GetsWhatIsShown, RetryDepositsOnce, Carries
<1>7. QED
  BY <1>3, <1>4, <1>5, <1>6 DEF SafeAppsInv

\* What load-safe.js has read is the Safe as it is.
LEMMA ReadPage ==
  ASSUME SafeAppsInv
  PROVE  /\ Read \in PageData /\ Read.max = None /\ Read.youGet = None /\ Read.deposit = 0
         /\ Read.buttons = {} /\ Read.price = chain.price
         /\ Read.collateral = chain.collateral /\ Read.debt = chain.debt
<1>1. chain \in Chains /\ visits + 1 \in Nat
  BY DEF SafeAppsInv, SafeAppsType
<1>2. chain.price \in Nat /\ chain.collateral \in Nat /\ chain.debt \in Nat
  BY <1>1, SafeAppsNumbers
<1>3. Read \in PageData
  <2>1. \A d \in PageData, p, c, b, n \in Nat :
          [d EXCEPT !.safeId = TRUE, !.price = p, !.fresh = TRUE, !.collateral = c, !.debt = b,
                    !.visit = n] \in PageData
    BY ZenonT(60) DEF PageData
  <2>2. QED
    BY <1>1, <1>2, <2>1, UnloadedPage DEF Read
<1>4. /\ Read.max = Unloaded.max /\ Read.youGet = Unloaded.youGet
      /\ Read.deposit = Unloaded.deposit /\ Read.buttons = Unloaded.buttons
  BY UnloadedPage DEF Read, PageData
<1>5. /\ Read.price = chain.price /\ Read.collateral = chain.collateral
      /\ Read.debt = chain.debt
  BY UnloadedPage DEF Read, PageData
<1>6. QED
  BY <1>3, <1>4, <1>5, UnloadedPage

\* A page that has read the Safe, with other buttons, values and ratios, claims
\* nothing that the Safe does not bear out.
LEMMA LoadedPage ==
  ASSUME SafeAppsInv, NEW app \in Opened, ~Throws(app)
  PROVE  /\ Loaded(app) \in PageData /\ Agrees(Loaded(app)) /\ Bounded(Loaded(app))
         /\ app = "borrow" => UpToDate(Loaded(app))
<1> DEFINE r == Read
           v == Value(chain.collateral, chain.price)
<1>1. chain \in Chains /\ visits + 1 \in Nat
  BY DEF SafeAppsInv, SafeAppsType
<1>2. app \in {"borrow", "repay", "closeSafe", "user-balances"}
  BY SafeAppsAssumption
<1>3. /\ r \in PageData /\ r.max = None /\ r.youGet = None /\ r.deposit = 0
      /\ r.buttons = {} /\ r.price = chain.price
      /\ r.collateral = chain.collateral /\ r.debt = chain.debt
  BY ReadPage
<1>4. v \in Nat /\ MaxBorrow(v) \in Nat /\ Room = MaxBorrow(v) - chain.debt /\ Room \in Int
  <2>1. chain.price \in Nat /\ chain.collateral \in Nat /\ chain.debt \in Nat
    BY <1>1, SafeAppsNumbers
  <2>2. v \in Nat /\ MaxBorrow(v) \in Nat
    BY <2>1, MaxBorrowType
  <2>3. Room = MaxBorrow(v) - chain.debt
    BY DEF Room
  <2>4. QED
    BY <2>1, <2>2, <2>3
<1> HIDE DEF r, v
<1>5. {"borrow"} \in SUBSET Buttons /\ {"closeSafe"} \in SUBSET Buttons
      /\ {"repay"} \in SUBSET Buttons
  BY DEF Buttons
<1>6. CASE chain.owner = "other"
  <2>1. Loaded(app) = [Unloaded EXCEPT !.visit = visits + 1]
    BY <1>6 DEF Loaded
  <2>2. /\ Loaded(app) \in PageData /\ Loaded(app).max = None
        /\ Loaded(app).youGet = None /\ Loaded(app).fresh = FALSE
    BY <1>1, <2>1, UnloadedPage DEF PageData
  <2>3. QED
    BY <2>2 DEF Agrees, Bounded, UpToDate
<1>7. CASE chain.owner # "other" /\ app = "borrow"
  <2>1. CASE chain.owner = "user" /\ Room > 0
    <3>1. Loaded(app) = [r EXCEPT !.buttons = {"borrow"}, !.max = Room, !.value = v]
      BY <1>7, <2>1 DEF Loaded, r, v
    <3>2. /\ Loaded(app) \in PageData /\ Loaded(app).max = Room
          /\ Loaded(app).youGet = r.youGet /\ Loaded(app).deposit = r.deposit
          /\ Loaded(app).price = r.price /\ Loaded(app).collateral = r.collateral
          /\ Loaded(app).debt = r.debt /\ Loaded(app).buttons = {"borrow"}
      <4>1. PICK d \in PageData : d = r
        BY <1>3
      <4>2. PICK m \in Int, w \in Int : m = Room /\ w = v
        BY <1>4
      <4>3. Loaded(app) = [d EXCEPT !.buttons = {"borrow"}, !.max = m, !.value = w]
        BY <3>1, <4>1, <4>2
      <4>4. Loaded(app) \in PageData
        BY <1>5, <4>3, ZenonT(60) DEF PageData
      <4>5. Loaded(app).max = m /\ Loaded(app).buttons = {"borrow"}
        BY <4>3 DEF PageData
      <4>6. /\ Loaded(app).youGet = d.youGet /\ Loaded(app).deposit = d.deposit
            /\ Loaded(app).price = d.price
        BY <4>3 DEF PageData
      <4>7. Loaded(app).collateral = d.collateral /\ Loaded(app).debt = d.debt
        BY <4>3 DEF PageData
      <4>8. QED
        BY <4>1, <4>2, <4>4, <4>5, <4>6, <4>7
    <3>3. Bounded(Loaded(app))
      BY <1>3, <1>4, <3>2 DEF Bounded, MaximumOf, v
    <3>4. QED
      BY <1>3, <3>2, <3>3 DEF Agrees, UpToDate
  <2>2. CASE ~(chain.owner = "user" /\ Room > 0)
    <3>1. Loaded(app) = r
      BY <1>7, <2>2 DEF Loaded, r
    <3>2. QED
      BY <1>3, <2>2, <3>1 DEF Agrees, Bounded, UpToDate
  <2>3. QED
    BY <2>1, <2>2
<1>8. CASE chain.owner # "other" /\ app = "closeSafe"
  <2>1. Loaded(app) = [r EXCEPT !.buttons = {"closeSafe"}]
    BY <1>8 DEF Loaded, r
  <2>2. /\ Loaded(app) \in PageData /\ Loaded(app).max = r.max
        /\ Loaded(app).youGet = r.youGet
    BY <1>3, <1>5, <2>1 DEF PageData
  <2>3. QED
    BY <1>3, <1>8, <2>2 DEF Agrees, Bounded
<1>9. chain.debt > 0 => RatioShown \in Nat
  <2> SUFFICES ASSUME chain.debt > 0 PROVE RatioShown \in Nat
    OBVIOUS
  <2>1. PICK d \in Nat \ {0}, w \in Nat : d = chain.debt /\ w = v
    BY <1>1, <1>4, SafeAppsNumbers
  <2>2. PICK x \in Nat : x = w * 10000
    OBVIOUS
  <2>3. PICK y \in Nat : y = x \div d
    BY DivisionRoundsDown
  <2>4. y \div 100 \in Nat
    OBVIOUS
  <2>5. QED
    BY <2>1, <2>2, <2>3, <2>4 DEF RatioShown, BASIS_POINTS_DIVISOR, v
<1>10. CASE chain.owner # "other" /\ app = "repay"
  <2>1. Loaded(app) = [r EXCEPT !.buttons = {"repay"}, !.ratio = RatioShown, !.value = v]
    BY <1>10 DEF Loaded, r, v
  <2>2. RatioShown \in Nat
    BY <1>1, <1>9, <1>10, SafeAppsNumbers DEF Throws
  <2>3. PICK d \in PageData : d = r
    BY <1>3
  <2>4. PICK x \in Int, w \in Int : x = RatioShown /\ w = v
    BY <1>4, <2>2
  <2>5. Loaded(app) = [d EXCEPT !.buttons = {"repay"}, !.ratio = x, !.value = w]
    BY <2>1, <2>3, <2>4
  <2>6. Loaded(app) \in PageData
    <3>1. PICK e \in PageData : e = [d EXCEPT !.buttons = {"repay"}]
      BY <1>5, ZenonT(60) DEF PageData
    <3>2. [e EXCEPT !.ratio = x, !.value = w] \in PageData
      BY DEF PageData
    <3>3. QED
      BY <2>5, <3>1, <3>2
  <2>7. Loaded(app).max = d.max /\ Loaded(app).youGet = d.youGet
    BY <2>5 DEF PageData
  <2>8. QED
    BY <1>3, <1>10, <2>3, <2>6, <2>7 DEF Agrees, Bounded
<1>11. CASE chain.owner # "other" /\ app = "user-balances"
  <2> DEFINE shown == IF chain.debt > 0 THEN RatioShown ELSE None
  <2>1. Loaded(app) = [r EXCEPT !.ratio = shown]
    BY <1>11 DEF Loaded, r
  <2>2. shown \in Int
    BY <1>9 DEF None
  <2> HIDE DEF shown
  <2>3. /\ Loaded(app) \in PageData /\ Loaded(app).max = r.max
        /\ Loaded(app).youGet = r.youGet
    BY <1>3, <2>1, <2>2 DEF PageData
  <2>4. QED
    BY <1>3, <1>11, <2>3 DEF Agrees, Bounded
<1>12. QED
  BY <1>2, <1>6, <1>7, <1>8, <1>10, <1>11

\* A page that is loaded, or fails to load, has read the chain of the moment.
LEMMA SafeAppsLoad ==
  ASSUME SafeAppsInv, NEW app \in Opened, Load(app)
  PROVE  SafeAppsInv'
<1>1. app \in Apps
  BY SafeAppsAssumption DEF Apps
<1>2. visits' \in Nat /\ UNCHANGED <<chain, dfid, sent, events, outcome, paidIn>>
  BY DEF Load, SafeAppsInv, SafeAppsType
<1>3. CASE Throws(app)
  <2> DEFINE data == [Unloaded EXCEPT !.visit = visits + 1]
  <2>1. page' = [page EXCEPT ![app] = data]
    BY <1>3 DEF Load
  <2>2. data \in PageData /\ data.max = None /\ data.youGet = None /\ data.fresh = FALSE
    <3>1. visits + 1 \in Nat
      BY DEF SafeAppsInv, SafeAppsType
    <3>2. QED
      BY <3>1, UnloadedPage DEF PageData
  <2> HIDE DEF data
  <2>3. Agrees(data) /\ Bounded(data) /\ UpToDate(data)
    BY <2>2 DEF Agrees, Bounded, UpToDate
  <2>4. QED
    BY <1>1, <1>2, <2>1, <2>2, <2>3, SafeAppsPage
<1>4. CASE ~Throws(app)
  <2>1. page' = [page EXCEPT ![app] = Loaded(app)]
    BY <1>4 DEF Load
  <2>2. QED
    BY <1>1, <1>2, <1>4, <2>1, LoadedPage, SafeAppsPage
<1>5. QED
  BY <1>3, <1>4

\* deposit-onchange.js computes the maximum of the deposit that is typed.
LEMMA EstimatePage ==
  ASSUME NEW d \in PageData, Agrees(d), d.deposit = 0 => Bounded(d)
  PROVE  /\ Estimate(d) \in PageData /\ Agrees(Estimate(d)) /\ Bounded(Estimate(d))
         /\ Estimate(d).fresh = d.fresh /\ Estimate(d).buttons = d.buttons
         /\ Estimate(d).collateral = d.collateral /\ Estimate(d).debt = d.debt
<1>1. CASE d.deposit = 0
  BY <1>1 DEF Estimate
<1>2. CASE d.deposit # 0
  <2>1. Value(d.deposit, d.price) \in Nat /\ MaxBorrow(Value(d.deposit, d.price)) \in Nat
    BY SafeAppsNumbers, MaxBorrowType
  <2>2. PICK m \in Int : m = MaxBorrow(Value(d.deposit, d.price))
    BY <2>1
  <2>3. d.value \in Int
    BY DEF PageData
  <2>4. PICK w \in Int : w = IF d.value > 0 THEN d.value ELSE Value(d.deposit, d.price)
    BY <2>1, <2>3
  <2>5. Estimate(d) = [d EXCEPT !.max = m, !.value = w]
    BY <1>2, <2>2, <2>4 DEF Estimate
  <2>6. PICK e \in PageData : e = Estimate(d)
    <3>1. [d EXCEPT !.max = m] \in PageData
      BY DEF PageData
    <3>2. PICK g \in PageData : g = [d EXCEPT !.max = m]
      BY <3>1
    <3>3. [g EXCEPT !.value = w] \in PageData
      BY DEF PageData
    <3>4. QED
      BY <2>5, <3>2, <3>3
  <2>7. e.max = m /\ e.youGet = d.youGet /\ e.of = d.of /\ e.rate = d.rate /\ e.amount = d.amount
    BY <2>5, <2>6 DEF PageData
  <2>8. e.deposit = d.deposit /\ e.price = d.price /\ e.collateral = d.collateral
        /\ e.debt = d.debt
    BY <2>5, <2>6 DEF PageData
  <2>9. e.fresh = d.fresh /\ e.buttons = d.buttons
    BY <2>5, <2>6 DEF PageData
  <2>10. Agrees(e) /\ Bounded(e)
    BY <1>2, <2>2, <2>7, <2>8 DEF Agrees, Bounded, MaximumOf
  <2>11. QED
    BY <2>6, <2>8, <2>9, <2>10
<1>3. QED
  BY <1>1, <1>2

\* Typing a deposit or an amount.
LEMMA SafeAppsTypeDeposit ==
  ASSUME SafeAppsInv, NEW v \in Deposits, TypeDeposit(v)
  PROVE  SafeAppsInv'
<1>1. PICK old \in PageData : old = page["borrow"]
  BY SafeAppsNames DEF SafeAppsInv, SafeAppsType
<1>2. Agrees(old) /\ UpToDate(old)
  BY <1>1, SafeAppsNames DEF SafeAppsInv
<1>3. PICK d \in PageData : d = [old EXCEPT !.deposit = v]
  BY DEF PageData
<1>4. /\ d.deposit # 0 /\ d.youGet = old.youGet /\ d.of = old.of /\ d.rate = old.rate
      /\ d.amount = old.amount
  BY <1>3, SafeAppsAssumption DEF PageData
<1>5. d.fresh = old.fresh /\ d.buttons = old.buttons /\ d.collateral = old.collateral
      /\ d.debt = old.debt
  BY <1>3 DEF PageData
<1>6. PICK e \in PageData : e = Estimate(d)
  BY <1>2, <1>4, EstimatePage DEF Agrees
<1>7. /\ Agrees(e) /\ Bounded(e) /\ e.fresh = old.fresh /\ e.buttons = old.buttons
      /\ e.collateral = old.collateral /\ e.debt = old.debt
  BY <1>2, <1>4, <1>5, <1>6, EstimatePage DEF Agrees
<1>8. UpToDate(e)
  BY <1>2, <1>7 DEF UpToDate
<1>9. /\ page' = [page EXCEPT !["borrow"] = e] /\ visits' = visits
      /\ UNCHANGED <<chain, dfid, sent, events, outcome, paidIn>>
  BY <1>1, <1>3, <1>6 DEF TypeDeposit, Shows
<1>10. visits' \in Nat
  BY <1>9 DEF SafeAppsInv, SafeAppsType
<1>11. QED
  BY <1>7, <1>8, <1>9, <1>10, SafeAppsNames, SafeAppsPage

\* Typing an amount to borrow leaves the maximum, or computes it of the deposit again.
LEMMA SafeAppsTypeAmount ==
  ASSUME SafeAppsInv, NEW a \in Amounts, TypeAmount(a)
  PROVE  SafeAppsInv'
<1>1. PICK old \in PageData : old = page["borrow"]
  BY SafeAppsNames DEF SafeAppsInv, SafeAppsType
<1>2. Agrees(old) /\ Bounded(old) /\ UpToDate(old)
  BY <1>1, SafeAppsNames DEF SafeAppsInv
<1>3. PICK d \in PageData : d = [old EXCEPT !.amount = a]
  BY DEF PageData
<1>4. /\ d.max = old.max /\ d.deposit = old.deposit /\ d.price = old.price
      /\ d.youGet = old.youGet /\ d.of = old.of /\ d.rate = old.rate /\ d.amount # 0
  BY <1>3, SafeAppsAssumption DEF PageData
<1>5. d.fresh = old.fresh /\ d.buttons = old.buttons /\ d.collateral = old.collateral
      /\ d.debt = old.debt
  BY <1>3 DEF PageData
<1>6. Agrees(d) /\ Bounded(d)
  BY <1>2, <1>4, <1>5 DEF Agrees, Bounded, MaximumOf
<1>7. PICK e \in PageData : e = Estimate(d)
  BY <1>6, EstimatePage
<1>8. /\ Agrees(e) /\ Bounded(e) /\ e.fresh = old.fresh /\ e.buttons = old.buttons
      /\ e.collateral = old.collateral /\ e.debt = old.debt
  BY <1>5, <1>6, <1>7, EstimatePage
<1>9. UpToDate(e)
  BY <1>2, <1>8 DEF UpToDate
<1>10. /\ page' = [page EXCEPT !["borrow"] = e] /\ visits' = visits
       /\ UNCHANGED <<chain, dfid, sent, events, outcome, paidIn>>
  BY <1>1, <1>3, <1>7 DEF TypeAmount, Shows
<1>11. visits' \in Nat
  BY <1>10 DEF SafeAppsInv, SafeAppsType
<1>12. QED
  BY <1>8, <1>9, <1>10, <1>11, SafeAppsNames, SafeAppsPage

\* Typing an amount to repay changes nothing that another page claims.
LEMMA SafeAppsTypeRepay ==
  ASSUME SafeAppsInv, NEW a \in Amounts, TypeRepay(a)
  PROVE  SafeAppsInv'
<1>1. PICK old \in PageData : old = page["repay"]
  BY SafeAppsNames DEF SafeAppsInv, SafeAppsType
<1>2. Agrees(old) /\ Bounded(old)
  BY <1>1, SafeAppsNames DEF SafeAppsInv
<1>3. PICK d \in PageData : d = [old EXCEPT !.repayValue = a]
  BY ZenonT(60) DEF PageData
<1>4. /\ d.max = old.max /\ d.deposit = old.deposit /\ d.price = old.price
      /\ d.youGet = old.youGet /\ d.of = old.of /\ d.rate = old.rate /\ d.amount = old.amount
  BY <1>3 DEF PageData
<1>5. d.collateral = old.collateral /\ d.debt = old.debt
  BY <1>3 DEF PageData
<1>6. Agrees(d) /\ Bounded(d)
  BY <1>2, <1>4, <1>5 DEF Agrees, Bounded, MaximumOf
<1>7. /\ page' = [page EXCEPT !["repay"] = d] /\ visits' = visits
      /\ UNCHANGED <<chain, dfid, sent, events, outcome, paidIn>>
  BY <1>1, <1>3 DEF TypeRepay, Shows
<1>8. visits' \in Nat
  BY <1>7 DEF SafeAppsInv, SafeAppsType
<1>9. QED
  BY <1>6, <1>7, <1>8, SafeAppsNames, SafeAppsPage

\* Choosing the rate computes what the user gets from the amount and that rate,
\* and offers the step that the Safe as it was read calls for.
LEMMA SafeAppsSlideRate ==
  ASSUME SafeAppsInv, NEW r \in Rates, SlideRate(r)
  PROVE  SafeAppsInv'
<1>1. PICK old \in PageData : old = page["borrow"]
  BY SafeAppsNames DEF SafeAppsInv, SafeAppsType
<1>2. Agrees(old) /\ Bounded(old) /\ UpToDate(old) /\ r \in 0 .. 300
  BY <1>1, SafeAppsNames, SafeAppsAssumption DEF SafeAppsInv
<1>3. PICK f \in Int : f = Fee(old.amount, Parsed(r))
  <2>1. Parsed(r) \in 0 .. 300 /\ old.amount \in Nat
    BY <1>2, SafeAppsNumbers, FeeBounds
  <2>2. Fee(old.amount, Parsed(r)) \in Nat
    BY <2>1, FeeBounds
  <2>3. QED
    BY <2>2
<1>4. PICK y \in Int : y = old.amount - f
  BY SafeAppsNumbers
<1>5. PICK b \in SUBSET Buttons :
        b = old.buttons \cup {IF old.collateral > 0 THEN "borrow" ELSE "openSafe"}
  BY DEF PageData, Buttons
<1>6. old.amount \in Amounts \cup {0}
  BY DEF PageData
<1>7. PICK n \in Amounts \cup {0} : n = old.amount
  BY <1>6
<1>8. PICK d \in PageData : d = [old EXCEPT !.rate = r, !.fee = f]
  <2>1. [old EXCEPT !.rate = r] \in PageData
    BY <1>2 DEF PageData
  <2>2. PICK g \in PageData : g = [old EXCEPT !.rate = r]
    BY <2>1
  <2>3. [g EXCEPT !.fee = f] \in PageData
    BY DEF PageData
  <2>4. QED
    BY <2>2, <2>3
<1>9. PICK e \in PageData : e = [d EXCEPT !.youGet = y, !.of = n, !.buttons = b]
  <2>1. [d EXCEPT !.youGet = y] \in PageData
    BY DEF PageData
  <2>2. PICK g \in PageData : g = [d EXCEPT !.youGet = y]
    BY <2>1
  <2>3. [g EXCEPT !.of = n] \in PageData
    BY DEF PageData
  <2>4. PICK h \in PageData : h = [g EXCEPT !.of = n]
    BY <2>3
  <2>5. [h EXCEPT !.buttons = b] \in PageData
    BY DEF PageData
  <2>6. QED
    BY <2>2, <2>4, <2>5
<1>10. e = [old EXCEPT !.rate = r, !.fee = f, !.youGet = y, !.of = n, !.buttons = b]
  BY <1>8, <1>9
<1>11. /\ e.rate = r /\ e.youGet = y /\ e.of = n /\ e.buttons = b
       /\ e.amount = old.amount
  BY <1>10 DEF PageData
<1>12. e.max = old.max /\ e.deposit = old.deposit /\ e.price = old.price
  BY <1>10 DEF PageData
<1>13. e.collateral = old.collateral /\ e.debt = old.debt /\ e.fresh = old.fresh
  BY <1>10 DEF PageData
<1>14. Agrees(e)
  <2>1. old.amount # 0
    BY <1>1 DEF SlideRate
  <2>2. y <= old.amount - f
    BY <1>4, SafeAppsNumbers
  <2>3. QED
    BY <1>3, <1>7, <1>11, <2>1, <2>2 DEF Agrees
<1>15. Bounded(e)
  BY <1>2, <1>12, <1>13 DEF Bounded, MaximumOf
<1>16. UpToDate(e)
  <2>1. chain.owner = "user" => chain.collateral > 0
    BY DEF SafeAppsInv
  <2>2. QED
    BY <1>2, <1>5, <1>11, <1>13, <2>1 DEF UpToDate
<1>17. /\ page' = [page EXCEPT !["borrow"] = e] /\ visits' = visits
       /\ UNCHANGED <<chain, dfid, sent, events, outcome, paidIn>>
  BY <1>1, <1>3, <1>4, <1>5, <1>7, <1>10 DEF SlideRate, Shows
<1>18. visits' \in Nat
  BY <1>17 DEF SafeAppsInv, SafeAppsType
<1>19. QED
  BY <1>14, <1>15, <1>16, <1>17, <1>18, SafeAppsNames, SafeAppsPage

\* A slider that its handler does not notice leaves what the page says, which the
\* rate 0 only makes less than what the amount gives.
LEMMA SafeAppsSlideUnnoticed ==
  ASSUME SafeAppsInv, NEW r \in Rates, SlideUnnoticed(r)
  PROVE  SafeAppsInv'
<1>1. PICK old \in PageData : old = page["borrow"]
  BY SafeAppsNames DEF SafeAppsInv, SafeAppsType
<1>2. Agrees(old) /\ Bounded(old) /\ UpToDate(old) /\ r \in 0 .. 300
  BY <1>1, SafeAppsNames, SafeAppsAssumption DEF SafeAppsInv
<1>3. PICK e \in PageData : e = [old EXCEPT !.rate = r]
  <2>1. PICK g : g = [old EXCEPT !.rate = r]
    OBVIOUS
  <2>2. g \in PageData
    BY <1>2, <2>1, ZenonT(60) DEF PageData
  <2>3. QED
    BY <2>1, <2>2
<1>4. e.rate = r /\ e.youGet = old.youGet /\ e.of = old.of /\ e.amount = old.amount
  BY <1>3 DEF PageData
<1>5. e.max = old.max /\ e.deposit = old.deposit /\ e.price = old.price
  BY <1>3 DEF PageData
<1>6. /\ e.collateral = old.collateral /\ e.debt = old.debt /\ e.fresh = old.fresh
      /\ e.buttons = old.buttons
  BY <1>3 DEF PageData
<1>7. Agrees(e)
  <2>1. CASE old.amount = 0
    BY <1>2, <1>4, <2>1 DEF Agrees
  <2>2. CASE old.amount # 0
    <3>1. r = 0
      BY <1>1, <2>2 DEF SlideUnnoticed
    <3>2. PICK n \in Nat : n = old.of
      BY SafeAppsNumbers
    <3>3. Fee(n, Parsed(0)) = 0
      BY <3>2 DEF Fee, Parsed, Truncated, BASIS_POINTS_DIVISOR
    <3>4. PICK f \in Nat : f = Fee(n, Parsed(old.rate))
      BY SafeAppsNumbers, FeeBounds
    <3>5. PICK y \in Int : y = old.youGet
      BY DEF PageData
    <3>6. y # None => y <= n - f
      BY <1>2, <3>2, <3>4, <3>5 DEF Agrees
    <3>7. y # None => y <= n - 0
      BY <3>6
    <3>8. QED
      BY <1>4, <2>2, <3>1, <3>2, <3>3, <3>5, <3>7 DEF Agrees
  <2>3. QED
    BY <2>1, <2>2
<1>8. Bounded(e) /\ UpToDate(e)
  BY <1>2, <1>5, <1>6 DEF Bounded, MaximumOf, UpToDate
<1>9. /\ page' = [page EXCEPT !["borrow"] = e] /\ visits' = visits
      /\ UNCHANGED <<chain, dfid, sent, events, outcome, paidIn>>
  BY <1>1, <1>3 DEF SlideUnnoticed, Shows
<1>10. visits' \in Nat
  BY <1>9 DEF SafeAppsInv, SafeAppsType
<1>11. QED
  BY <1>7, <1>8, <1>9, <1>10, SafeAppsNames, SafeAppsPage

\* A transaction is sent with what its page says.
LEMMA SafeAppsSubmit ==
  ASSUME SafeAppsInv, NEW tx \in Transactions, Carries(tx), NEW app, Submit(app, tx)
  PROVE  SafeAppsInv'
<1>1. /\ sent' = Append(sent, tx)
      /\ UNCHANGED <<chain, dfid, page, visits, events, outcome, paidIn>>
  BY DEF Submit
<1>2. sent \in Seq(Transactions)
  BY DEF SafeAppsInv, SafeAppsType
<1>3. PICK n \in Nat : n = Len(sent)
  BY <1>2
<1>4. /\ sent' \in Seq(Transactions) /\ DOMAIN sent' = 1 .. n + 1 /\ DOMAIN sent = 1 .. n
      /\ sent'[n + 1] = tx /\ \A i \in 1 .. n : sent'[i] = sent[i]
  BY <1>1, <1>2, <1>3
<1>5. \A i \in 1 .. n + 1 : i = n + 1 \/ i \in 1 .. n
  OBVIOUS
<1>6. (\A i \in DOMAIN sent : Carries(sent[i]))'
  BY <1>4, <1>5 DEF SafeAppsInv, Carries
<1>7. SafeAppsType'
  BY <1>1, <1>4 DEF SafeAppsInv, SafeAppsType
<1>8. (\A app_1 \in Apps : Agrees(page[app_1]) /\ Bounded(page[app_1]))'
  BY <1>1 DEF SafeAppsInv
<1>9. UpToDate(page["borrow"])'
  BY <1>1 DEF SafeAppsInv, UpToDate, Room
<1>10. (chain.owner = "user" => chain.collateral > 0)' /\ GetsWhatIsShown' /\ RetryDepositsOnce'
  BY <1>1 DEF SafeAppsInv, GetsWhatIsShown, RetryDepositsOnce
<1>11. QED
  BY <1>6, <1>7, <1>8, <1>9, <1>10 DEF SafeAppsInv

\* What a transaction takes from the page.
LEMMA SafeAppsCall ==
  ASSUME SafeAppsInv, NEW app \in Apps, NEW amount \in Nat,
         NEW call \in {"openSafe", "borrow", "repay", "closeSafe"},
         call = "openSafe" => amount \in Deposits
  PROVE  Call(app, call, amount) \in Transactions /\ Carries(Call(app, call, amount))
<1>1. PICK d \in PageData : d = page[app]
  BY DEF SafeAppsInv, SafeAppsType
<1>2. Agrees(d)
  BY <1>1 DEF SafeAppsInv
<1>3. PICK r \in 0 .. 300 : r = Parsed(d.rate)
  BY SafeAppsNumbers, FeeBounds
<1>4. d.visit \in Nat /\ d.youGet \in Int /\ d.of \in Amounts \cup {0}
  BY DEF PageData
<1>5. Call(app, call, amount) =
        [call |-> call, app |-> app, visit |-> d.visit, amount |-> amount, rate |-> r,
         youGet |-> d.youGet, of |-> d.of, fresh |-> TRUE]
  BY <1>1, <1>3 DEF Call
<1>6. QED
  BY <1>2, <1>3, <1>4, <1>5 DEF Transactions, Carries, Agrees

\* The four buttons.
LEMMA SafeAppsClick ==
  ASSUME SafeAppsInv, ClickOpen \/ ClickBorrow \/ ClickRepay \/ ClickClose
  PROVE  SafeAppsInv'
<1>1. page["borrow"] \in PageData /\ page["repay"] \in PageData
  BY SafeAppsNames DEF SafeAppsInv, SafeAppsType
<1>2. CASE ClickOpen
  <2>1. page["borrow"].deposit \in Deposits /\ page["borrow"].deposit \in Nat
    BY <1>1, <1>2, SafeAppsNumbers DEF ClickOpen, PageData
  <2>2. QED
    BY <1>2, <2>1, SafeAppsNames, SafeAppsCall, SafeAppsSubmit DEF ClickOpen
<1>3. CASE ClickBorrow
  <2>1. page["borrow"].amount \in Nat
    BY <1>1, SafeAppsNumbers
  <2>2. QED
    BY <1>3, <2>1, SafeAppsNames, SafeAppsCall, SafeAppsSubmit DEF ClickBorrow
<1>4. CASE ClickRepay
  <2>1. page["repay"].repayValue \in Nat
    BY <1>1, <1>4, SafeAppsAssumption DEF ClickRepay, PageData
  <2>2. QED
    BY <1>4, <2>1, SafeAppsNames, SafeAppsCall, SafeAppsSubmit DEF ClickRepay
<1>5. CASE ClickClose
  BY <1>5, SafeAppsNames, SafeAppsCall, SafeAppsSubmit DEF ClickClose
<1>6. QED
  BY <1>2, <1>3, <1>4, <1>5

\* What a page and a transaction keep when the chain has changed.
LEMMA SafeAppsAged ==
  /\ \A d \in PageData :
       /\ Aged(d) \in PageData /\ Aged(d).fresh = FALSE
       /\ (Agrees(d) => Agrees(Aged(d))) /\ (Bounded(d) => Bounded(Aged(d)))
  /\ \A t \in Transactions : Aged(t) \in Transactions /\ (Carries(t) => Carries(Aged(t)))
<1>1. ASSUME NEW d \in PageData
      PROVE  /\ Aged(d) \in PageData /\ Aged(d).fresh = FALSE
             /\ (Agrees(d) => Agrees(Aged(d))) /\ (Bounded(d) => Bounded(Aged(d)))
  <2>1. PICK e : e = Aged(d)
    OBVIOUS
  <2>2. e = [d EXCEPT !.fresh = FALSE]
    BY <2>1 DEF Aged
  <2>3. e \in PageData /\ e.fresh = FALSE
    BY <2>2, ZenonT(60) DEF PageData
  <2>4. e.youGet = d.youGet /\ e.of = d.of /\ e.rate = d.rate /\ e.amount = d.amount
    BY <2>2 DEF PageData
  <2>5. e.max = d.max /\ e.deposit = d.deposit /\ e.price = d.price
    BY <2>2 DEF PageData
  <2>6. e.collateral = d.collateral /\ e.debt = d.debt
    BY <2>2 DEF PageData
  <2>7. QED
    BY <2>1, <2>3, <2>4, <2>5, <2>6 DEF Agrees, Bounded, MaximumOf
<1>2. ASSUME NEW t \in Transactions
      PROVE  Aged(t) \in Transactions /\ (Carries(t) => Carries(Aged(t)))
  <2>1. PICK u : u = Aged(t)
    OBVIOUS
  <2>2. u = [t EXCEPT !.fresh = FALSE]
    BY <2>1 DEF Aged
  <2>3. u \in Transactions
    BY <2>2 DEF Transactions
  <2>4. u.call = t.call /\ u.amount = t.amount /\ u.youGet = t.youGet /\ u.of = t.of
        /\ u.rate = t.rate
    BY <2>2 DEF Transactions
  <2>5. QED
    BY <2>1, <2>3, <2>4 DEF Carries
<1>3. QED
  BY <1>1, <1>2

\* The page that has waited for the receipt changes nothing but its buttons.
LEMMA SafeAppsReturned ==
  \A d \in PageData, t \in Transactions :
    /\ Returned(d, t) \in PageData
    /\ (Agrees(d) => Agrees(Returned(d, t))) /\ (Bounded(d) => Bounded(Returned(d, t)))
<1> SUFFICES ASSUME NEW d \in PageData, NEW t \in Transactions
             PROVE  /\ Returned(d, t) \in PageData
                    /\ (Agrees(d) => Agrees(Returned(d, t)))
                    /\ (Bounded(d) => Bounded(Returned(d, t)))
  OBVIOUS
<1>1. CASE d.visit # t.visit
  BY <1>1 DEF Returned
<1>2. CASE d.visit = t.visit
  <2>1. d.buttons \in SUBSET Buttons
    BY DEF PageData
  <2>2. PICK b \in SUBSET Buttons :
          b = IF t.call = "openSafe" THEN (d.buttons \ {"openSafe"}) \cup {"borrow"}
                                     ELSE d.buttons \ {t.call}
    BY <2>1 DEF Buttons
  <2>3. PICK e : e = Returned(d, t)
    OBVIOUS
  <2>4. e = [d EXCEPT !.buttons = b]
    BY <1>2, <2>2, <2>3 DEF Returned
  <2>5. e \in PageData
    BY <2>4 DEF PageData
  <2>6. e.youGet = d.youGet /\ e.of = d.of /\ e.rate = d.rate /\ e.amount = d.amount
    BY <2>4 DEF PageData
  <2>7. e.max = d.max /\ e.deposit = d.deposit /\ e.price = d.price
    BY <2>4 DEF PageData
  <2>8. e.collateral = d.collateral /\ e.debt = d.debt
    BY <2>4 DEF PageData
  <2>9. QED
    BY <2>3, <2>5, <2>6, <2>7, <2>8 DEF Agrees, Bounded, MaximumOf
<1>3. QED
  BY <1>1, <1>2

\* The transactions behind the first, aged or not, are what their pages sent.
LEMMA SafeAppsRest ==
  ASSUME sent \in Seq(Transactions), sent # <<>>, NEW ok,
         \A i \in DOMAIN sent : Carries(sent[i]),
         sent' = [i \in 1 .. Len(sent) - 1 |-> IF ok THEN Aged(sent[i + 1]) ELSE sent[i + 1]]
  PROVE  /\ sent' \in Seq(Transactions)
         /\ (\A i \in DOMAIN sent : Carries(sent[i]))'
<1>1. PICK n \in Nat : Len(sent) = n + 1 /\ DOMAIN sent = 1 .. n + 1
  <2>1. Len(sent) \in Nat \ {0} /\ DOMAIN sent = 1 .. Len(sent)
    OBVIOUS
  <2>2. Len(sent) - 1 \in Nat /\ Len(sent) = (Len(sent) - 1) + 1
    BY <2>1
  <2>3. QED
    BY <2>1, <2>2
<1>2. \A i \in 1 .. n : sent[i + 1] \in Transactions /\ Carries(sent[i + 1])
  BY <1>1
<1>3. sent' = [i \in 1 .. n |-> IF ok THEN Aged(sent[i + 1]) ELSE sent[i + 1]]
  BY <1>1
<1>4. sent' \in [1 .. n -> Transactions]
  BY <1>2, <1>3, SafeAppsAged
<1>5. sent' \in Seq(Transactions) /\ DOMAIN sent' = 1 .. n
  BY <1>4
<1>6. ASSUME NEW i \in 1 .. n PROVE Carries(sent'[i])
  BY <1>2, <1>3, SafeAppsAged
<1>7. (\A i \in DOMAIN sent : Carries(sent[i]))'
  BY <1>5, <1>6 DEF Carries
<1>8. QED
  BY <1>5, <1>7

\* A transaction that fails is gone, and nothing else has changed.
LEMMA SafeAppsFails ==
  ASSUME SafeAppsInv, NEW enough \in BOOLEAN, Mined(enough),
         ~(Accepts(Head(sent)) /\ (enough \/ Head(sent).fresh \/ Head(sent).call = "borrow"))
  PROVE  SafeAppsInv'
<1>1. page \in [Apps -> PageData] /\ sent \in Seq(Transactions)
  BY DEF SafeAppsInv, SafeAppsType
<1>2. /\ sent # <<>> /\ outcome' = Nothing
      /\ UNCHANGED <<chain, dfid, visits, events, paidIn>>
  BY DEF Mined
<1>3. page' = page
  <2>1. page' = [app \in Apps |-> page[app]]
    BY DEF Mined
  <2>2. QED
    BY <1>1, <2>1
<1>4. sent' = [i \in 1 .. Len(sent) - 1 |-> IF FALSE THEN Aged(sent[i + 1]) ELSE sent[i + 1]]
  BY DEF Mined
<1>5. sent' \in Seq(Transactions) /\ (\A i \in DOMAIN sent : Carries(sent[i]))'
  BY <1>1, <1>2, <1>4, SafeAppsRest DEF SafeAppsInv
<1>6. SafeAppsType'
  BY <1>2, <1>3, <1>5 DEF SafeAppsInv, SafeAppsType
<1>7. (\A app \in Apps : Agrees(page[app]) /\ Bounded(page[app]))'
  BY <1>3 DEF SafeAppsInv
<1>8. UpToDate(page["borrow"])'
  BY <1>2, <1>3 DEF SafeAppsInv, UpToDate, Room
<1>9. (chain.owner = "user" => chain.collateral > 0)' /\ GetsWhatIsShown' /\ RetryDepositsOnce'
  BY <1>2 DEF SafeAppsInv, GetsWhatIsShown, RetryDepositsOnce
<1>10. QED
  BY <1>5, <1>6, <1>7, <1>8, <1>9 DEF SafeAppsInv

\* What the user receives of a loan is a number, and what the page said if the
\* page computed it of that amount.
LEMMA MintedAtLeast ==
  ASSUME NEW tx \in Transactions, Carries(tx)
  PROVE  Minted(tx) \in Nat /\ (tx.of = tx.amount => Minted(tx) >= tx.youGet)
<1>1. tx.amount \in Nat /\ tx.rate \in 0 .. 300
  BY DEF Transactions
<1>2. Fee(tx.amount, tx.rate) \in Nat /\ Fee(tx.amount, tx.rate) <= tx.amount
  BY <1>1, FeeBounds
<1>3. Minted(tx) \in Nat /\ Minted(tx) >= tx.amount - Fee(tx.amount, tx.rate)
  BY <1>1, <1>2 DEF Minted
<1>4. tx.of = tx.amount => Minted(tx) >= tx.youGet
  <2>1. PICK y \in Int : y = tx.youGet
    BY DEF Transactions
  <2>2. PICK f \in Nat : f = Fee(tx.amount, tx.rate)
    BY <1>2
  <2>3. tx.of = tx.amount => y = -1 \/ y <= tx.amount - f
    BY <2>1, <2>2 DEF Carries, None
  <2>4. PICK m \in Nat : m = Minted(tx)
    BY <1>3
  <2>5. m >= tx.amount - f
    BY <1>3, <2>2, <2>4
  <2>6. tx.of = tx.amount => m >= y
    BY <1>1, <2>3, <2>5
  <2>7. QED
    BY <2>1, <2>4, <2>6
<1>5. QED
  BY <1>3, <1>4

\* A Safe that is closed or liquidated leaves nothing behind.
LEMMA RemovedSafe == chain \in Chains => Removed \in Chains /\ Removed.owner = "none"
<1> SUFFICES ASSUME chain \in Chains PROVE Removed \in Chains /\ Removed.owner = "none"
  OBVIOUS
<1>1. PICK u : u = [chain EXCEPT !.owner = "none", !.debt = 0]
  OBVIOUS
<1>2. u \in Chains /\ u.owner = "none"
  BY <1>1 DEF Chains
<1>3. PICK w : w = [u EXCEPT !.collateral = 0, !.owedDebt = 0, !.owedCollateral = 0]
  OBVIOUS
<1>4. w \in Chains /\ w.owner = "none"
  BY <1>2, <1>3 DEF Chains
<1>5. Removed = w
  BY <1>1, <1>3 DEF Removed
<1>6. QED
  BY <1>4, <1>5

\* What the contracts make of the Safe, and of the user's DFID and ETH, when they
\* accept a transaction.
LEMMA AfterTransaction ==
  ASSUME chain \in Chains, chain.owner = "user" => chain.collateral > 0, dfid \in Nat,
         RetryDepositsOnce, NEW tx \in Transactions, Carries(tx), Accepts(tx)
  PROVE  /\ After(tx) \in Chains
         /\ After(tx).owner = "user" => After(tx).collateral > 0
         /\ tx.call = "openSafe" => /\ paidIn + tx.amount \in Deposits
                                    /\ After(tx).owner = "user"
         /\ tx.call = "repay" => dfid - tx.amount \in Nat
         /\ tx.call \in {"borrow", "repay"} => After(tx).owner = "user" /\ chain.owner = "user"
<1>1. /\ chain.collateral \in Nat /\ chain.debt \in Nat /\ chain.owedDebt \in Nat
      /\ chain.owedCollateral \in Nat
  BY SafeAppsNumbers
<1>2. tx.amount \in Nat /\ tx.call \in {"openSafe", "borrow", "repay", "closeSafe"}
  BY DEF Transactions
<1>3. PICK d \in Nat, c \in Nat : d = Debt /\ c = Collateral
  BY <1>1 DEF Debt, Collateral
<1>4. chain.owner = "user" => c > 0
  BY <1>1, <1>3 DEF Collateral
<1>5. PICK u \in Chains :
        u = Updated /\ u.debt = d /\ u.collateral = c /\ u.owner = chain.owner
  <2>1. PICK u : u = [chain EXCEPT !.debt = d, !.collateral = c, !.owedDebt = 0,
                                   !.owedCollateral = 0]
    OBVIOUS
  <2>2. u = Updated
    BY <1>3, <2>1 DEF Updated
  <2>3. u \in Chains
    BY <2>1 DEF Chains
  <2>4. u.debt = d /\ u.collateral = c /\ u.owner = chain.owner
    BY <2>1 DEF Chains
  <2>5. QED
    BY <2>2, <2>3, <2>4
<1>6. CASE tx.call = "openSafe"
  <2>1. chain.owner = "none" /\ paidIn = 0 /\ tx.amount \in Deposits /\ tx.amount > 0
    BY <1>6, SafeAppsAssumption DEF Accepts, CanOpen, RetryDepositsOnce, Carries
  <2>2. After(tx) = [chain EXCEPT !.owner = "user", !.collateral = tx.amount]
    BY <1>6 DEF After
  <2>3. After(tx) \in Chains /\ After(tx).owner = "user" /\ After(tx).collateral = tx.amount
    BY <1>2, <2>2 DEF Chains
  <2>4. paidIn + tx.amount = tx.amount
    BY <1>2, <2>1
  <2>5. QED
    BY <1>6, <2>1, <2>3, <2>4
<1>7. CASE tx.call = "borrow"
  <2>1. chain.owner = "user"
    BY <1>7 DEF Accepts, CanBorrow
  <2>2. After(tx) = [u EXCEPT !.debt = d + tx.amount]
    BY <1>5, <1>7 DEF After
  <2>3. After(tx) \in Chains /\ After(tx).owner = "user" /\ After(tx).collateral = c
    BY <1>2, <1>5, <2>1, <2>2 DEF Chains
  <2>4. QED
    BY <1>4, <1>7, <2>1, <2>3
<1>8. CASE tx.call = "repay"
  <2>1. chain.owner = "user" /\ dfid >= tx.amount /\ tx.amount <= d
    BY <1>3, <1>8 DEF Accepts, CanRepay
  <2>2. After(tx) = [u EXCEPT !.debt = d - tx.amount]
    BY <1>5, <1>8 DEF After
  <2>3. After(tx) \in Chains /\ After(tx).owner = "user" /\ After(tx).collateral = c
    <3>1. PICK e \in Nat : e = d - tx.amount
      BY <1>2, <2>1
    <3>2. QED
      BY <1>5, <2>1, <2>2, <3>1 DEF Chains
  <2>4. dfid - tx.amount \in Nat
    BY <1>2, <2>1
  <2>5. QED
    BY <1>4, <1>8, <2>1, <2>3, <2>4
<1>9. CASE tx.call = "closeSafe"
  <2>1. After(tx) = Removed
    BY <1>9 DEF After
  <2>2. After(tx) \in Chains /\ After(tx).owner = "none"
    BY <2>1, RemovedSafe
  <2>3. QED
    BY <1>9, <2>2
<1>10. QED
  BY <1>2, <1>6, <1>7, <1>8, <1>9

\* A transaction that is accepted changes the Safe and ages every page, and the
\* user receives of a loan what its page said.
LEMMA SafeAppsSucceeds ==
  ASSUME SafeAppsInv, NEW enough \in BOOLEAN, Mined(enough),
         Accepts(Head(sent)) /\ (enough \/ Head(sent).fresh \/ Head(sent).call = "borrow")
  PROVE  SafeAppsInv'
<1>1. /\ page \in [Apps -> PageData] /\ sent \in Seq(Transactions) /\ sent # <<>>
      /\ chain \in Chains /\ dfid \in Nat /\ visits \in Nat /\ events \in Nat
      /\ (chain.owner = "user" => chain.collateral > 0) /\ RetryDepositsOnce
  BY DEF SafeAppsInv, SafeAppsType, Mined
<1>2. PICK tx \in Transactions : tx = Head(sent) /\ Carries(tx)
  <2>1. 1 \in DOMAIN sent /\ Head(sent) = sent[1]
    BY <1>1
  <2>2. sent[1] \in Transactions /\ Carries(sent[1])
    BY <1>1, <2>1 DEF SafeAppsInv
  <2>3. QED
    BY <2>1, <2>2
<1>3. /\ outcome' = IF tx.call = "borrow" THEN [tx |-> tx, got |-> Minted(tx)] ELSE Nothing
      /\ chain' = After(tx)
      /\ dfid' = CASE tx.call = "borrow" -> dfid + Minted(tx)
                   [] tx.call = "repay"  -> dfid - tx.amount
                   [] OTHER              -> dfid
      /\ paidIn' = CASE tx.call = "openSafe"  -> paidIn + tx.amount
                     [] tx.call = "closeSafe" -> 0
                     [] OTHER                 -> paidIn
      /\ UNCHANGED <<visits, events>>
  BY <1>2 DEF Mined
<1>4. page' = [app \in Apps |->
                 Aged(IF app = tx.app THEN Returned(page[app], tx) ELSE page[app])]
  BY <1>2 DEF Mined
<1>5. sent' = [i \in 1 .. Len(sent) - 1 |-> IF TRUE THEN Aged(sent[i + 1]) ELSE sent[i + 1]]
  BY DEF Mined
<1>6. sent' \in Seq(Transactions) /\ (\A i \in DOMAIN sent : Carries(sent[i]))'
  BY <1>1, <1>5, SafeAppsRest DEF SafeAppsInv
<1>7. ASSUME NEW app \in Apps
      PROVE  /\ page'[app] \in PageData /\ page'[app].fresh = FALSE
             /\ Agrees(page'[app]) /\ Bounded(page'[app])
  <2>1. PICK d \in PageData : d = page[app] /\ Agrees(d) /\ Bounded(d)
    BY <1>1 DEF SafeAppsInv
  <2>2. PICK e \in PageData :
          /\ e = (IF app = tx.app THEN Returned(d, tx) ELSE d)
          /\ Agrees(e) /\ Bounded(e)
    BY <2>1, SafeAppsReturned
  <2>3. page'[app] = Aged(e)
    BY <1>4, <2>1, <2>2
  <2>4. QED
    BY <2>2, <2>3, SafeAppsAged
<1>8. page' \in [Apps -> PageData]
  BY <1>4, <1>7
<1>9. (\A app \in Apps : Agrees(page[app]) /\ Bounded(page[app]))'
  BY <1>7 DEF Agrees, Bounded, MaximumOf
<1>10. UpToDate(page["borrow"])'
  BY <1>7, SafeAppsNames DEF UpToDate
<1>11. /\ After(tx) \in Chains
       /\ (After(tx).owner = "user" => After(tx).collateral > 0)
       /\ (tx.call = "openSafe" => /\ paidIn + tx.amount \in Deposits
                                   /\ After(tx).owner = "user")
       /\ (tx.call = "repay" => dfid - tx.amount \in Nat)
       /\ (tx.call \in {"borrow", "repay"} => After(tx).owner = "user" /\ chain.owner = "user")
  BY <1>1, <1>2, AfterTransaction
<1>12. Minted(tx) \in Nat /\ (tx.of = tx.amount => Minted(tx) >= tx.youGet)
  BY <1>2, MintedAtLeast
<1>13. tx.call \in {"openSafe", "borrow", "repay", "closeSafe"}
  BY DEF Transactions
<1>14. dfid' \in Nat
  BY <1>1, <1>3, <1>11, <1>12
<1>15. SafeAppsType'
  BY <1>1, <1>3, <1>6, <1>8, <1>11, <1>14 DEF SafeAppsType
<1>16. GetsWhatIsShown'
  <2>1. CASE tx.call = "borrow"
    <3>1. outcome' = [tx |-> tx, got |-> Minted(tx)]
      BY <1>3, <2>1
    <3>2. outcome'.tx = tx /\ outcome'.got = Minted(tx)
      BY <3>1
    <3>3. QED
      BY <1>12, <3>2 DEF GetsWhatIsShown
  <2>2. CASE tx.call # "borrow"
    BY <1>3, <2>2 DEF GetsWhatIsShown, Nothing
  <2>3. QED
    BY <2>1, <2>2
<1>17. RetryDepositsOnce'
  <2>1. CASE tx.call = "openSafe"
    BY <1>3, <1>11, <2>1 DEF RetryDepositsOnce
  <2>2. CASE tx.call = "closeSafe"
    BY <1>3, <2>2 DEF RetryDepositsOnce
  <2>3. CASE tx.call \in {"borrow", "repay"}
    BY <1>1, <1>3, <1>11, <2>3 DEF RetryDepositsOnce
  <2>4. QED
    BY <1>13, <2>1, <2>2, <2>3
<1>18. QED
  BY <1>3, <1>6, <1>9, <1>10, <1>11, <1>15, <1>16, <1>17 DEF SafeAppsInv

\* Whatever others do to the Safe, the pages and the transactions are aged.
LEMMA SafeAppsOthers ==
  ASSUME SafeAppsInv, NEW changed \in Chains, NEW left, Others(changed, left),
         changed.owner = "user" => changed.collateral > 0 /\ chain.owner = "user",
         left \in {0, paidIn}, changed.owner # "user" => left = 0
  PROVE  SafeAppsInv'
<1>1. /\ page \in [Apps -> PageData] /\ sent \in Seq(Transactions) /\ events \in Nat
  BY DEF SafeAppsInv, SafeAppsType
<1>2. /\ chain' = changed /\ paidIn' = left /\ events' \in Nat
      /\ page' = [app \in Apps |-> Aged(page[app])]
      /\ sent' = [i \in DOMAIN sent |-> Aged(sent[i])]
      /\ UNCHANGED <<dfid, visits, outcome>>
  BY <1>1 DEF Others
<1>3. ASSUME NEW app \in Apps
      PROVE  /\ page'[app] \in PageData /\ page'[app].fresh = FALSE
             /\ Agrees(page'[app]) /\ Bounded(page'[app])
  <2>1. PICK d \in PageData : d = page[app] /\ Agrees(d) /\ Bounded(d)
    BY <1>1 DEF SafeAppsInv
  <2>2. page'[app] = Aged(d)
    BY <1>2, <2>1
  <2>3. QED
    BY <2>1, <2>2, SafeAppsAged
<1>4. page' \in [Apps -> PageData]
  BY <1>2, <1>3
<1>5. (\A app \in Apps : Agrees(page[app]) /\ Bounded(page[app]))'
  BY <1>3 DEF Agrees, Bounded, MaximumOf
<1>6. UpToDate(page["borrow"])'
  BY <1>3, SafeAppsNames DEF UpToDate
<1>7. PICK n \in Nat : DOMAIN sent = 1 .. n
  BY <1>1
<1>8. \A i \in 1 .. n : sent[i] \in Transactions /\ Carries(sent[i])
  BY <1>1, <1>7 DEF SafeAppsInv
<1>9. sent' = [i \in 1 .. n |-> Aged(sent[i])]
  BY <1>2, <1>7
<1>10. sent' \in [1 .. n -> Transactions] /\ \A i \in 1 .. n : Carries(sent'[i])
  BY <1>8, <1>9, SafeAppsAged
<1>11. sent' \in Seq(Transactions) /\ DOMAIN sent' = 1 .. n
  BY <1>10
<1>12. (\A i \in DOMAIN sent : Carries(sent[i]))'
  BY <1>10, <1>11 DEF Carries
<1>13. SafeAppsType'
  BY <1>2, <1>4, <1>11 DEF SafeAppsInv, SafeAppsType
<1>14. GetsWhatIsShown'
  BY <1>2 DEF SafeAppsInv, GetsWhatIsShown
<1>15. RetryDepositsOnce'
  BY <1>2 DEF SafeAppsInv, RetryDepositsOnce
<1>16. QED
  BY <1>2, <1>5, <1>6, <1>12, <1>13, <1>14, <1>15 DEF SafeAppsInv

\* The seven things that others do.
LEMMA SafeAppsEvent ==
  ASSUME SafeAppsInv,
         \/ \E p \in Prices : PriceMoves(p)
         \/ \E i \in Inheritances : Inherits(i)
         \/ StakersChange \/ Redeemed \/ Liquidated \/ IdTaken
  PROVE  SafeAppsInv'
<1>1. /\ chain \in Chains /\ (chain.owner = "user" => chain.collateral > 0) /\ RetryDepositsOnce
  BY DEF SafeAppsInv, SafeAppsType
<1>2. /\ chain.price \in Nat \ {0} /\ chain.collateral \in Nat /\ chain.debt \in Nat
      /\ chain.owedDebt \in Nat /\ chain.owedCollateral \in Nat
  BY <1>1, SafeAppsNumbers
<1>3. chain.owner # "user" => paidIn = 0
  BY <1>1 DEF RetryDepositsOnce
<1>4. ASSUME NEW p \in Prices, PriceMoves(p) PROVE SafeAppsInv'
  <2>1. PICK c : c = [chain EXCEPT !.price = p]
    OBVIOUS
  <2>2. c \in Chains /\ c.owner = chain.owner /\ c.collateral = chain.collateral
    BY <1>1, <2>1 DEF Chains
  <2>3. QED
    BY <1>1, <1>3, <1>4, <2>1, <2>2, SafeAppsOthers DEF PriceMoves
<1>5. ASSUME NEW i \in Inheritances, Inherits(i) PROVE SafeAppsInv'
  <2>1. PICK x \in Nat, y \in Nat : x = chain.owedDebt + i[1] /\ y = chain.owedCollateral + i[2]
    BY <1>2, SafeAppsAssumption
  <2>2. PICK c : c = [chain EXCEPT !.owedDebt = x, !.owedCollateral = y]
    OBVIOUS
  <2>3. c \in Chains /\ c.owner = chain.owner /\ c.collateral = chain.collateral
    BY <1>1, <2>2 DEF Chains
  <2>4. Others(c, paidIn)
    BY <1>5, <2>1, <2>2 DEF Inherits
  <2>5. QED
    BY <1>1, <1>3, <2>3, <2>4, SafeAppsOthers
<1>6. CASE StakersChange
  <2>1. PICK c : c = [chain EXCEPT !.stakers = ~@]
    OBVIOUS
  <2>2. c \in Chains /\ c.owner = chain.owner /\ c.collateral = chain.collateral
    BY <1>1, <2>1 DEF Chains
  <2>3. QED
    BY <1>1, <1>3, <1>6, <2>1, <2>2, SafeAppsOthers DEF StakersChange
<1>7. CASE Redeemed
  <2>1. PICK d \in Nat, c \in Nat : d = Debt /\ c = Collateral
    BY <1>2 DEF Debt, Collateral
  <2>2. PICK x \in Nat : x = d * PRECISION
    BY SafeAppsAssumption
  <2>3. PICK q \in Nat : q = x \div chain.price
    BY <1>2, DivisionRoundsDown
  <2>4. chain.owner = "user" /\ q < c
    BY <1>7, <2>1, <2>2, <2>3 DEF Redeemed
  <2>5. PICK rest \in Nat : rest = c - q /\ rest > 0
    BY <2>4
  <2>6. PICK u : u = [chain EXCEPT !.debt = 0, !.collateral = rest, !.owedDebt = 0,
                                   !.owedCollateral = 0]
    OBVIOUS
  <2>7. [Updated EXCEPT !.debt = 0, !.collateral = @ - (Debt * PRECISION) \div chain.price] = u
    <3>1. PICK w \in Chains : w = Updated /\ w.collateral = c
      <4>1. PICK w : w = [chain EXCEPT !.debt = d, !.collateral = c, !.owedDebt = 0,
                                       !.owedCollateral = 0]
        OBVIOUS
      <4>2. w \in Chains
        BY <1>1, <4>1 DEF Chains
      <4>3. w.collateral = c
        BY <1>1, <4>1 DEF Chains
      <4>4. w = Updated
        BY <2>1, <4>1 DEF Updated
      <4>5. QED
        BY <4>2, <4>3, <4>4
    <3>2. w = [chain EXCEPT !.debt = d, !.collateral = c, !.owedDebt = 0, !.owedCollateral = 0]
      BY <2>1, <3>1 DEF Updated
    <3>3. [w EXCEPT !.debt = 0, !.collateral = rest] = u
      BY <1>1, <2>6, <3>2 DEF Chains
    <3>4. rest = w.collateral - (Debt * PRECISION) \div chain.price
      BY <2>1, <2>2, <2>3, <2>5, <3>1
    <3>5. QED
      BY <3>1, <3>3, <3>4
  <2>8. u \in Chains /\ u.owner = chain.owner /\ u.collateral = rest
    BY <1>1, <2>6 DEF Chains
  <2>9. Others(u, paidIn)
    BY <1>7, <2>7 DEF Redeemed
  <2>10. QED
    BY <2>4, <2>5, <2>8, <2>9, SafeAppsOthers
<1>8. CASE Liquidated
  <2>1. PICK c \in Chains : c = Removed /\ c.owner = "none"
    BY <1>1, RemovedSafe
  <2>2. Others(c, 0)
    BY <1>8, <2>1 DEF Liquidated
  <2>3. QED
    BY <2>1, <2>2, SafeAppsOthers
<1>9. CASE IdTaken
  <2>1. PICK d \in Deposits : Others([chain EXCEPT !.owner = "other", !.collateral = d], paidIn)
    BY <1>9 DEF IdTaken
  <2>2. PICK c : c = [chain EXCEPT !.owner = "other", !.collateral = d]
    OBVIOUS
  <2>3. d \in Nat
    BY SafeAppsAssumption
  <2>4. c \in Chains /\ c.owner = "other"
    BY <1>1, <2>2, <2>3 DEF Chains
  <2>5. paidIn = 0
    BY <1>3, <1>9 DEF IdTaken
  <2>6. QED
    BY <2>1, <2>2, <2>4, <2>5, SafeAppsOthers
<1>10. QED
  BY <1>4, <1>5, <1>6, <1>7, <1>8, <1>9

\* Every step of the pages of a Safe preserves the invariant.
LEMMA SafeAppsStep == SafeAppsInv /\ [Next]_vars => SafeAppsInv'
<1> SUFFICES ASSUME SafeAppsInv, [Next]_vars PROVE SafeAppsInv'
  OBVIOUS
<1>1. CASE \E app \in Opened : Load(app)
  BY <1>1, SafeAppsLoad
<1>2. CASE \E d \in Deposits : TypeDeposit(d)
  BY <1>2, SafeAppsTypeDeposit
<1>3. CASE \E a \in Amounts : TypeAmount(a) \/ TypeRepay(a)
  BY <1>3, SafeAppsTypeAmount, SafeAppsTypeRepay
<1>4. CASE \E r \in Rates : SlideRate(r) \/ SlideUnnoticed(r)
  BY <1>4, SafeAppsSlideRate, SafeAppsSlideUnnoticed
<1>5. CASE ClickOpen \/ ClickBorrow \/ ClickRepay \/ ClickClose
  BY <1>5, SafeAppsClick
<1>6. CASE \E enough \in BOOLEAN : Mined(enough)
  BY <1>6, SafeAppsFails, SafeAppsSucceeds
<1>7. CASE \/ \E p \in Prices : PriceMoves(p)
           \/ \E i \in Inheritances : Inherits(i)
           \/ StakersChange \/ Redeemed \/ Liquidated \/ IdTaken
  BY <1>7, SafeAppsEvent
<1>8. CASE UNCHANGED vars
  BY <1>8 DEF vars, SafeAppsInv, SafeAppsType, Agrees, Bounded, MaximumOf, UpToDate, Room,
              Carries, GetsWhatIsShown, RetryDepositsOnce
<1>9. QED
  BY <1>1, <1>2, <1>3, <1>4, <1>5, <1>6, <1>7, <1>8 DEF Next

\* The invariant of the pages of a Safe.
LEMMA SafeAppsInvariant == Spec => []SafeAppsInv
<1>1. QED
  BY SafeAppsInit, SafeAppsStep, PTL DEF Spec

\* The page divides before it multiplies, and the contract multiplies before it
\* divides: the page never allows more.
LEMMA PageRoundsLower ==
  ASSUME NEW c \in Nat, NEW d \in Nat, NEW p \in Nat, c <= d
  PROVE  MaxBorrow(Value(c, p))
           <= ((d * p * BASIS_POINTS_DIVISOR) \div liquidationRatio) \div PRECISION
<1>1. PICK P \in Nat \ {0} : P = PRECISION
  BY SafeAppsAssumption
<1>2. PICK x \in Nat, y \in Nat : x = c * p /\ y = d * p /\ x <= y
  <2>1. PICK e \in Nat : d = c + e
    <3>1. d - c \in Nat /\ d = c + (d - c)
      OBVIOUS
    <3>2. QED
      BY <3>1
  <2>2. d * p = c * p + e * p /\ c * p \in Nat /\ e * p \in Nat
    BY <2>1
  <2>3. c * p <= d * p /\ d * p \in Nat
    BY <2>2
  <2>4. QED
    BY <2>2, <2>3
<1>3. PICK v \in Nat : v = x \div P /\ P * v <= x
  BY DivisionRoundsDown
<1>4. PICK m \in Nat : m = (v * 10000) \div 11000 /\ 11000 * m <= v * 10000
  <2>1. v * 10000 \in Nat
    OBVIOUS
  <2>2. QED
    BY <2>1
<1>5. PICK l \in Nat : l = (y * 10000) \div 11000 /\ y * 10000 < 11000 * (l + 1)
  <2>1. y * 10000 \in Nat
    OBVIOUS
  <2>2. QED
    BY <2>1
<1>6. PICK w \in Nat : w = P * m
  OBVIOUS
<1>7. 11000 * w <= 10000 * (P * v)
  <2>1. P * (11000 * m) <= P * (v * 10000)
    BY <1>4
  <2>2. P * (11000 * m) = 11000 * w /\ P * (v * 10000) = 10000 * (P * v)
    BY <1>6
  <2>3. QED
    BY <2>1, <2>2
<1>8. P * m <= l
  BY <1>2, <1>3, <1>5, <1>6, <1>7
<1>9. m <= l \div P
  <2>1. PICK q \in Nat : q = l \div P /\ l < P * (q + 1)
    OBVIOUS
  <2>2. P * m < P * (q + 1)
    BY <1>8, <2>1
  <2>3. m < q + 1
    <3>1. SUFFICES ASSUME q + 1 <= m PROVE FALSE
      OBVIOUS
    <3>2. PICK e \in Nat : m = (q + 1) + e
      <4>1. m - (q + 1) \in Nat /\ m = (q + 1) + (m - (q + 1))
        BY <3>1
      <4>2. QED
        BY <4>1
    <3>3. P * m = P * (q + 1) + P * e /\ P * e \in Nat
      BY <3>2
    <3>4. QED
      BY <2>2, <3>3
  <2>4. QED
    BY <2>1, <2>3
<1>10. MaxBorrow(Value(c, p)) = m
  BY <1>1, <1>2, <1>3, <1>4 DEF MaxBorrow, Value, BASIS_POINTS_DIVISOR, liquidationRatio
<1>11. ((d * p * BASIS_POINTS_DIVISOR) \div liquidationRatio) \div PRECISION = l \div P
  BY <1>1, <1>2, <1>5 DEF BASIS_POINTS_DIVISOR, liquidationRatio
<1>12. QED
  BY <1>9, <1>10, <1>11

\* A page whose reading still holds allows no more than the contract lends.
LEMMA MaximumIsLent == SafeAppsInv => MaximumHolds
<1> SUFFICES ASSUME SafeAppsInv,
                    page["borrow"].max # None, chain.owner = "user",
                    page["borrow"].price = chain.price, chain.owedDebt = 0,
                    IF page["borrow"].deposit = 0
                    THEN <<page["borrow"].collateral, page["borrow"].debt>>
                           = <<chain.collateral, chain.debt>>
                    ELSE <<page["borrow"].deposit, 0>> = <<chain.collateral, chain.debt>>
             PROVE  page["borrow"].max + chain.debt <= Limit
  BY DEF MaximumHolds
<1>1. page["borrow"] \in PageData /\ Bounded(page["borrow"]) /\ chain \in Chains
  BY SafeAppsNames DEF SafeAppsInv, SafeAppsType
<1>2. /\ chain.price \in Nat /\ chain.collateral \in Nat /\ chain.debt \in Nat
      /\ chain.owedCollateral \in Nat
  BY <1>1, SafeAppsNumbers
<1>3. PICK c \in Nat, d \in Nat, p \in Nat :
        c = chain.collateral /\ d = Collateral /\ p = chain.price /\ c <= d
  BY <1>2 DEF Collateral
<1>4. page["borrow"].max = MaxBorrow(Value(c, p)) - chain.debt
  <2>1. CASE page["borrow"].deposit = 0
    BY <1>1, <1>3, <2>1 DEF Bounded, MaximumOf
  <2>2. CASE page["borrow"].deposit # 0
    <3>1. page["borrow"].max = MaxBorrow(Value(c, p)) /\ chain.debt = 0
      BY <1>1, <1>3, <2>2 DEF Bounded, MaximumOf
    <3>2. PICK m \in Nat : m = MaxBorrow(Value(c, p))
      BY MaxBorrowType
    <3>3. QED
      BY <3>1, <3>2
  <2>3. QED
    BY <2>1, <2>2
<1>5. MaxBorrow(Value(c, p)) <= Limit
  BY <1>3, PageRoundsLower DEF Limit
<1>6. Limit \in Int
  <2>1. PICK x \in Nat : x = d * p * 10000
    OBVIOUS
  <2>2. PICK y \in Nat : y = x \div 11000
    OBVIOUS
  <2>3. y \div PRECISION \in Nat
    BY DivisionRoundsDown, SafeAppsAssumption
  <2>4. QED
    BY <1>3, <2>1, <2>2, <2>3 DEF Limit, BASIS_POINTS_DIVISOR, liquidationRatio
<1>7. PICK m \in Nat : m = MaxBorrow(Value(c, p))
  BY MaxBorrowType
<1>8. QED
  BY <1>2, <1>4, <1>5, <1>6, <1>7

\* Whoever takes the rate as the page shows it receives at least what the page
\* says ("You Get"), with any number of pages, events and transactions in flight.
THEOREM YouGetIsReceived == Spec => []GetsWhatIsShown
<1>1. SafeAppsInv => GetsWhatIsShown
  BY DEF SafeAppsInv
<1>2. QED
  BY <1>1, SafeAppsInvariant, PTL

\* The maximum that the page shows is lent by the contract as long as what it was
\* computed from holds, for any price and any deposit.
THEOREM MaximumIsAvailable == Spec => []MaximumHolds
<1>1. QED
  BY MaximumIsLent, SafeAppsInvariant, PTL

\* Whoever closes the browser between the two steps finds the second one, and not
\* the first, on a page that is loaded again.
THEOREM SecondStepIsOffered == Spec => []SecondStepOffered
<1>1. SafeAppsInv => SecondStepOffered
  BY DEF SafeAppsInv, UpToDate, SecondStepOffered
<1>2. QED
  BY <1>1, SafeAppsInvariant, PTL

-----------------------------------------------------------------------------
(* The pages of the stability pool. *)

StakePages == [loaded : BOOLEAN, staked : Nat, balance : Nat, amount : StakeAmounts \cup {0},
               buttons : SUBSET {"approve", "stake", "unstake"}, visit : Nat, fresh : BOOLEAN]

StakeTransactions ==
  [call : {"approve", "stake"}, app : {"stakeDFID"}, amount : Nat, visit : Nat, fresh : BOOLEAN]
  \cup
  [call : {"unstake"}, app : {"unstakeDFID"}, amount : Nat, visit : Nat, fresh : BOOLEAN]

StakeAppsType ==
  /\ stakerDfid \in Nat /\ allowance \in Nat /\ recorded \in Nat /\ stake \in Nat
  /\ stakePage \in [Staking!Apps -> StakePages]
  /\ stakeSent \in Seq(StakeTransactions)
  /\ stakeVisits \in Nat /\ burned \in Nat /\ approved \in Nat /\ stakedSince \in Nat

\* The transactions of the page that stakes, in the order of their nonces, come
\* from the page as it was loaded last or earlier, and earlier ones from earlier.
OfStaking(i) == stakeSent[i].app = "stakeDFID"
NonceOrder ==
  /\ stakePage["stakeDFID"].visit <= stakeVisits
  /\ \A i \in DOMAIN stakeSent :
       OfStaking(i) => stakeSent[i].visit <= stakePage["stakeDFID"].visit
  /\ \A i, j \in DOMAIN stakeSent :
       i < j /\ OfStaking(i) /\ OfStaking(j) => stakeSent[i].visit <= stakeSent[j].visit

\* While the stake is offered nothing of the approval is used, and no stake is in
\* flight but those of the page that offers it.
Offered ==
  "stake" \in stakePage["stakeDFID"].buttons =>
    /\ stakedSince = 0
    /\ \A i \in DOMAIN stakeSent :
         stakeSent[i].call = "stake" => stakeSent[i].visit = stakePage["stakeDFID"].visit

UnstakeOffered ==
  LET data == stakePage["unstakeDFID"] IN
  /\ "unstake" \in data.buttons => data.amount <= data.staked
  /\ data.fresh => data.staked <= stake

StakeAppsInv ==
  /\ StakeAppsType
  /\ allowance + stakedSince = approved
  /\ stakerDfid + stake + burned = Balance
  /\ NonceOrder /\ Offered /\ UnstakeOffered

\* The names of the pages, the only facts about the three strings that are needed.
LEMMA StakeAppsNames ==
  /\ "stakeDFID" \in Staking!Apps /\ "unstakeDFID" \in Staking!Apps
  /\ "stakeDFID" # "unstakeDFID"
BY DEF Staking!Apps

LEMMA StakeAppsInit == Staking!Init => StakeAppsInv
<1> SUFFICES ASSUME Staking!Init PROVE StakeAppsInv
  OBVIOUS
<1> USE FrontEndsAssumption
<1>1. Staking!Unloaded \in StakePages
  BY DEF Staking!Unloaded, StakePages
<1>2. stakePage \in [Staking!Apps -> StakePages]
      /\ \A app \in Staking!Apps : stakePage[app] = Staking!Unloaded
  BY <1>1 DEF Staking!Init
<1>3. stakeSent = <<>> /\ stakeSent \in Seq(StakeTransactions) /\ DOMAIN stakeSent = {}
  BY DEF Staking!Init
<1>4. StakeAppsType
  BY <1>2, <1>3 DEF StakeAppsType, Staking!Init
<1>5. NonceOrder /\ Offered /\ UnstakeOffered
  BY <1>2, <1>3, StakeAppsNames
  DEF NonceOrder, Offered, UnstakeOffered, Staking!Unloaded, Staking!Init
<1>6. QED
  BY <1>4, <1>5 DEF StakeAppsInv, Staking!Init

\* Loading a page forgets what it offered, and gives it a number of its own.
LEMMA StakeAppsLoad ==
  ASSUME StakeAppsInv, NEW app \in Staking!Apps, Staking!Load(app)
  PROVE  StakeAppsInv'
<1> DEFINE left == IF recorded # 0 THEN stake ELSE recorded
           data == [Staking!Unloaded EXCEPT
                     !.loaded = TRUE, !.balance = stakerDfid, !.visit = stakeVisits + 1,
                     !.fresh = TRUE, !.staked = left]
<1>1. /\ stakePage' = [stakePage EXCEPT ![app] = data] /\ stakeVisits' = stakeVisits + 1
      /\ UNCHANGED <<stakerDfid, allowance, recorded, stake, stakeSent, burned, approved,
                     stakedSince>>
  BY DEF Staking!Load, Staking!chain, Staking!others, Staking!past
<1>2. stakePage \in [Staking!Apps -> StakePages] /\ stakeVisits \in Nat /\ stake \in Nat
      /\ recorded \in Nat /\ stakerDfid \in Nat /\ stakeSent \in Seq(StakeTransactions)
  BY DEF StakeAppsInv, StakeAppsType
<1>3. data \in StakePages /\ data.buttons = {} /\ data.visit = stakeVisits + 1
      /\ data.staked <= stake
  <2>1. left \in Nat /\ left <= stake
    BY <1>2
  <2> HIDE DEF left
  <2>2. stakeVisits + 1 \in Nat
    BY <1>2
  <2>3. Staking!Unloaded \in StakePages /\ Staking!Unloaded.buttons = {}
    BY DEF Staking!Unloaded, StakePages
  <2>4. QED
    BY <1>2, <2>1, <2>2, <2>3 DEF StakePages
<1> HIDE DEF data
<1>4. stakePage'[app] = data /\ \A a \in Staking!Apps : a # app => stakePage'[a] = stakePage[a]
  BY <1>1, <1>2
<1>5. StakeAppsType'
  BY <1>1, <1>2, <1>3 DEF StakeAppsInv, StakeAppsType
<1>6. stakePage["stakeDFID"].visit \in Nat
      /\ \A i \in DOMAIN stakeSent : stakeSent[i].visit \in Nat
  BY <1>2, StakeAppsNames DEF StakePages, StakeTransactions
<1>7. NonceOrder'
  BY <1>1, <1>2, <1>3, <1>4, <1>6, StakeAppsNames DEF StakeAppsInv, NonceOrder, OfStaking
<1>8. Offered'
  BY <1>1, <1>3, <1>4, StakeAppsNames DEF StakeAppsInv, Offered
<1>9. UnstakeOffered'
  BY <1>1, <1>3, <1>4, StakeAppsNames DEF StakeAppsInv, UnstakeOffered
<1>10. QED
  BY <1>1, <1>5, <1>7, <1>8, <1>9 DEF StakeAppsInv

\* Showing data that keep the number of the page, offer no stake that was not
\* offered, and offer to unstake only what was read.
LEMMA StakeAppsShows ==
  ASSUME StakeAppsInv, NEW app \in Staking!Apps, NEW data \in StakePages,
         Staking!Shows(app, data),
         data.visit = stakePage[app].visit, data.fresh = stakePage[app].fresh,
         data.staked = stakePage[app].staked,
         "stake" \in data.buttons => "stake" \in stakePage[app].buttons,
         app = "unstakeDFID" /\ "unstake" \in data.buttons => data.amount <= data.staked
  PROVE  StakeAppsInv'
<1>1. /\ stakePage' = [stakePage EXCEPT ![app] = data]
      /\ UNCHANGED <<stakerDfid, allowance, recorded, stake, stakeSent, stakeVisits, burned,
                     approved, stakedSince>>
  BY DEF Staking!Shows, Staking!chain, Staking!others, Staking!past
<1>2. stakePage \in [Staking!Apps -> StakePages]
  BY DEF StakeAppsInv, StakeAppsType
<1>3. stakePage'[app] = data /\ \A a \in Staking!Apps : a # app => stakePage'[a] = stakePage[a]
  BY <1>1, <1>2
<1>4. StakeAppsType'
  BY <1>1, <1>2 DEF StakeAppsInv, StakeAppsType
<1>5. stakePage'["stakeDFID"].visit = stakePage["stakeDFID"].visit
  BY <1>3, StakeAppsNames
<1>6. NonceOrder'
  BY <1>1, <1>5 DEF StakeAppsInv, NonceOrder, OfStaking
<1>7. "stake" \in stakePage'["stakeDFID"].buttons => "stake" \in stakePage["stakeDFID"].buttons
  BY <1>3, StakeAppsNames
<1>8. Offered'
  BY <1>1, <1>5, <1>7 DEF StakeAppsInv, Offered
<1>9. UnstakeOffered'
  <2>1. CASE app = "unstakeDFID"
    BY <2>1, <1>1, <1>3 DEF StakeAppsInv, UnstakeOffered
  <2>2. CASE app # "unstakeDFID"
    BY <2>2, <1>1, <1>3, StakeAppsNames DEF StakeAppsInv, UnstakeOffered
  <2>3. QED
    BY <2>1, <2>2
<1>10. QED
  BY <1>1, <1>4, <1>6, <1>8, <1>9 DEF StakeAppsInv

\* Typing an amount to stake leaves the other button as it is.
LEMMA StakeAppsTypeStake ==
  ASSUME StakeAppsInv, NEW a \in StakeAmounts, Staking!TypeStake(a)
  PROVE  StakeAppsInv'
<1> DEFINE old  == stakePage["stakeDFID"]
           data == [old EXCEPT !.amount = a, !.buttons = @ \cup {"approve"}]
<1>1. old \in StakePages
  BY StakeAppsNames DEF StakeAppsInv, StakeAppsType
<1>2. data \in StakePages /\ data.visit = old.visit /\ data.fresh = old.fresh
      /\ data.staked = old.staked /\ data.buttons = old.buttons \cup {"approve"}
  BY <1>1 DEF StakePages
<1>3. Staking!Shows("stakeDFID", data)
  BY DEF Staking!TypeStake
<1> HIDE DEF data
<1>4. QED
  BY <1>2, <1>3, StakeAppsNames, StakeAppsShows

\* Typing an amount to unstake offers it if what was read covers it.
LEMMA StakeAppsTypeUnstake ==
  ASSUME StakeAppsInv, NEW a \in StakeAmounts, Staking!TypeUnstake(a)
  PROVE  StakeAppsInv'
<1> DEFINE old  == stakePage["unstakeDFID"]
           next == IF old.staked >= a THEN {"unstake"} ELSE {}
           data == [old EXCEPT !.amount = a, !.buttons = next]
<1>1. old \in StakePages
  BY StakeAppsNames DEF StakeAppsInv, StakeAppsType
<1>2. next \subseteq {"unstake"} /\ ("unstake" \in next => a <= old.staked)
  <2>1. old.staked \in Nat /\ a \in Nat
    BY <1>1, FrontEndsAssumption DEF StakePages
  <2>2. QED
    BY <2>1
<1>3. Staking!Shows("unstakeDFID", data)
  BY DEF Staking!TypeUnstake
<1> HIDE DEF next
<1>4. data \in StakePages /\ data.visit = old.visit /\ data.fresh = old.fresh
      /\ data.staked = old.staked /\ data.buttons = next /\ data.amount = a
  BY <1>1, <1>2 DEF StakePages
<1> HIDE DEF data
<1>5. QED
  BY <1>2, <1>3, <1>4, StakeAppsNames, StakeAppsShows

\* What a page holds is typed.
LEMMA StakePagesNumbers == \A d \in StakePages : d.amount \in Nat /\ d.visit \in Nat
<1>1. StakeAmounts \cup {0} \subseteq Nat
  BY FrontEndsAssumption
<1>2. QED
  BY <1>1 DEF StakePages

\* A click sends what the page says, with the number of the page.
LEMMA StakeAppsClick ==
  ASSUME StakeAppsInv, NEW app \in Staking!Apps, NEW call, Staking!Click(app, call),
         \/ app = "stakeDFID" /\ call \in {"approve", "stake"}
         \/ app = "unstakeDFID" /\ call = "unstake"
  PROVE  StakeAppsInv'
<1> DEFINE data == stakePage[app]
           tx   == [call |-> call, app |-> app, amount |-> data.amount, visit |-> data.visit,
                    fresh |-> TRUE]
<1>1. /\ stakeSent' = Append(stakeSent, tx)
      /\ UNCHANGED <<stakerDfid, allowance, recorded, stake, stakePage, stakeVisits, burned,
                     approved, stakedSince>>
  BY DEF Staking!Click, Staking!chain, Staking!others, Staking!past
<1>2. stakeSent \in Seq(StakeTransactions) /\ data \in StakePages
  BY DEF StakeAppsInv, StakeAppsType
<1>3. data.amount \in Nat /\ data.visit \in Nat
  BY <1>2, StakePagesNumbers
<1>4. tx \in StakeTransactions /\ tx.call = call /\ tx.app = app /\ tx.visit = data.visit
  <2>1. CASE app = "stakeDFID" /\ call \in {"approve", "stake"}
    BY <1>3, <2>1 DEF StakeTransactions
  <2>2. CASE app = "unstakeDFID" /\ call = "unstake"
    BY <1>3, <2>2 DEF StakeTransactions
  <2>3. QED
    BY <2>1, <2>2
<1> HIDE DEF tx
<1>5. PICK n \in Nat : n = Len(stakeSent)
  BY <1>2
<1>6. /\ stakeSent' \in Seq(StakeTransactions) /\ DOMAIN stakeSent' = 1 .. n + 1
      /\ DOMAIN stakeSent = 1 .. n /\ stakeSent'[n + 1] = tx
      /\ \A i \in 1 .. n : stakeSent'[i] = stakeSent[i]
  BY <1>1, <1>2, <1>4, <1>5
<1>7. StakeAppsType'
  BY <1>1, <1>6 DEF StakeAppsInv, StakeAppsType
<1>8. NonceOrder'
  <2>1. \A i \in 1 .. n + 1 : i = n + 1 \/ i \in 1 .. n
    OBVIOUS
  <2>2. OfStaking(n + 1)' => tx.visit = stakePage["stakeDFID"].visit
    BY <1>4, <1>6, StakeAppsNames DEF OfStaking
  <2>3. \A i \in 1 .. n : /\ stakeSent'[i].visit = stakeSent[i].visit
                          /\ (stakeSent'[i].app = "stakeDFID" => OfStaking(i))
    BY <1>6 DEF OfStaking
  <2>4. \A i \in 1 .. n + 1 : stakeSent'[i].app = "stakeDFID" =>
           stakeSent'[i].visit <= stakePage["stakeDFID"].visit
    <3>1. \A i \in 1 .. n : OfStaking(i) =>
             stakeSent[i].visit <= stakePage["stakeDFID"].visit
      BY <1>6 DEF StakeAppsInv, NonceOrder
    <3>2. tx.app = "stakeDFID" => tx.visit <= stakePage["stakeDFID"].visit
      BY <1>3, <1>4
    <3>3. QED
      BY <1>6, <2>1, <2>3, <3>1, <3>2
  <2>5. ASSUME NEW i \in 1 .. n + 1, NEW j \in 1 .. n + 1, i < j,
               stakeSent'[i].app = "stakeDFID", stakeSent'[j].app = "stakeDFID"
        PROVE  stakeSent'[i].visit <= stakeSent'[j].visit
    <3>1. i \in 1 .. n
      BY <2>5
    <3>2. CASE j = n + 1
      BY <2>2, <2>4, <2>5, <3>2, <1>6 DEF OfStaking
    <3>3. CASE j \in 1 .. n
      BY <1>6, <2>3, <2>5, <3>1, <3>3 DEF StakeAppsInv, NonceOrder
    <3>4. QED
      BY <2>1, <3>2, <3>3
  <2>6. QED
    BY <1>1, <1>6, <2>4, <2>5 DEF StakeAppsInv, NonceOrder, OfStaking
<1>9. Offered'
  <2>1. tx.call = "stake" => tx.visit = stakePage["stakeDFID"].visit
    BY <1>4
  <2>2. \A i \in 1 .. n + 1 : i = n + 1 \/ i \in 1 .. n
    OBVIOUS
  <2>3. QED
    BY <1>1, <1>6, <2>1, <2>2 DEF StakeAppsInv, Offered
<1>10. UnstakeOffered'
  BY <1>1 DEF StakeAppsInv, UnstakeOffered
<1>11. QED
  BY <1>1, <1>7, <1>8, <1>9, <1>10 DEF StakeAppsInv

\* What a page and a transaction keep when the chain has changed.
LEMMA StakeAppsAged ==
  /\ \A d \in StakePages :
       /\ Staking!Aged(d) \in StakePages /\ Staking!Aged(d).fresh = FALSE
       /\ Staking!Aged(d).visit = d.visit /\ Staking!Aged(d).buttons = d.buttons
       /\ Staking!Aged(d).staked = d.staked /\ Staking!Aged(d).amount = d.amount
  /\ \A t \in StakeTransactions :
       /\ Staking!Aged(t) \in StakeTransactions
       /\ Staking!Aged(t).call = t.call /\ Staking!Aged(t).app = t.app
       /\ Staking!Aged(t).visit = t.visit
<1>1. ASSUME NEW d \in StakePages
      PROVE  /\ Staking!Aged(d) \in StakePages /\ Staking!Aged(d).fresh = FALSE
             /\ Staking!Aged(d).visit = d.visit /\ Staking!Aged(d).buttons = d.buttons
             /\ Staking!Aged(d).staked = d.staked /\ Staking!Aged(d).amount = d.amount
  BY DEF StakePages, Staking!Aged
<1>2. ASSUME NEW t \in StakeTransactions
      PROVE  /\ Staking!Aged(t) \in StakeTransactions
             /\ Staking!Aged(t).call = t.call /\ Staking!Aged(t).app = t.app
             /\ Staking!Aged(t).visit = t.visit
  BY DEF StakeTransactions, Staking!Aged
<1>3. QED
  BY <1>1, <1>2

\* What others do to the stake ages every page and every transaction.
LEMMA StakeAppsBurned ==
  ASSUME StakeAppsInv, Staking!Burned
  PROVE  StakeAppsInv'
<1>1. PICK left \in {0, stake \div 2} : stake' = left /\ burned' = burned + stake - left
  BY DEF Staking!Burned
<1>2. /\ stakePage' = [app \in Staking!Apps |-> Staking!Aged(stakePage[app])]
      /\ stakeSent' = [i \in DOMAIN stakeSent |-> Staking!Aged(stakeSent[i])]
      /\ UNCHANGED <<stakerDfid, allowance, recorded, stakeVisits, approved, stakedSince>>
  BY DEF Staking!Burned, Staking!past
<1>3. /\ stakePage \in [Staking!Apps -> StakePages] /\ stakeSent \in Seq(StakeTransactions)
      /\ stake \in Nat /\ burned \in Nat
  BY DEF StakeAppsInv, StakeAppsType
<1>4. left \in Nat /\ left <= stake
  BY <1>1, <1>3
<1>5. /\ stakePage' \in [Staking!Apps -> StakePages]
      /\ \A app \in Staking!Apps :
           /\ stakePage'[app].fresh = FALSE
           /\ stakePage'[app].visit = stakePage[app].visit
           /\ stakePage'[app].buttons = stakePage[app].buttons
           /\ stakePage'[app].staked = stakePage[app].staked
           /\ stakePage'[app].amount = stakePage[app].amount
  BY <1>2, <1>3, StakeAppsAged
<1>6. /\ stakeSent' \in Seq(StakeTransactions) /\ DOMAIN stakeSent' = DOMAIN stakeSent
      /\ \A i \in DOMAIN stakeSent :
           /\ stakeSent'[i].call = stakeSent[i].call /\ stakeSent'[i].app = stakeSent[i].app
           /\ stakeSent'[i].visit = stakeSent[i].visit
  <2>1. \A i \in DOMAIN stakeSent : stakeSent[i] \in StakeTransactions
    BY <1>3
  <2>2. PICK n \in Nat : DOMAIN stakeSent = 1 .. n
    BY <1>3
  <2>3. stakeSent' \in [1 .. n -> StakeTransactions]
    BY <1>2, <2>1, <2>2, StakeAppsAged
  <2>4. QED
    BY <1>2, <2>1, <2>2, <2>3, StakeAppsAged
<1>7. StakeAppsType'
  BY <1>1, <1>2, <1>3, <1>4, <1>5, <1>6 DEF StakeAppsInv, StakeAppsType
<1>8. NonceOrder'
  BY <1>2, <1>5, <1>6, StakeAppsNames DEF StakeAppsInv, NonceOrder, OfStaking
<1>9. Offered'
  BY <1>2, <1>5, <1>6, StakeAppsNames DEF StakeAppsInv, Offered
<1>10. UnstakeOffered'
  BY <1>5, StakeAppsNames DEF StakeAppsInv, UnstakeOffered
<1>11. stakerDfid' + stake' + burned' = Balance
  BY <1>1, <1>2, <1>3, <1>4, FrontEndsAssumption DEF StakeAppsInv, StakeAppsType
<1>12. QED
  BY <1>2, <1>7, <1>8, <1>9, <1>10, <1>11 DEF StakeAppsInv

\* The transactions behind the first, aged or not, in the same order.
LEMMA StakeAppsRest ==
  ASSUME stakeSent \in Seq(StakeTransactions), stakeSent # <<>>, NEW ok,
         stakeSent' = [i \in 1 .. Len(stakeSent) - 1 |->
                         IF ok THEN Staking!Aged(stakeSent[i + 1]) ELSE stakeSent[i + 1]]
  PROVE  /\ stakeSent' \in Seq(StakeTransactions)
         /\ \A i \in DOMAIN stakeSent' :
              /\ i + 1 \in DOMAIN stakeSent /\ 1 < i + 1
              /\ stakeSent'[i].call = stakeSent[i + 1].call
              /\ stakeSent'[i].app = stakeSent[i + 1].app
              /\ stakeSent'[i].visit = stakeSent[i + 1].visit
<1>1. PICK n \in Nat : Len(stakeSent) = n + 1 /\ DOMAIN stakeSent = 1 .. n + 1
  <2>1. Len(stakeSent) \in Nat \ {0} /\ DOMAIN stakeSent = 1 .. Len(stakeSent)
    OBVIOUS
  <2>2. Len(stakeSent) - 1 \in Nat /\ Len(stakeSent) = (Len(stakeSent) - 1) + 1
    BY <2>1
  <2>3. QED
    BY <2>1, <2>2
<1>2. \A i \in 1 .. n : i + 1 \in DOMAIN stakeSent /\ stakeSent[i + 1] \in StakeTransactions
  BY <1>1
<1>3. stakeSent' = [i \in 1 .. n |->
                      IF ok THEN Staking!Aged(stakeSent[i + 1]) ELSE stakeSent[i + 1]]
  BY <1>1
<1>4. stakeSent' \in [1 .. n -> StakeTransactions]
  BY <1>2, <1>3, StakeAppsAged
<1>5. stakeSent' \in Seq(StakeTransactions) /\ DOMAIN stakeSent' = 1 .. n
  BY <1>4
<1>6. ASSUME NEW i \in 1 .. n
      PROVE  /\ stakeSent'[i].call = stakeSent[i + 1].call
             /\ stakeSent'[i].app = stakeSent[i + 1].app
             /\ stakeSent'[i].visit = stakeSent[i + 1].visit
  BY <1>2, <1>3, StakeAppsAged
<1>7. \A i \in 1 .. n : 1 < i + 1
  OBVIOUS
<1>8. QED
  BY <1>2, <1>5, <1>6, <1>7

\* The order of the nonces survives when the first transaction is mined.
LEMMA StakeAppsNonces ==
  ASSUME NonceOrder, stakeSent \in Seq(StakeTransactions), UNCHANGED stakeVisits,
         stakePage'["stakeDFID"].visit = stakePage["stakeDFID"].visit,
         \A i \in DOMAIN stakeSent' :
           /\ i \in Nat /\ i + 1 \in DOMAIN stakeSent
           /\ stakeSent'[i].app = stakeSent[i + 1].app
           /\ stakeSent'[i].visit = stakeSent[i + 1].visit
  PROVE  NonceOrder'
<1>1. ASSUME NEW i \in DOMAIN stakeSent', OfStaking(i)'
      PROVE  stakeSent'[i].visit <= stakePage'["stakeDFID"].visit
  BY <1>1 DEF NonceOrder, OfStaking
<1>2. ASSUME NEW i \in DOMAIN stakeSent', NEW j \in DOMAIN stakeSent', i < j,
             OfStaking(i)', OfStaking(j)'
      PROVE  stakeSent'[i].visit <= stakeSent'[j].visit
  <2>1. i + 1 < j + 1 /\ OfStaking(i + 1) /\ OfStaking(j + 1)
    BY <1>2 DEF OfStaking
  <2>2. QED
    BY <2>1 DEF NonceOrder
<1>3. QED
  BY <1>1, <1>2 DEF NonceOrder

\* A transaction that fails is gone, and nothing else has changed.
LEMMA StakeAppsFails ==
  ASSUME StakeAppsInv, NEW enough \in BOOLEAN, Staking!Mined(enough),
         ~(Staking!Accepts(Head(stakeSent)) /\ enough)
  PROVE  StakeAppsInv'
<1>1. /\ stakePage \in [Staking!Apps -> StakePages] /\ stakeSent \in Seq(StakeTransactions)
  BY DEF StakeAppsInv, StakeAppsType
<1>2. /\ stakeSent # <<>>
      /\ UNCHANGED <<stakerDfid, allowance, recorded, stake, stakeVisits, burned, approved,
                     stakedSince>>
  BY DEF Staking!Mined, Staking!chain, Staking!past, Staking!others
<1>3. stakePage' = stakePage
  <2>1. stakePage' = [app \in Staking!Apps |-> stakePage[app]]
    BY DEF Staking!Mined
  <2>2. QED
    BY <1>1, <2>1
<1>4. stakeSent' = [i \in 1 .. Len(stakeSent) - 1 |->
                      IF FALSE THEN Staking!Aged(stakeSent[i + 1]) ELSE stakeSent[i + 1]]
  BY DEF Staking!Mined
<1>5. /\ stakeSent' \in Seq(StakeTransactions)
      /\ \A i \in DOMAIN stakeSent' :
           /\ i \in Nat /\ i + 1 \in DOMAIN stakeSent
           /\ stakeSent'[i].call = stakeSent[i + 1].call
           /\ stakeSent'[i].app = stakeSent[i + 1].app
           /\ stakeSent'[i].visit = stakeSent[i + 1].visit
  BY <1>1, <1>2, <1>4, StakeAppsRest
<1>6. StakeAppsType'
  BY <1>2, <1>3, <1>5 DEF StakeAppsInv, StakeAppsType
<1>7. NonceOrder'
  BY <1>1, <1>2, <1>3, <1>5, StakeAppsNonces DEF StakeAppsInv
<1>8. Offered'
  BY <1>2, <1>3, <1>5 DEF StakeAppsInv, Offered
<1>9. UnstakeOffered'
  BY <1>2, <1>3 DEF StakeAppsInv, UnstakeOffered
<1>10. QED
  BY <1>2, <1>6, <1>7, <1>8, <1>9 DEF StakeAppsInv

\* The page that has waited for the transaction changes its buttons, if it was
\* not loaded again; the other pages keep theirs, and all are aged.
LEMMA StakeAppsReturned ==
  ASSUME stakePage \in [Staking!Apps -> StakePages], NEW tx \in StakeTransactions,
         stakePage' = [app \in Staking!Apps |->
                         Staking!Aged(IF app = tx.app THEN Staking!Returned(stakePage[app], tx)
                                                      ELSE stakePage[app])]
  PROVE  /\ stakePage' \in [Staking!Apps -> StakePages]
         /\ \A app \in Staking!Apps :
              /\ stakePage'[app].fresh = FALSE
              /\ stakePage'[app].visit = stakePage[app].visit
              /\ stakePage'[app].staked = stakePage[app].staked
              /\ stakePage'[app].amount = stakePage[app].amount
              /\ stakePage'[app].buttons =
                   IF app = tx.app /\ stakePage[app].visit = tx.visit
                   THEN IF tx.call = "approve"
                        THEN (stakePage[app].buttons \ {"approve"}) \cup {"stake"}
                        ELSE stakePage[app].buttons \ {tx.call}
                   ELSE stakePage[app].buttons
<1>1. ASSUME NEW d \in StakePages
      PROVE  /\ Staking!Returned(d, tx) \in StakePages
             /\ Staking!Returned(d, tx).visit = d.visit
             /\ Staking!Returned(d, tx).staked = d.staked
             /\ Staking!Returned(d, tx).amount = d.amount
             /\ Staking!Returned(d, tx).buttons =
                  IF d.visit = tx.visit
                  THEN IF tx.call = "approve" THEN (d.buttons \ {"approve"}) \cup {"stake"}
                                              ELSE d.buttons \ {tx.call}
                  ELSE d.buttons
  <2> DEFINE next == IF d.visit # tx.visit THEN d.buttons
                     ELSE IF tx.call = "approve" THEN (d.buttons \ {"approve"}) \cup {"stake"}
                     ELSE d.buttons \ {tx.call}
  <2>1. Staking!Returned(d, tx) = [d EXCEPT !.buttons = next]
    BY DEF Staking!Returned
  <2>2. next \subseteq {"approve", "stake", "unstake"}
    BY DEF StakePages
  <2>3. next = IF d.visit = tx.visit
               THEN IF tx.call = "approve" THEN (d.buttons \ {"approve"}) \cup {"stake"}
                                           ELSE d.buttons \ {tx.call}
               ELSE d.buttons
    OBVIOUS
  <2> HIDE DEF next
  <2>4. QED
    BY <2>1, <2>2, <2>3 DEF StakePages
<1>2. ASSUME NEW app \in Staking!Apps
      PROVE  /\ (IF app = tx.app THEN Staking!Returned(stakePage[app], tx)
                                 ELSE stakePage[app]) \in StakePages
             /\ stakePage'[app].fresh = FALSE
             /\ stakePage'[app].visit = stakePage[app].visit
             /\ stakePage'[app].staked = stakePage[app].staked
             /\ stakePage'[app].amount = stakePage[app].amount
             /\ stakePage'[app].buttons =
                  IF app = tx.app /\ stakePage[app].visit = tx.visit
                  THEN IF tx.call = "approve"
                       THEN (stakePage[app].buttons \ {"approve"}) \cup {"stake"}
                       ELSE stakePage[app].buttons \ {tx.call}
                  ELSE stakePage[app].buttons
  <2>1. stakePage[app] \in StakePages
    OBVIOUS
  <2>2. CASE app = tx.app
    <3>1. PICK d \in StakePages : d = stakePage[app]
      BY <2>1
    <3>2. PICK r \in StakePages : r = Staking!Returned(d, tx)
      BY <1>1
    <3>3. /\ r.visit = d.visit /\ r.staked = d.staked /\ r.amount = d.amount
          /\ r.buttons = IF d.visit = tx.visit
                         THEN IF tx.call = "approve" THEN (d.buttons \ {"approve"}) \cup {"stake"}
                                                     ELSE d.buttons \ {tx.call}
                         ELSE d.buttons
      BY <1>1, <3>2
    <3>4. stakePage'[app] = Staking!Aged(r)
      BY <2>2, <3>1, <3>2
    <3>5. /\ Staking!Aged(r).fresh = FALSE /\ Staking!Aged(r).visit = r.visit
          /\ Staking!Aged(r).staked = r.staked /\ Staking!Aged(r).amount = r.amount
          /\ Staking!Aged(r).buttons = r.buttons
      BY StakeAppsAged
    <3>6. QED
      BY <2>2, <3>1, <3>2, <3>3, <3>4, <3>5
  <2>3. CASE app # tx.app
    <3>1. stakePage'[app] = Staking!Aged(stakePage[app])
      BY <2>3
    <3>2. QED
      BY <2>1, <2>3, <3>1, StakeAppsAged
  <2>4. QED
    BY <2>2, <2>3
<1>3. stakePage' \in [Staking!Apps -> StakePages]
  BY <1>2, StakeAppsAged
<1>4. QED
  BY <1>2, <1>3

\* What the pool and the token record of a transaction that they accept.
LEMMA StakeAppsBooks ==
  ASSUME StakeAppsInv, NEW enough \in BOOLEAN, Staking!Mined(enough),
         NEW tx \in StakeTransactions, tx = Head(stakeSent), Staking!Accepts(tx), enough
  PROVE  /\ stakerDfid' \in Nat /\ allowance' \in Nat /\ recorded' \in Nat /\ stake' \in Nat
         /\ approved' \in Nat /\ stakedSince' \in Nat /\ UNCHANGED <<burned, stakeVisits>>
         /\ allowance' + stakedSince' = approved'
         /\ stakerDfid' + stake' + burned' = Balance
         /\ tx.call = "approve" => stakedSince' = 0
         /\ tx.call = "unstake" => stakedSince' = stakedSince
<1>1. /\ stakerDfid \in Nat /\ allowance \in Nat /\ recorded \in Nat /\ stake \in Nat
      /\ burned \in Nat /\ approved \in Nat /\ stakedSince \in Nat /\ Balance \in Nat
      /\ allowance + stakedSince = approved /\ stakerDfid + stake + burned = Balance
  BY FrontEndsAssumption DEF StakeAppsInv, StakeAppsType
<1>2. UNCHANGED <<burned, stakeVisits>>
  BY DEF Staking!Mined, Staking!others
<1>3. tx.call \in {"approve", "stake", "unstake"} /\ tx.amount \in Nat
  BY DEF StakeTransactions
<1>4. CASE tx.call = "approve"
  <2>1. Staking!Approved(tx.amount)
    BY <1>4 DEF Staking!Mined
  <2>2. QED
    BY <1>1, <1>2, <1>3, <1>4, <2>1 DEF Staking!Approved
<1>5. CASE tx.call = "stake"
  <2>1. Staking!Staked(tx.amount) /\ tx.amount <= allowance /\ tx.amount <= stakerDfid
    BY <1>5 DEF Staking!Mined, Staking!Accepts
  <2>2. QED
    BY <1>1, <1>2, <1>3, <1>5, <2>1 DEF Staking!Staked
<1>6. CASE tx.call = "unstake"
  <2>1. Staking!Unstaked(tx.amount) /\ tx.amount <= stake
    BY <1>6 DEF Staking!Mined, Staking!Accepts
  <2>2. QED
    BY <1>1, <1>2, <1>3, <1>6, <2>1 DEF Staking!Unstaked, Staking!past
<1>7. QED
  BY <1>3, <1>4, <1>5, <1>6

\* A stake that is mined takes its button with it, unless the page was loaded
\* again; then the page has no such button, since its own approval comes later.
LEMMA StakeAppsSucceeds ==
  ASSUME StakeAppsInv, NEW enough \in BOOLEAN, Staking!Mined(enough),
         Staking!Accepts(Head(stakeSent)) /\ enough
  PROVE  StakeAppsInv'
<1>1. stakePage \in [Staking!Apps -> StakePages] /\ stakeSent \in Seq(StakeTransactions)
      /\ stakeSent # <<>>
  BY DEF StakeAppsInv, StakeAppsType, Staking!Mined
<1>2. PICK tx \in StakeTransactions : tx = Head(stakeSent) /\ tx = stakeSent[1]
      /\ 1 \in DOMAIN stakeSent
  <2>1. 1 \in DOMAIN stakeSent /\ Head(stakeSent) = stakeSent[1]
    BY <1>1
  <2>2. stakeSent[1] \in StakeTransactions
    BY <1>1, <2>1
  <2>3. QED
    BY <2>1, <2>2
<1>3. /\ stakerDfid' \in Nat /\ allowance' \in Nat /\ recorded' \in Nat /\ stake' \in Nat
      /\ approved' \in Nat /\ stakedSince' \in Nat /\ UNCHANGED <<burned, stakeVisits>>
      /\ allowance' + stakedSince' = approved' /\ stakerDfid' + stake' + burned' = Balance
      /\ (tx.call = "approve" => stakedSince' = 0)
      /\ (tx.call = "unstake" => stakedSince' = stakedSince)
  BY <1>2, StakeAppsBooks
<1>4. stakePage' = [app \in Staking!Apps |->
                      Staking!Aged(IF app = tx.app THEN Staking!Returned(stakePage[app], tx)
                                                   ELSE stakePage[app])]
  BY <1>2 DEF Staking!Mined
<1>5. stakeSent' = [i \in 1 .. Len(stakeSent) - 1 |->
                      IF TRUE THEN Staking!Aged(stakeSent[i + 1]) ELSE stakeSent[i + 1]]
  BY DEF Staking!Mined
<1>6. /\ stakeSent' \in Seq(StakeTransactions)
      /\ \A i \in DOMAIN stakeSent' :
           /\ i \in Nat /\ i + 1 \in DOMAIN stakeSent /\ 1 < i + 1
           /\ stakeSent'[i].call = stakeSent[i + 1].call
           /\ stakeSent'[i].app = stakeSent[i + 1].app
           /\ stakeSent'[i].visit = stakeSent[i + 1].visit
  BY <1>1, <1>5, StakeAppsRest
<1>7. /\ stakePage' \in [Staking!Apps -> StakePages]
      /\ \A app \in Staking!Apps :
           /\ stakePage'[app].fresh = FALSE
           /\ stakePage'[app].visit = stakePage[app].visit
           /\ stakePage'[app].staked = stakePage[app].staked
           /\ stakePage'[app].amount = stakePage[app].amount
           /\ stakePage'[app].buttons =
                IF app = tx.app /\ stakePage[app].visit = tx.visit
                THEN IF tx.call = "approve"
                     THEN (stakePage[app].buttons \ {"approve"}) \cup {"stake"}
                     ELSE stakePage[app].buttons \ {tx.call}
                ELSE stakePage[app].buttons
  BY <1>1, <1>4, StakeAppsReturned
<1>8. StakeAppsType'
  BY <1>3, <1>6, <1>7 DEF StakeAppsInv, StakeAppsType
<1>9. NonceOrder'
  BY <1>1, <1>3, <1>6, <1>7, StakeAppsNonces, StakeAppsNames DEF StakeAppsInv
<1>10. Offered'
  <2> SUFFICES ASSUME "stake" \in stakePage'["stakeDFID"].buttons
               PROVE  /\ stakedSince' = 0
                      /\ \A i \in DOMAIN stakeSent' : stakeSent'[i].call = "stake" =>
                           stakeSent'[i].visit = stakePage'["stakeDFID"].visit
    BY DEF Offered
  <2>1. \A t \in StakeTransactions :
           /\ t.call \in {"approve", "stake"} => t.app = "stakeDFID"
           /\ t.call \notin {"approve", "stake"} => t.call = "unstake" /\ t.app = "unstakeDFID"
           /\ t.visit \in Nat
    BY DEF StakeTransactions
  <2>2. \A i \in DOMAIN stakeSent : stakeSent[i] \in StakeTransactions
    BY <1>1
  <2>3. stakePage'["stakeDFID"].visit = stakePage["stakeDFID"].visit
    BY <1>7, StakeAppsNames
  <2>4. CASE tx.call = "approve" /\ stakePage["stakeDFID"].visit = tx.visit
    <3>1. ASSUME NEW i \in DOMAIN stakeSent, 1 < i, stakeSent[i].call = "stake"
          PROVE  stakeSent[i].visit = stakePage["stakeDFID"].visit
      <4>1. OfStaking(i) /\ OfStaking(1) /\ i \in Nat /\ stakeSent[i].visit \in Nat
        BY <1>1, <1>2, <2>1, <2>2, <2>4, <3>1 DEF OfStaking
      <4>2. /\ stakeSent[i].visit <= stakePage["stakeDFID"].visit
            /\ stakeSent[1].visit <= stakeSent[i].visit
        BY <1>2, <3>1, <4>1 DEF StakeAppsInv, NonceOrder
      <4>3. QED
        BY <1>2, <2>1, <2>4, <4>1, <4>2
    <3>2. \A i \in DOMAIN stakeSent' : stakeSent'[i].call = "stake" =>
             stakeSent'[i].visit = stakePage["stakeDFID"].visit
      BY <1>6, <3>1
    <3>3. QED
      BY <1>3, <2>4, <2>3, <3>2
  <2>5. CASE ~(tx.call = "approve" /\ stakePage["stakeDFID"].visit = tx.visit)
    <3>1. "stake" \in stakePage["stakeDFID"].buttons
      BY <1>7, <2>1, <2>5, StakeAppsNames
    <3>2. /\ stakedSince = 0
          /\ \A i \in DOMAIN stakeSent : stakeSent[i].call = "stake" =>
               stakeSent[i].visit = stakePage["stakeDFID"].visit
      BY <3>1 DEF StakeAppsInv, Offered
    <3>3. tx.call # "stake"
      <4> SUFFICES ASSUME tx.call = "stake" PROVE FALSE
        OBVIOUS
      <4>1. tx.visit = stakePage["stakeDFID"].visit /\ tx.app = "stakeDFID"
        BY <1>2, <2>1, <3>2
      <4>2. stakePage'["stakeDFID"].buttons = stakePage["stakeDFID"].buttons \ {"stake"}
        BY <1>7, <4>1, StakeAppsNames
      <4>3. QED
        BY <4>2
    <3>4. stakedSince' = 0
      BY <1>3, <2>1, <3>2, <3>3
    <3>5. \A i \in DOMAIN stakeSent' : stakeSent'[i].call = "stake" =>
             stakeSent'[i].visit = stakePage["stakeDFID"].visit
      BY <1>6, <3>2
    <3>6. QED
      BY <2>3, <3>4, <3>5
  <2>6. QED
    BY <2>4, <2>5
<1>11. UnstakeOffered'
  <2> DEFINE data == stakePage["unstakeDFID"]
  <2>1. "unstake" \in data.buttons => data.amount <= data.staked
    BY DEF StakeAppsInv, UnstakeOffered
  <2>2. "unstake" \in stakePage'["unstakeDFID"].buttons => "unstake" \in data.buttons
    <3>1. tx.call = "approve" => tx.app = "stakeDFID"
      BY DEF StakeTransactions
    <3>2. QED
      BY <1>7, <3>1, StakeAppsNames
  <2>3. QED
    BY <1>7, <2>1, <2>2, StakeAppsNames DEF UnstakeOffered
<1>12. QED
  BY <1>3, <1>8, <1>9, <1>10, <1>11 DEF StakeAppsInv

\* Every step of the pages of the pool preserves the invariant.
LEMMA StakeAppsStep == StakeAppsInv /\ [Staking!Next]_stakeVars => StakeAppsInv'
<1> SUFFICES ASSUME StakeAppsInv, [Staking!Next]_stakeVars PROVE StakeAppsInv'
  OBVIOUS
<1>1. CASE \E app \in Staking!Apps : Staking!Load(app)
  BY <1>1, StakeAppsLoad
<1>2. CASE \E a \in StakeAmounts : Staking!TypeStake(a) \/ Staking!TypeUnstake(a)
  BY <1>2, StakeAppsTypeStake, StakeAppsTypeUnstake
<1>3. CASE Staking!ApproveDFID
  BY <1>3, StakeAppsClick, StakeAppsNames DEF Staking!ApproveDFID
<1>4. CASE Staking!StakeDFID
  BY <1>4, StakeAppsClick, StakeAppsNames DEF Staking!StakeDFID
<1>5. CASE Staking!UnstakeDFID
  BY <1>5, StakeAppsClick, StakeAppsNames DEF Staking!UnstakeDFID
<1>6. CASE \E enough \in BOOLEAN : Staking!Mined(enough)
  BY <1>6, StakeAppsFails, StakeAppsSucceeds
<1>7. CASE Staking!Burned
  BY <1>7, StakeAppsBurned
<1>8. CASE UNCHANGED stakeVars
  BY <1>8 DEF stakeVars, StakeAppsInv, StakeAppsType, NonceOrder, OfStaking, Offered, UnstakeOffered
<1>9. QED
  BY <1>1, <1>2, <1>3, <1>4, <1>5, <1>6, <1>7, <1>8 DEF Staking!Next

\* What the invariant says of the properties that the run checks.
LEMMA StakeAppsProperties ==
  StakeAppsInv => /\ Staking!StakedAsApproved
                  /\ Staking!OfferedStakeIsAllowed /\ Staking!OfferedUnstakeIsHeld
<1> SUFFICES ASSUME StakeAppsInv
             PROVE  /\ Staking!StakedAsApproved
                    /\ Staking!OfferedStakeIsAllowed /\ Staking!OfferedUnstakeIsHeld
  OBVIOUS
<1>1. /\ allowance \in Nat /\ stakedSince \in Nat /\ approved \in Nat /\ stake \in Nat
      /\ stakePage \in [Staking!Apps -> StakePages]
  BY DEF StakeAppsInv, StakeAppsType
<1>2. /\ stakePage["stakeDFID"].amount \in Nat /\ stakePage["unstakeDFID"].amount \in Nat
      /\ stakePage["unstakeDFID"].staked \in Nat
  BY <1>1, StakeAppsNames, StakePagesNumbers DEF StakePages
<1>3. Staking!StakedAsApproved
  BY <1>1 DEF StakeAppsInv, Staking!StakedAsApproved
<1>4. Staking!OfferedStakeIsAllowed
  BY <1>1, <1>2 DEF StakeAppsInv, Offered, Staking!OfferedStakeIsAllowed
<1>5. Staking!OfferedUnstakeIsHeld
  BY <1>1, <1>2 DEF StakeAppsInv, UnstakeOffered, Staking!OfferedUnstakeIsHeld
<1>6. QED
  BY <1>3, <1>4, <1>5

-----------------------------------------------------------------------------
(* Both in one browser. *)

\* The invariant of both families of pages.
LEMMA FrontEndsInvariant == FrontEndsSpec => [](SafeAppsInv /\ StakeAppsInv)
<1>1. FrontEndsInit => SafeAppsInv /\ StakeAppsInv
  BY SafeAppsInit, StakeAppsInit DEF FrontEndsInit
<1>2. SafeAppsInv /\ StakeAppsInv /\ [FrontEndsNext]_<<vars, stakeVars>>
        => (SafeAppsInv /\ StakeAppsInv)'
  <2>1. [FrontEndsNext]_<<vars, stakeVars>> => [Next]_vars /\ [Staking!Next]_stakeVars
    BY DEF FrontEndsNext
  <2>2. QED
    BY <2>1, SafeAppsStep, StakeAppsStep
<1>3. QED
  BY <1>1, <1>2, PTL DEF FrontEndsSpec

\* No ETH and no DFID moves twice, however often a button is pressed or a page
\* loaded again while a transaction is in flight.
THEOREM NothingMovesTwice == FrontEndsSpec => []NothingTwice
<1>1. SafeAppsInv /\ StakeAppsInv => NothingTwice
  BY StakeAppsProperties DEF SafeAppsInv, NothingTwice
<1>2. QED
  BY <1>1, FrontEndsInvariant, PTL

\* The pool accepts what its pages offer, whatever was approved, staked, typed or
\* burned before.
THEOREM PoolAcceptsOffers == FrontEndsSpec => []OffersAreAccepted
<1>1. StakeAppsInv => OffersAreAccepted
  BY StakeAppsProperties DEF OffersAreAccepted
<1>2. QED
  BY <1>1, FrontEndsInvariant, PTL
=============================================================================
