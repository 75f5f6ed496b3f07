----------------------------- MODULE BankProofs -----------------------------
(***************************************************************************)
(* That the mutexes of the bank do their work, for any number of workers,  *)
(* branches, accounts and commands.                                        *)
(***************************************************************************)
EXTENDS BankProperties, Induction

Action == [cmd : {"none", "deposit", "withdraw", "transfer", "balance"},
           src : Account, dst : Account, amount : Nat]

(* An action that gets as far as the mutexes.                              *)
WellFormed(act) ==
  /\ act \in Action /\ act.cmd # "none"
  /\ act.cmd = "transfer" => act.src # act.dst

Elements(s) == {s[k] : k \in 1 .. Len(s)}

-----------------------------------------------------------------------------
(* The mutexes are different from each other.                              *)
LEMMA LockFacts ==
  /\ \A a \in Account : AccountLock(a) \in Lock /\ BranchOf(a) \in Branch
  /\ \A b \in Branch : BranchLock(b) \in Lock
  /\ bank_bal \in Lock
  /\ \A x, y : BranchLock(x) # AccountLock(y) /\ BranchLock(x) # bank_bal /\ AccountLock(y) # bank_bal
  /\ \A x, y : AccountLock(x) = AccountLock(y) => x = y
  /\ \A x, y : BranchLock(x) = BranchLock(y) => x = y
<1>1. \A a \in Account : BranchOf(a) \in Branch
  BY DEF Account, BranchOf
<1>2. /\ \A a \in Account : AccountLock(a) \in Lock
      /\ \A b \in Branch : BranchLock(b) \in Lock
      /\ bank_bal \in Lock
  BY DEF Lock
<1>3. /\ \A x, y : BranchLock(x) # AccountLock(y) /\ BranchLock(x) # bank_bal /\ AccountLock(y) # bank_bal
      /\ \A x, y : AccountLock(x) = AccountLock(y) => x = y
      /\ \A x, y : BranchLock(x) = BranchLock(y) => x = y
  BY DEF BranchLock, AccountLock, bank_bal
<1>4. QED BY <1>1, <1>2, <1>3

(* Sequences joined.                                                       *)
LEMMA TwoAndTwo ==
  ASSUME NEW S, NEW a \in S, NEW b \in S, NEW c \in S, NEW d \in S
  PROVE  LET s == << a, b >> \o << c, d >>
         IN s \in Seq(S) /\ Len(s) = 4 /\ s[1] = a /\ s[2] = b /\ s[3] = c /\ s[4] = d
  OBVIOUS

LEMMA OneMore ==
  ASSUME NEW S, NEW s \in Seq(S), NEW e \in S
  PROVE  /\ LET t == s \o << e >>
            IN /\ t \in Seq(S) /\ Len(t) = Len(s) + 1 /\ t[Len(s) + 1] = e
               /\ \A k \in 1 .. Len(s) : t[k] = s[k]
         /\ LET t == << e >> \o s
            IN /\ t \in Seq(S) /\ Len(t) = Len(s) + 1 /\ t[1] = e
               /\ \A k \in 1 .. Len(s) : t[k + 1] = s[k]
         /\ s \o << >> = s /\ << >> \o s = s
  OBVIOUS

-----------------------------------------------------------------------------
(* The orders written out.                                                 *)
LEMMA BalanceOrders ==
  ASSUME NEW act, WellFormed(act), act.cmd = "balance"
  PROVE  LockOrder(act) = << bank_bal >> /\ UnlockOrder(act) = << bank_bal >>
  BY DEF LockOrder, UnlockOrder, BankLock

LEMMA PaymentOrders ==
  ASSUME NEW act, WellFormed(act), act.cmd \in {"deposit", "withdraw"}
  PROVE  LET o == LockOrder(act)
             u == UnlockOrder(act)
             b == BranchLock(BranchOf(act.dst))
             a == AccountLock(act.dst)
         IN /\ o \in Seq(Lock) /\ Len(o) = 2 /\ o[1] = b /\ o[2] = a
            /\ u \in Seq(Lock) /\ Len(u) = 2 /\ u[1] = a /\ u[2] = b
<1> DEFINE b == BranchLock(BranchOf(act.dst))
           a == AccountLock(act.dst)
<1>1. a \in Lock /\ b \in Lock
  BY LockFacts DEF WellFormed, Action
<1>2. BranchLocks(act) = << b >> /\ AccountLocks(act) = << a >> /\ BankLock(act) = << >>
  BY DEF BranchLocks, AccountLocks, BankLock
<1> DEFINE s == << b >> \o << a >>
           t == << a >> \o << b >>
<1>3. LockOrder(act) = s \o << >> /\ UnlockOrder(act) = t
  BY <1>2 DEF LockOrder, UnlockOrder
<1> HIDE DEF a, b
<1>4. /\ s \in Seq(Lock) /\ Len(s) = 2 /\ s[1] = b /\ s[2] = a
      /\ t \in Seq(Lock) /\ Len(t) = 2 /\ t[1] = a /\ t[2] = b
  BY <1>1
<1> HIDE DEF s, t
<1>5. LockOrder(act) = s
  BY <1>3, <1>4, OneMore
<1>6. /\ Len(LockOrder(act)) = 2 /\ LockOrder(act)[1] = b /\ LockOrder(act)[2] = a
      /\ LockOrder(act) \in Seq(Lock)
  BY <1>4, <1>5
<1>7. /\ Len(UnlockOrder(act)) = 2 /\ UnlockOrder(act)[1] = a /\ UnlockOrder(act)[2] = b
      /\ UnlockOrder(act) \in Seq(Lock)
  BY <1>3, <1>4
<1>8. QED BY <1>6, <1>7 DEF a, b

(* A transfer between branches, and one inside a branch; x is the account  *)
(* that is locked last.                                                    *)
Across(act, x, y) ==
  LET o == LockOrder(act)
      u == UnlockOrder(act)
  IN /\ BranchOf(x) > BranchOf(y)
     /\ o \in Seq(Lock) /\ Len(o) = 5
     /\ o[1] = BranchLock(BranchOf(x)) /\ o[2] = BranchLock(BranchOf(y))
     /\ o[3] = AccountLock(y) /\ o[4] = AccountLock(x) /\ o[5] = bank_bal
     /\ u \in Seq(Lock) /\ Len(u) = 5
     /\ u[1] = bank_bal /\ u[2] = AccountLock(act.src) /\ u[3] = AccountLock(act.dst)
     /\ u[4] = BranchLock(BranchOf(act.src)) /\ u[5] = BranchLock(BranchOf(act.dst))

Inside(act, x, y) ==
  LET o == LockOrder(act)
      u == UnlockOrder(act)
  IN /\ BranchOf(x) = BranchOf(y) /\ y[2] > x[2]
     /\ o \in Seq(Lock) /\ Len(o) = 3
     /\ o[1] = AccountLock(y) /\ o[2] = AccountLock(x) /\ o[3] = bank_bal
     /\ u \in Seq(Lock) /\ Len(u) = 3
     /\ u[1] = bank_bal /\ u[2] = AccountLock(act.src) /\ u[3] = AccountLock(act.dst)

LEMMA AcrossOrders ==
  ASSUME NEW act, WellFormed(act), act.cmd = "transfer",
         NEW x \in {act.src, act.dst}, NEW y \in {act.src, act.dst},
         BranchOf(x) > BranchOf(y)
  PROVE  Across(act, x, y)
<1>1. /\ act.src \in Account /\ act.dst \in Account /\ x # y
      /\ BranchOf(act.src) \in Nat /\ BranchOf(act.dst) \in Nat
  BY BankAssumption DEF WellFormed, Action, Account, Branch, BranchOf
<1> DEFINE bx == BranchLock(BranchOf(x))
           by == BranchLock(BranchOf(y))
           ax == AccountLock(x)
           ay == AccountLock(y)
<1>2. /\ BranchLocks(act) = << bx, by >> /\ AccountLocks(act) = << ay, ax >>
      /\ BankLock(act) = << bank_bal >>
  BY <1>1 DEF BranchLocks, AccountLocks, BankLock
<1>3. LockOrder(act) = (<< bx, by >> \o << ay, ax >>) \o << bank_bal >>
  BY <1>2 DEF LockOrder
<1>4. UnlockOrder(act) = << bank_bal >> \o << AccountLock(act.src), AccountLock(act.dst) >> \o
          << BranchLock(BranchOf(act.src)), BranchLock(BranchOf(act.dst)) >>
  <2>1. << bx, by >> # << >>
    OBVIOUS
  <2>2. QED BY <1>2, <2>1 DEF UnlockOrder
<1>5. bx \in Lock /\ by \in Lock /\ ax \in Lock /\ ay \in Lock /\ bank_bal \in Lock
  BY <1>1, LockFacts
<1> HIDE DEF bx, by, ax, ay
<1>6. LET o == LockOrder(act)
      IN /\ o \in Seq(Lock) /\ Len(o) = 5
         /\ o[1] = bx /\ o[2] = by /\ o[3] = ay /\ o[4] = ax /\ o[5] = bank_bal
  BY <1>3, <1>5, TwoAndTwo, OneMore
<1>7. /\ AccountLock(act.src) \in Lock /\ AccountLock(act.dst) \in Lock
      /\ BranchLock(BranchOf(act.src)) \in Lock /\ BranchLock(BranchOf(act.dst)) \in Lock
  BY <1>1, LockFacts
<1>8. LET u == UnlockOrder(act)
      IN /\ u \in Seq(Lock) /\ Len(u) = 5
         /\ u[1] = bank_bal /\ u[2] = AccountLock(act.src) /\ u[3] = AccountLock(act.dst)
         /\ u[4] = BranchLock(BranchOf(act.src)) /\ u[5] = BranchLock(BranchOf(act.dst))
  BY <1>4, <1>5, <1>7
<1>9. QED BY <1>6, <1>8 DEF Across, bx, by, ax, ay

LEMMA InsideOrders ==
  ASSUME NEW act, WellFormed(act), act.cmd = "transfer",
         NEW x \in {act.src, act.dst}, NEW y \in {act.src, act.dst},
         BranchOf(x) = BranchOf(y), y[2] > x[2]
  PROVE  Inside(act, x, y)
<1>1. /\ act.src \in Account /\ act.dst \in Account /\ x # y
      /\ BranchOf(act.src) \in Nat /\ BranchOf(act.dst) = BranchOf(act.src)
      /\ act.src[2] \in Nat /\ act.dst[2] \in Nat
  <2>1. act.src \in Account /\ act.dst \in Account
    BY DEF WellFormed, Action
  <2>2. /\ BranchOf(act.src) \in Nat
        /\ act.src[2] \in Nat /\ act.dst[2] \in Nat
    BY <2>1, BankAssumption DEF Account, Branch, BranchOf
  <2>3. QED BY <2>1, <2>2
<1> DEFINE ax == AccountLock(x)
           ay == AccountLock(y)
<1>2. /\ BranchLocks(act) = << >> /\ AccountLocks(act) = << ay, ax >>
      /\ BankLock(act) = << bank_bal >>
  BY <1>1 DEF BranchLocks, AccountLocks, BankLock
<1>3. LockOrder(act) = (<< >> \o << ay, ax >>) \o << bank_bal >>
  BY <1>2 DEF LockOrder
<1>4. UnlockOrder(act) =
        (<< bank_bal >> \o << AccountLock(act.src), AccountLock(act.dst) >>) \o << >>
  BY <1>2 DEF UnlockOrder
<1>5. /\ ax \in Lock /\ ay \in Lock /\ bank_bal \in Lock
      /\ AccountLock(act.src) \in Lock /\ AccountLock(act.dst) \in Lock
  BY <1>1, LockFacts
<1> HIDE DEF ax, ay
<1>6. LET o == LockOrder(act)
      IN /\ o \in Seq(Lock) /\ Len(o) = 3
         /\ o[1] = ay /\ o[2] = ax /\ o[3] = bank_bal
  BY <1>3, <1>5, OneMore
<1>7. LET u == UnlockOrder(act)
      IN /\ u \in Seq(Lock) /\ Len(u) = 3
         /\ u[1] = bank_bal /\ u[2] = AccountLock(act.src) /\ u[3] = AccountLock(act.dst)
  BY <1>4, <1>5, OneMore
<1>8. QED BY <1>1, <1>6, <1>7 DEF Inside, ax, ay

LEMMA TransferOrders ==
  ASSUME NEW act, WellFormed(act), act.cmd = "transfer"
  PROVE  \E x, y \in {act.src, act.dst} : x # y /\ (Across(act, x, y) \/ Inside(act, x, y))
<1>1. /\ act.src \in Account /\ act.dst \in Account /\ act.src # act.dst
  BY DEF WellFormed, Action
<1>2. /\ BranchOf(act.src) \in Nat /\ BranchOf(act.dst) \in Nat
      /\ act.src[2] \in Nat /\ act.dst[2] \in Nat
  BY <1>1, BankAssumption DEF Account, Branch, BranchOf
<1>3. BranchOf(act.src) = BranchOf(act.dst) => act.src[2] # act.dst[2]
  BY <1>1 DEF Account, BranchOf
<1>4. CASE BranchOf(act.src) # BranchOf(act.dst)
  BY <1>1, <1>2, <1>4, AcrossOrders
<1>5. CASE BranchOf(act.src) = BranchOf(act.dst)
  BY <1>1, <1>2, <1>3, <1>5, InsideOrders
<1>6. QED BY <1>4, <1>5

(* The order all commands follow: branches from the last to the first,     *)
(* then accounts by branch and from the last to the first in one, then     *)
(* bank_bal.                                                               *)
Before(l, m) ==
  \/ \E b, c \in Branch : l = BranchLock(b) /\ m = BranchLock(c) /\ b > c
  \/ \E b \in Branch, a \in Account : l = BranchLock(b) /\ m = AccountLock(a)
  \/ \E a, c \in Account :
       /\ l = AccountLock(a) /\ m = AccountLock(c)
       /\ BranchOf(a) < BranchOf(c) \/ (BranchOf(a) = BranchOf(c) /\ a[2] > c[2])
  \/ l # bank_bal /\ m = bank_bal

LEMMA LockOrderFacts ==
  ASSUME NEW act, WellFormed(act)
  PROVE  LET o == LockOrder(act)
         IN /\ o \in Seq(Lock) /\ Len(o) >= 1
            /\ \A j, k \in 1 .. Len(o) : j < k => Before(o[j], o[k])
<1> DEFINE o == LockOrder(act)
<1>1. act.dst \in Account /\ act.src \in Account /\ act.cmd \in {"deposit", "withdraw", "transfer", "balance"}
  BY DEF WellFormed, Action
<1>2. CASE act.cmd = "balance"
  <2>1. o = << bank_bal >>
    BY <1>2, BalanceOrders
  <2>2. QED BY <2>1, LockFacts
<1>3. CASE act.cmd \in {"deposit", "withdraw"}
  <2>1. /\ o \in Seq(Lock) /\ Len(o) = 2
        /\ o[1] = BranchLock(BranchOf(act.dst)) /\ o[2] = AccountLock(act.dst)
    BY <1>3, PaymentOrders
  <2>2. Before(o[1], o[2])
    BY <2>1, <1>1, LockFacts DEF Before
  <2>3. QED BY <2>1, <2>2
<1>4. CASE act.cmd = "transfer"
  <2>1. PICK x, y \in {act.src, act.dst} : x # y /\ (Across(act, x, y) \/ Inside(act, x, y))
    BY <1>4, TransferOrders
  <2>2. /\ x \in Account /\ y \in Account /\ BranchOf(x) \in Branch /\ BranchOf(y) \in Branch
        /\ BranchOf(x) \in Nat /\ BranchOf(y) \in Nat
    BY <1>1, BankAssumption DEF Account, Branch, BranchOf
  <2> HIDE DEF o
  <2>3. CASE Across(act, x, y)
    <3>1. /\ o \in Seq(Lock) /\ Len(o) = 5 /\ BranchOf(x) > BranchOf(y)
          /\ o[1] = BranchLock(BranchOf(x)) /\ o[2] = BranchLock(BranchOf(y))
          /\ o[3] = AccountLock(y) /\ o[4] = AccountLock(x) /\ o[5] = bank_bal
      BY <2>3 DEF Across, o
    <3>2. Before(o[1], o[2])
      BY <3>1, <2>2 DEF Before
    <3>3. \A j \in {1, 2}, k \in {3, 4} : Before(o[j], o[k])
      BY <3>1, <2>2 DEF Before
    <3>4. Before(o[3], o[4])
      BY <3>1, <2>2 DEF Before
    <3>5. \A j \in 1 .. 4 : Before(o[j], o[5])
      <4>1. \A j \in 1 .. 4 : j \in {1, 2, 3, 4}
        OBVIOUS
      <4>2. \A j \in {1, 2, 3, 4} : o[j] # bank_bal
        BY <3>1, <2>2, LockFacts
      <4>3. QED BY <3>1, <4>1, <4>2 DEF Before
    <3>6. QED BY <3>1, <3>2, <3>3, <3>4, <3>5 DEF o
  <2>4. CASE Inside(act, x, y)
    <3>1. /\ o \in Seq(Lock) /\ Len(o) = 3 /\ BranchOf(x) = BranchOf(y) /\ y[2] > x[2]
          /\ o[1] = AccountLock(y) /\ o[2] = AccountLock(x) /\ o[3] = bank_bal
      BY <2>4 DEF Inside, o
    <3>2. Before(o[1], o[2])
      BY <3>1, <2>2 DEF Before
    <3>3. Before(o[1], o[3]) /\ Before(o[2], o[3])
      <4>1. o[1] # bank_bal /\ o[2] # bank_bal
        BY <3>1, LockFacts
      <4>2. QED BY <3>1, <4>1 DEF Before
    <3>4. QED BY <3>1, <3>2, <3>3 DEF o
  <2>5. QED BY <2>1, <2>3, <2>4
<1>5. QED BY <1>1, <1>2, <1>3, <1>4

LEMMA UnlockOrderFacts ==
  ASSUME NEW act, WellFormed(act)
  PROVE  LET o == LockOrder(act)
             u == UnlockOrder(act)
         IN /\ u \in Seq(Lock) /\ Len(u) >= 1
            /\ Elements(u) = Elements(o)
            /\ \A j, k \in 1 .. Len(u) : u[j] = u[k] => j = k
<1> DEFINE o == LockOrder(act)
           u == UnlockOrder(act)
<1>1. act.dst \in Account /\ act.src \in Account /\ act.cmd \in {"deposit", "withdraw", "transfer", "balance"}
  BY DEF WellFormed, Action
<1>2. CASE act.cmd = "balance"
  <2>1. o = << bank_bal >> /\ u = << bank_bal >>
    BY <1>2, BalanceOrders
  <2>2. QED BY <2>1, LockFacts
<1>3. CASE act.cmd \in {"deposit", "withdraw"}
  <2>1. /\ o \in Seq(Lock) /\ Len(o) = 2
        /\ o[1] = BranchLock(BranchOf(act.dst)) /\ o[2] = AccountLock(act.dst)
        /\ u \in Seq(Lock) /\ Len(u) = 2
        /\ u[1] = AccountLock(act.dst) /\ u[2] = BranchLock(BranchOf(act.dst))
    BY <1>3, PaymentOrders
  <2>2. u[1] # u[2]
    BY <2>1, LockFacts
  <2> HIDE DEF o, u
  <2>3. Elements(u) = Elements(o)
    BY <2>1 DEF Elements
  <2>4. QED BY <2>1, <2>2, <2>3 DEF o, u
<1>4. CASE act.cmd = "transfer"
  <2>1. PICK x, y \in {act.src, act.dst} : x # y /\ (Across(act, x, y) \/ Inside(act, x, y))
    BY <1>4, TransferOrders
  <2>2. /\ act.src # act.dst
        /\ \/ x = act.src /\ y = act.dst
           \/ x = act.dst /\ y = act.src
    BY <2>1
  <2> HIDE DEF o, u
  <2>3. CASE Across(act, x, y)
    <3>1. /\ o \in Seq(Lock) /\ Len(o) = 5
          /\ o[1] = BranchLock(BranchOf(x)) /\ o[2] = BranchLock(BranchOf(y))
          /\ o[3] = AccountLock(y) /\ o[4] = AccountLock(x) /\ o[5] = bank_bal
          /\ u \in Seq(Lock) /\ Len(u) = 5
          /\ u[1] = bank_bal /\ u[2] = AccountLock(act.src) /\ u[3] = AccountLock(act.dst)
          /\ u[4] = BranchLock(BranchOf(act.src)) /\ u[5] = BranchLock(BranchOf(act.dst))
      BY <2>3 DEF Across, o, u
    <3>2. BranchOf(act.src) # BranchOf(act.dst)
      <4>1. BranchOf(act.src) \in Nat /\ BranchOf(act.dst) \in Nat
        BY <1>1, BankAssumption DEF Account, Branch, BranchOf
      <4>2. QED BY <4>1, <2>2, <2>3 DEF Across
    <3>3. /\ \A k \in {1, 2, 3, 4, 5} : \E j \in {1, 2, 3, 4, 5} : u[k] = o[j]
          /\ \A k \in {1, 2, 3, 4, 5} : \E j \in {1, 2, 3, 4, 5} : o[k] = u[j]
      BY <3>1, <2>2
    <3>4. \A k : k \in 1 .. 5 <=> k \in {1, 2, 3, 4, 5}
      OBVIOUS
    <3>5. Elements(u) = Elements(o)
      BY <3>1, <3>3, <3>4 DEF Elements
    <3>6. /\ u[2] # u[3] /\ u[4] # u[5]
      BY <3>1, <3>2, <2>2, LockFacts
    <3>7. /\ \A k \in {2, 3, 4, 5} : u[1] # u[k]
          /\ \A j \in {2, 3}, k \in {4, 5} : u[j] # u[k]
      BY <3>1, LockFacts
    <3>8. \A j, k \in {1, 2, 3, 4, 5} : u[j] = u[k] => j = k
      BY <3>6, <3>7
    <3>9. QED BY <3>1, <3>4, <3>5, <3>8 DEF o, u
  <2>4. CASE Inside(act, x, y)
    <3>1. /\ o \in Seq(Lock) /\ Len(o) = 3
          /\ o[1] = AccountLock(y) /\ o[2] = AccountLock(x) /\ o[3] = bank_bal
          /\ u \in Seq(Lock) /\ Len(u) = 3
          /\ u[1] = bank_bal /\ u[2] = AccountLock(act.src) /\ u[3] = AccountLock(act.dst)
      BY <2>4 DEF Inside, o, u
    <3>2. \A k : k \in 1 .. 3 <=> k \in {1, 2, 3}
      OBVIOUS
    <3>3. /\ \A k \in {1, 2, 3} : \E j \in {1, 2, 3} : u[k] = o[j]
          /\ \A k \in {1, 2, 3} : \E j \in {1, 2, 3} : o[k] = u[j]
      BY <3>1, <2>2
    <3>4. Elements(u) = Elements(o)
      BY <3>1, <3>2, <3>3 DEF Elements
    <3>5. u[1] # u[2] /\ u[1] # u[3] /\ u[2] # u[3]
      BY <3>1, <2>2, LockFacts
    <3>6. QED BY <3>1, <3>2, <3>4, <3>5 DEF o, u
  <2>5. QED BY <2>1, <2>3, <2>4
<1>5. QED BY <1>1, <1>2, <1>3, <1>4

(* An account and its branch are adjusted with their mutexes taken.        *)
LEMMA AdjustmentFacts ==
  ASSUME NEW act, WellFormed(act), act.cmd # "balance", NEW k \in 1 .. Len(Adjustments(act))
  PROVE  LET a == Adjustments(act)[k].account
         IN /\ a \in Account /\ Adjustments(act)[k].change \in Int
            /\ AccountLock(a) \in Elements(LockOrder(act))
            /\ UpdatesBranch(act) => BranchLock(BranchOf(a)) \in Elements(LockOrder(act))
<1> DEFINE o == LockOrder(act)
<1>1. /\ act.dst \in Account /\ act.src \in Account /\ act.amount \in Nat
      /\ act.cmd \in {"deposit", "withdraw", "transfer"}
  BY DEF WellFormed, Action
<1>2. CASE act.cmd \in {"deposit", "withdraw"}
  <2>1. /\ Len(Adjustments(act)) = 1 /\ Adjustments(act)[1].account = act.dst
        /\ Adjustments(act)[1].change \in Int
    BY <1>1, <1>2 DEF Adjustments
  <2>2. /\ Len(o) = 2
        /\ o[1] = BranchLock(BranchOf(act.dst)) /\ o[2] = AccountLock(act.dst)
    BY <1>2, PaymentOrders
  <2> HIDE DEF o
  <2>3. k = 1
    BY <2>1
  <2>4. QED BY <1>1, <2>1, <2>2, <2>3 DEF Elements, o
<1>3. CASE act.cmd = "transfer"
  <2>1. /\ Len(Adjustments(act)) = 2
        /\ Adjustments(act)[1].account = act.src /\ Adjustments(act)[2].account = act.dst
        /\ Adjustments(act)[1].change \in Int /\ Adjustments(act)[2].change \in Int
    BY <1>1, <1>3 DEF Adjustments
  <2>2. k \in {1, 2}
    BY <2>1
  <2>3. PICK x, y \in {act.src, act.dst} : x # y /\ (Across(act, x, y) \/ Inside(act, x, y))
    BY <1>3, TransferOrders
  <2>4. \/ x = act.src /\ y = act.dst
        \/ x = act.dst /\ y = act.src
    BY <2>3
  <2> DEFINE a == Adjustments(act)[k].account
  <2>5. a \in {x, y}
    BY <2>1, <2>2, <2>4
  <2>6. CASE Across(act, x, y)
    <3>1. /\ Len(o) = 5
          /\ o[1] = BranchLock(BranchOf(x)) /\ o[2] = BranchLock(BranchOf(y))
          /\ o[3] = AccountLock(y) /\ o[4] = AccountLock(x)
      BY <2>6 DEF Across
    <3> HIDE DEF o, a
    <3>2. /\ AccountLock(a) \in Elements(o) /\ BranchLock(BranchOf(a)) \in Elements(o)
      BY <3>1, <2>5 DEF Elements
    <3>3. QED BY <1>1, <2>1, <2>2, <3>2 DEF o, a
  <2>7. CASE Inside(act, x, y)
    <3>1. /\ Len(o) = 3 /\ o[1] = AccountLock(y) /\ o[2] = AccountLock(x)
      BY <2>7 DEF Inside
    <3>2. ~UpdatesBranch(act)
      BY <1>3, <2>4, <2>7 DEF Inside, UpdatesBranch
    <3> HIDE DEF o, a
    <3>3. AccountLock(a) \in Elements(o)
      BY <3>1, <2>5 DEF Elements
    <3>4. QED BY <1>1, <2>1, <2>2, <3>2, <3>3 DEF o, a
  <2>8. QED BY <2>3, <2>6, <2>7
<1>4. QED BY <1>1, <1>2, <1>3

-----------------------------------------------------------------------------
(* The invariant.  PlaceInv is what a worker has decided when it is at a   *)
(* place, Holding the mutexes it has there, and RegInv what it knows of a  *)
(* balance because of them.                                                *)
Adjusting == {"read", "write", "branch_read", "branch_write"}
Working == Adjusting \cup {"funds", "sum"}
Places == Working \cup {"next", "exit", "check_lock", "check", "lock", "unlock"}

BankType ==
  /\ balance \in [Account -> Int]
  /\ branchBalance \in [Branch -> Int]
  /\ owner \in [Lock -> Worker \cup {NULL}]
  /\ pc \in [Worker -> Places]
  /\ action \in [Worker -> Action]
  /\ i \in [Worker -> Nat \ {0}]
  /\ reg \in [Worker -> Int]

PlaceInv(w) ==
  LET act == action[w] IN
  /\ pc[w] \in {"next", "check_lock", "check", "funds"} => i[w] = 1
  /\ pc[w] \in {"check_lock", "check"} => act.cmd = "transfer"
  /\ pc[w] \in Working \cup {"lock", "unlock"} => WellFormed(act)
  /\ pc[w] = "lock" => i[w] <= Len(LockOrder(act))
  /\ pc[w] = "funds" => act.cmd = "withdraw"
  /\ pc[w] \in Adjusting => act.cmd # "balance" /\ i[w] <= Len(Adjustments(act))
  /\ pc[w] \in {"branch_read", "branch_write"} => UpdatesBranch(act)
  /\ pc[w] = "sum" => act.cmd = "balance" /\ i[w] <= numberBranches
  /\ pc[w] = "unlock" => i[w] <= Len(UnlockOrder(act))

(* The mutexes a worker has by the place it is at.                         *)
Holding(w) ==
  LET act == action[w] IN
  CASE pc[w] = "check" -> {AccountLock(act.src)}
    [] pc[w] = "lock" -> {LockOrder(act)[k] : k \in 1 .. (i[w] - 1)}
    [] pc[w] \in Working -> Elements(LockOrder(act))
    [] pc[w] = "unlock" -> {UnlockOrder(act)[k] : k \in i[w] .. Len(UnlockOrder(act))}
    [] OTHER -> {}

HoldInv(w) == \A l \in Holding(w) : l \in Lock /\ owner[l] = w

RegInv(w) ==
  /\ pc[w] = "write" => reg[w] = balance[Adjusted(w).account]
  /\ pc[w] = "branch_write" => reg[w] = branchBalance[BranchOf(Adjusted(w).account)]
  /\ pc[w] \in {"read", "write"} /\ action[w].cmd = "withdraw" =>
       action[w].amount <= balance[action[w].dst]

WorkerInv(w) == PlaceInv(w) /\ HoldInv(w) /\ RegInv(w)

BankInv == BankType /\ \A w \in Worker : WorkerInv(w)

(* What a step of w leaves alone: the other workers, the mutexes they      *)
(* have, and the balances whose mutexes w has not.                         *)
Frame(w) ==
  /\ \A x \in Worker \ {w} :
       pc'[x] = pc[x] /\ action'[x] = action[x] /\ i'[x] = i[x] /\ reg'[x] = reg[x]
  /\ \A l \in Lock : owner[l] \notin {w, NULL} => owner'[l] = owner[l]
  /\ \A a \in Account : owner[AccountLock(a)] # w => balance'[a] = balance[a]
  /\ \A b \in Branch : owner[BranchLock(b)] # w => branchBalance'[b] = branchBalance[b]

(* A worker at work on an account has its mutex, and its branch's when it  *)
(* changes that.                                                           *)
LEMMA AdjustedHeld ==
  ASSUME BankType, NEW w \in Worker, PlaceInv(w), HoldInv(w), pc[w] \in Adjusting
  PROVE  LET a == Adjusted(w).account
         IN /\ a \in Account /\ BranchOf(a) \in Branch /\ Adjusted(w).change \in Int
            /\ owner[AccountLock(a)] = w
            /\ UpdatesBranch(action[w]) => owner[BranchLock(BranchOf(a))] = w
<1>1. /\ WellFormed(action[w]) /\ action[w].cmd # "balance"
      /\ i[w] \in 1 .. Len(Adjustments(action[w]))
  <2>1. Len(Adjustments(action[w])) \in Nat
    BY DEF Adjustments
  <2>2. QED BY <2>1 DEF PlaceInv, Working, BankType
<1>2. Holding(w) = Elements(LockOrder(action[w]))
  BY DEF Holding, Working, Adjusting
<1>3. QED BY <1>1, <1>2, AdjustmentFacts, LockFacts DEF Adjusted, HoldInv

(* The workers that do not move keep their invariant.                      *)
LEMMA FrameLemma ==
  ASSUME BankInv, NEW w \in Worker, Frame(w), NEW x \in Worker, x # w
  PROVE  WorkerInv(x)'
<1>1. WorkerInv(x) /\ BankType
  BY DEF BankInv
<1>2. pc'[x] = pc[x] /\ action'[x] = action[x] /\ i'[x] = i[x] /\ reg'[x] = reg[x]
  BY DEF Frame
<1>3. PlaceInv(x)'
  BY <1>1, <1>2 DEF WorkerInv, PlaceInv
<1>4. Holding(x)' = Holding(x) /\ Adjusted(x)' = Adjusted(x)
  BY <1>2 DEF Holding, Adjusted
<1>5. HoldInv(x)'
  <2>1. \A l \in Holding(x) : l \in Lock /\ owner[l] = x /\ x \notin {w, NULL}
    BY <1>1, BankAssumption DEF WorkerInv, HoldInv
  <2>2. QED BY <2>1, <1>4 DEF HoldInv, Frame
<1>6. RegInv(x)'
  <2>1. CASE pc[x] \in Adjusting
    <3>1. LET a == Adjusted(x).account
          IN /\ a \in Account /\ BranchOf(a) \in Branch
             /\ owner[AccountLock(a)] = x
             /\ UpdatesBranch(action[x]) => owner[BranchLock(BranchOf(a))] = x
      BY <1>1, <2>1, AdjustedHeld DEF WorkerInv
    <3>2. balance'[Adjusted(x).account] = balance[Adjusted(x).account]
      BY <3>1 DEF Frame
    <3>3. pc[x] = "branch_write" =>
            branchBalance'[BranchOf(Adjusted(x).account)] = branchBalance[BranchOf(Adjusted(x).account)]
      BY <1>1, <3>1 DEF Frame, WorkerInv, PlaceInv
    <3>4. action[x].cmd = "withdraw" => Adjusted(x).account = action[x].dst
      <4>1. i[x] \in Nat \ {0} /\ i[x] <= Len(Adjustments(action[x]))
        BY <1>1, <2>1 DEF WorkerInv, PlaceInv, BankType
      <4>2. QED BY <4>1 DEF Adjusted, Adjustments
    <3>5. QED BY <1>1, <1>2, <1>4, <3>2, <3>3, <3>4 DEF WorkerInv, RegInv
  <2>2. CASE pc[x] \notin Adjusting
    BY <1>2, <2>2 DEF RegInv, Adjusting
  <2>3. QED BY <2>1, <2>2
<1>7. QED BY <1>3, <1>5, <1>6 DEF WorkerInv

-----------------------------------------------------------------------------
(* One lemma for each step of a worker.                                    *)
Kept(w) == BankType' /\ Frame(w) /\ WorkerInv(w)'

LEMMA NoActionFacts == NoAction \in Action
<1>1. 0 \in Branch /\ 0 \in 0 .. accountsPerBranch - 1
  BY BankAssumption DEF Branch
<1>2. << 0, 0 >> \in Account
  BY <1>1 DEF Account
<1>3. QED BY <1>2 DEF NoAction, Action

LEMMA CommandFacts ==
  \A act \in Commands :
    /\ act \in Action /\ act.cmd \in {"deposit", "withdraw", "transfer", "balance"}
<1>1. << 0, 0 >> \in Account
  BY NoActionFacts DEF NoAction, Action
<1>2. Amounts \subseteq Nat /\ {0} \subseteq Nat
  BY BankAssumption
<1>3. \A act \in [cmd : {"deposit", "withdraw"}, src : {<< 0, 0 >>}, dst : Account,
                   amount : IF noFundsFlow THEN {0} ELSE Amounts] :
        act \in Action /\ act.cmd \in {"deposit", "withdraw"}
  BY <1>1, <1>2 DEF Action
<1>4. \A act \in [cmd : {"transfer"}, src : Account, dst : Account, amount : Amounts] :
        act \in Action /\ act.cmd = "transfer"
  BY <1>2 DEF Action
<1>5. LET act == [NoAction EXCEPT !.cmd = "balance"]
      IN act \in Action /\ act.cmd = "balance"
  BY NoActionFacts DEF Action
<1>6. QED BY <1>3, <1>4, <1>5 DEF Commands

LEMMA GetNextStep ==
  ASSUME BankInv, NEW w \in Worker, GetNext(w)
  PROVE  Kept(w)
<1>1. BankType /\ PlaceInv(w) /\ i[w] = 1
  BY DEF BankInv, WorkerInv, PlaceInv, GetNext
<1>2. PICK act \in Commands :
        /\ action' = [action EXCEPT ![w] = act]
        /\ pc' = [pc EXCEPT ![w] = IF act.cmd = "transfer" THEN "check_lock" ELSE "lock"]
  BY DEF GetNext, Goto
<1>3. act \in Action /\ act.cmd \in {"deposit", "withdraw", "transfer", "balance"}
  BY CommandFacts
<1>4. UNCHANGED << balance, branchBalance, owner, i, reg >>
  BY DEF GetNext
<1>5. BankType'
  BY <1>1, <1>2, <1>3, <1>4 DEF BankType, Places, Working, Adjusting
<1>6. Frame(w)
  BY <1>1, <1>2, <1>4 DEF Frame, BankType
<1>7. pc'[w] \in {"check_lock", "lock"} /\ action'[w] = act /\ i'[w] = 1
      /\ (pc'[w] = "check_lock" <=> act.cmd = "transfer")
  BY <1>1, <1>2, <1>4 DEF BankType
<1>8. PlaceInv(w)'
  <2>1. pc'[w] = "lock" => WellFormed(act)
    BY <1>3, <1>7 DEF WellFormed
  <2>2. pc'[w] = "lock" => 1 <= Len(LockOrder(act))
    BY <2>1, LockOrderFacts
  <2>3. QED BY <1>7, <2>1, <2>2 DEF PlaceInv, Working, Adjusting
<1>9. HoldInv(w)'
  <2>1. (Holding(w))' = {}
    BY <1>7 DEF Holding, Working, Adjusting
  <2>2. QED BY <2>1 DEF HoldInv
<1>10. RegInv(w)'
  BY <1>7 DEF RegInv
<1>11. QED BY <1>5, <1>6, <1>8, <1>9, <1>10 DEF Kept, WorkerInv

LEMMA ExitStep ==
  ASSUME BankInv, NEW w \in Worker, Exit(w)
  PROVE  Kept(w)
<1>1. BankType
  BY DEF BankInv
<1>2. pc' = [pc EXCEPT ![w] = "exit"] /\ UNCHANGED << balance, branchBalance, owner, action, i, reg >>
  BY DEF Exit, Goto
<1>3. BankType' /\ Frame(w)
  BY <1>1, <1>2 DEF BankType, Frame, Places
<1>4. pc'[w] = "exit"
  BY <1>1, <1>2 DEF BankType
<1>5. WorkerInv(w)'
  BY <1>4 DEF WorkerInv, PlaceInv, HoldInv, Holding, RegInv, Working, Adjusting
<1>6. QED BY <1>3, <1>5 DEF Kept

LEMMA CheckLockStep ==
  ASSUME BankInv, NEW w \in Worker, CheckLock(w)
  PROVE  Kept(w)
<1> DEFINE l == AccountLock(action[w].src)
<1>1. BankType /\ PlaceInv(w) /\ i[w] = 1 /\ action[w].cmd = "transfer" /\ action[w] \in Action
  BY DEF BankInv, WorkerInv, PlaceInv, CheckLock, BankType
<1>2. l \in Lock
  BY <1>1, LockFacts DEF Action
<1>3. /\ pc' = [pc EXCEPT ![w] = "check"] /\ owner[l] = NULL /\ owner' = [owner EXCEPT ![l] = w]
      /\ UNCHANGED << balance, branchBalance, action, i, reg >>
  BY DEF CheckLock, Goto, Acquire
<1> HIDE DEF l
<1>4. BankType' /\ Frame(w)
  BY <1>1, <1>2, <1>3 DEF BankType, Frame, Places
<1>5. pc'[w] = "check" /\ i'[w] = 1 /\ action'[w] = action[w] /\ owner'[l] = w
  BY <1>1, <1>2, <1>3 DEF BankType
<1>6. PlaceInv(w)'
  BY <1>1, <1>5 DEF PlaceInv, Working, Adjusting
<1>7. HoldInv(w)'
  <2>1. (Holding(w))' = {l}
    BY <1>5 DEF Holding, Working, Adjusting, l
  <2>2. QED BY <1>2, <1>5, <2>1 DEF HoldInv
<1>8. RegInv(w)'
  BY <1>5 DEF RegInv
<1>9. QED BY <1>4, <1>6, <1>7, <1>8 DEF Kept, WorkerInv

LEMMA CheckStep ==
  ASSUME BankInv, NEW w \in Worker, Check(w)
  PROVE  Kept(w)
<1> DEFINE l == AccountLock(action[w].src)
<1>1. BankType /\ PlaceInv(w) /\ i[w] = 1 /\ action[w].cmd = "transfer" /\ action[w] \in Action
  BY DEF BankInv, WorkerInv, PlaceInv, Check, BankType
<1>2. l \in Lock /\ owner[l] = w
  BY DEF BankInv, WorkerInv, HoldInv, Holding, Check, Working, Adjusting
<1>3. /\ owner' = [owner EXCEPT ![l] = NULL]
      /\ UNCHANGED << balance, branchBalance, i, reg >>
      /\ \/ pc' = [pc EXCEPT ![w] = "next"] /\ action' = [action EXCEPT ![w] = NoAction]
         \/ pc' = [pc EXCEPT ![w] = "lock"] /\ action' = action /\ action[w].src # action[w].dst
  BY DEF Check, Goto
<1> HIDE DEF l
<1>4. BankType' /\ Frame(w)
  BY <1>1, <1>2, <1>3, NoActionFacts DEF BankType, Frame, Places
<1>5. i'[w] = 1 /\ (pc'[w] = "next" \/ (pc'[w] = "lock" /\ action'[w] = action[w] /\ WellFormed(action[w])))
  BY <1>1, <1>3 DEF BankType, WellFormed
<1>6. PlaceInv(w)'
  <2>1. pc'[w] = "lock" => 1 <= Len(LockOrder(action[w]))
    BY <1>5, LockOrderFacts
  <2>2. QED BY <1>5, <2>1 DEF PlaceInv, Working, Adjusting
<1>7. HoldInv(w)'
  <2>1. (Holding(w))' = {}
    BY <1>5 DEF Holding, Working, Adjusting
  <2>2. QED BY <2>1 DEF HoldInv
<1>8. RegInv(w)'
  BY <1>5 DEF RegInv
<1>9. QED BY <1>4, <1>6, <1>7, <1>8 DEF Kept, WorkerInv

LEMMA LockNextStep ==
  ASSUME BankInv, NEW w \in Worker, LockNext(w)
  PROVE  Kept(w)
<1> DEFINE act == action[w]
           o == LockOrder(act)
           l == o[i[w]]
<1>1. BankType /\ WellFormed(act) /\ i[w] \in 1 .. Len(o) /\ o \in Seq(Lock) /\ Len(o) \in Nat
  <2>1. BankType /\ WellFormed(act) /\ i[w] \in Nat \ {0} /\ i[w] <= Len(o)
    BY DEF BankInv, WorkerInv, PlaceInv, LockNext, BankType
  <2>2. QED BY <2>1, LockOrderFacts
<1>2. l \in Lock
  BY <1>1
<1>3. /\ owner[l] = NULL /\ owner' = [owner EXCEPT ![l] = w]
      /\ UNCHANGED << balance, branchBalance, action, reg >>
  BY DEF LockNext, Acquire
<1>4. \A k \in 1 .. (i[w] - 1) : o[k] \in Lock /\ owner[o[k]] = w
  BY DEF BankInv, WorkerInv, HoldInv, Holding, LockNext, Working, Adjusting
<1>5. \A k \in 1 .. i[w] : o[k] \in Lock /\ owner'[o[k]] = w
  <2>1. ASSUME NEW k \in 1 .. i[w] PROVE o[k] \in Lock /\ owner'[o[k]] = w
    <3>1. CASE k = i[w]
      BY <1>1, <1>2, <1>3, <3>1 DEF BankType
    <3>2. CASE k # i[w]
      <4>1. k \in 1 .. (i[w] - 1)
        BY <1>1, <3>2
      <4>2. o[k] \in Lock /\ owner[o[k]] = w /\ w # NULL
        BY <1>4, <4>1, BankAssumption
      <4>3. o[k] # l
        BY <4>2, <1>3
      <4>4. QED BY <1>1, <1>2, <1>3, <4>2, <4>3 DEF BankType
    <3>3. QED BY <3>1, <3>2
  <2>2. QED BY <2>1
<1>6. CASE i[w] < Len(o)
  <2>1. i' = [i EXCEPT ![w] = @ + 1] /\ pc' = pc /\ pc[w] = "lock"
    BY <1>6 DEF LockNext
  <2> HIDE DEF o, l
  <2>2. BankType' /\ Frame(w)
    BY <1>1, <1>2, <1>3, <2>1 DEF BankType, Frame
  <2>3. pc'[w] = "lock" /\ i'[w] = i[w] + 1 /\ action'[w] = act
    BY <1>1, <1>3, <2>1 DEF BankType
  <2>4. PlaceInv(w)'
    BY <1>1, <1>6, <2>3 DEF PlaceInv, Working, Adjusting, o
  <2>5. HoldInv(w)'
    <3>1. (Holding(w))' = {LockOrder(action'[w])[k] : k \in 1 .. (i'[w] - 1)}
      BY <2>3 DEF Holding, Working, Adjusting
    <3>2. ASSUME NEW m \in (Holding(w))'
          PROVE  m \in Lock /\ owner'[m] = w
      <4>1. PICK k \in 1 .. (i'[w] - 1) : m = LockOrder(action'[w])[k]
        BY <3>1
      <4>2. k \in 1 .. i[w] /\ m = o[k]
        BY <4>1, <2>3, <1>1 DEF o
      <4>3. QED BY <4>2, <1>5
    <3>3. QED BY <3>2 DEF HoldInv
  <2>6. RegInv(w)'
    BY <2>3 DEF RegInv
  <2>7. QED BY <2>2, <2>4, <2>5, <2>6 DEF Kept, WorkerInv
<1>7. CASE ~(i[w] < Len(o))
  <2>1. /\ i' = [i EXCEPT ![w] = 1]
        /\ \/ act.cmd = "withdraw" /\ pc' = [pc EXCEPT ![w] = "funds"]
           \/ act.cmd = "balance" /\ pc' = [pc EXCEPT ![w] = "sum"]
           \/ act.cmd \notin {"withdraw", "balance"} /\ pc' = [pc EXCEPT ![w] = "read"]
    BY <1>7 DEF LockNext, Goto
  <2> HIDE DEF o, l
  <2>2. BankType'
    <3>1. pc' \in [Worker -> Places]
      BY <1>1, <2>1 DEF BankType, Places, Working, Adjusting
    <3>2. QED BY <1>1, <1>2, <1>3, <2>1, <3>1 DEF BankType
  <2>8. Frame(w)
    BY <1>1, <1>2, <1>3, <2>1 DEF BankType, Frame
  <2>3. /\ i'[w] = 1 /\ action'[w] = act
        /\ \/ act.cmd = "withdraw" /\ pc'[w] = "funds"
           \/ act.cmd = "balance" /\ pc'[w] = "sum"
           \/ act.cmd \notin {"withdraw", "balance"} /\ pc'[w] = "read"
    BY <1>1, <1>3, <2>1 DEF BankType
  <2>4. PlaceInv(w)'
    <3>1. 1 <= Len(Adjustments(act)) /\ 1 <= numberBranches
      BY BankAssumption DEF Adjustments
    <3>2. QED BY <1>1, <2>3, <3>1 DEF PlaceInv, Working, Adjusting
  <2>5. HoldInv(w)'
    <3>1. (Holding(w))' = Elements(o)
      BY <2>3 DEF Holding, Working, Adjusting, o
    <3>2. i[w] = Len(o)
      BY <1>1, <1>7
    <3>3. QED BY <1>5, <3>1, <3>2 DEF HoldInv, Elements
  <2>6. RegInv(w)'
    BY <2>3 DEF RegInv
  <2>7. QED BY <2>2, <2>4, <2>5, <2>6, <2>8 DEF Kept, WorkerInv
<1>8. QED BY <1>6, <1>7

(* A worker keeps its mutexes while it works, and has them all when it     *)
(* starts to give them back.                                               *)
LEMMA WorkingHolds ==
  ASSUME BankType, NEW w \in Worker, PlaceInv(w), HoldInv(w), pc[w] \in Working,
         UNCHANGED owner, action'[w] = action[w],
         pc'[w] \in Working \/ (pc'[w] = "unlock" /\ i'[w] = 1)
  PROVE  HoldInv(w)'
<1> DEFINE o == LockOrder(action[w])
           u == UnlockOrder(action[w])
<1>1. WellFormed(action[w]) /\ Holding(w) = Elements(o)
  BY DEF PlaceInv, Holding, Working, Adjusting
<1>2. \A l \in Elements(o) : l \in Lock /\ owner'[l] = w
  BY <1>1 DEF HoldInv
<1>3. CASE pc'[w] \in Working
  <2>1. (Holding(w))' = Elements(o)
    BY <1>3 DEF Holding, Working, Adjusting
  <2>2. QED BY <1>2, <2>1 DEF HoldInv
<1>4. CASE pc'[w] = "unlock" /\ i'[w] = 1
  <2>1. (Holding(w))' = Elements(u)
    BY <1>4 DEF Holding, Working, Adjusting, Elements
  <2>2. QED BY <1>1, <1>2, <2>1, UnlockOrderFacts DEF HoldInv
<1>5. QED BY <1>3, <1>4

LEMMA FundsStep ==
  ASSUME BankInv, NEW w \in Worker, Funds(w)
  PROVE  Kept(w)
<1>1. /\ BankType /\ PlaceInv(w) /\ HoldInv(w) /\ pc[w] \in Working
      /\ WellFormed(action[w]) /\ action[w].cmd = "withdraw" /\ i[w] = 1
  BY DEF BankInv, WorkerInv, PlaceInv, Funds, Working
<1>2. /\ UNCHANGED << balance, branchBalance, owner, action, i, reg >>
      /\ \/ pc' = [pc EXCEPT ![w] = "unlock"]
         \/ pc' = [pc EXCEPT ![w] = "read"] /\ ~(action[w].amount > balance[action[w].dst])
  BY DEF Funds, Goto
<1>3. BankType' /\ Frame(w)
  BY <1>1, <1>2 DEF BankType, Frame, Places, Working, Adjusting
<1>4. /\ i'[w] = 1 /\ action'[w] = action[w] /\ UNCHANGED << owner, balance >>
      /\ \/ pc'[w] = "unlock"
         \/ pc'[w] = "read" /\ ~(action[w].amount > balance[action[w].dst])
  BY <1>1, <1>2 DEF BankType
<1>5. PlaceInv(w)'
  <2>1. 1 <= Len(Adjustments(action[w])) /\ 1 <= Len(UnlockOrder(action[w]))
    BY <1>1, UnlockOrderFacts DEF Adjustments
  <2>2. QED BY <1>1, <1>4, <2>1 DEF PlaceInv, Working, Adjusting
<1>6. HoldInv(w)'
  <2>1. pc'[w] \in Working \/ (pc'[w] = "unlock" /\ i'[w] = 1)
    BY <1>4 DEF Working, Adjusting
  <2>2. QED BY <1>1, <1>4, <2>1, WorkingHolds
<1>7. RegInv(w)'
  <2>1. action[w].amount \in Int /\ balance[action[w].dst] \in Int
    BY <1>1 DEF WellFormed, Action, BankType
  <2>2. QED BY <1>4, <2>1 DEF RegInv
<1>8. QED BY <1>3, <1>5, <1>6, <1>7 DEF Kept, WorkerInv

LEMMA ReadAccountStep ==
  ASSUME BankInv, NEW w \in Worker, ReadAccount(w)
  PROVE  Kept(w)
<1>1. /\ BankType /\ PlaceInv(w) /\ HoldInv(w) /\ RegInv(w)
      /\ pc[w] = "read" /\ pc[w] \in Working /\ pc[w] \in Adjusting
  BY DEF BankInv, WorkerInv, ReadAccount, Working, Adjusting
<1>2. /\ UNCHANGED << balance, branchBalance, owner, action, i >>
      /\ pc' = [pc EXCEPT ![w] = "write"]
      /\ reg' = [reg EXCEPT ![w] = balance[Adjusted(w).account]]
  BY DEF ReadAccount, Goto
<1>3. Adjusted(w).account \in Account /\ balance[Adjusted(w).account] \in Int
  BY <1>1, AdjustedHeld DEF BankType
<1>4. BankType' /\ Frame(w)
  BY <1>1, <1>2, <1>3 DEF BankType, Frame, Places, Working, Adjusting
<1>5. /\ pc'[w] = "write" /\ action'[w] = action[w] /\ i'[w] = i[w]
      /\ reg'[w] = balance[Adjusted(w).account] /\ Adjusted(w)' = Adjusted(w)
  BY <1>1, <1>2 DEF BankType, Adjusted
<1>6. PlaceInv(w)'
  BY <1>1, <1>5 DEF PlaceInv, Working, Adjusting
<1>7. HoldInv(w)'
  <2>1. pc'[w] \in Working
    BY <1>5 DEF Working, Adjusting
  <2>2. QED BY <1>1, <1>2, <1>5, <2>1, WorkingHolds
<1>8. RegInv(w)'
  BY <1>1, <1>2, <1>5 DEF RegInv
<1>9. QED BY <1>4, <1>6, <1>7, <1>8 DEF Kept, WorkerInv

LEMMA ReadBranchStep ==
  ASSUME BankInv, NEW w \in Worker, ReadBranch(w)
  PROVE  Kept(w)
<1>1. /\ BankType /\ PlaceInv(w) /\ HoldInv(w)
      /\ pc[w] = "branch_read" /\ pc[w] \in Working /\ pc[w] \in Adjusting
  BY DEF BankInv, WorkerInv, ReadBranch, Working, Adjusting
<1>2. /\ UNCHANGED << balance, branchBalance, owner, action, i >>
      /\ pc' = [pc EXCEPT ![w] = "branch_write"]
      /\ reg' = [reg EXCEPT ![w] = branchBalance[BranchOf(Adjusted(w).account)]]
  BY DEF ReadBranch, Goto
<1>3. branchBalance[BranchOf(Adjusted(w).account)] \in Int
  BY <1>1, AdjustedHeld DEF BankType
<1>4. BankType' /\ Frame(w)
  BY <1>1, <1>2, <1>3 DEF BankType, Frame, Places, Working, Adjusting
<1>5. /\ pc'[w] = "branch_write" /\ action'[w] = action[w] /\ i'[w] = i[w]
      /\ reg'[w] = branchBalance[BranchOf(Adjusted(w).account)] /\ Adjusted(w)' = Adjusted(w)
  BY <1>1, <1>2 DEF BankType, Adjusted
<1>6. PlaceInv(w)'
  BY <1>1, <1>5 DEF PlaceInv, Working, Adjusting
<1>7. HoldInv(w)'
  <2>1. pc'[w] \in Working
    BY <1>5 DEF Working, Adjusting
  <2>2. QED BY <1>1, <1>2, <1>5, <2>1, WorkingHolds
<1>8. RegInv(w)'
  BY <1>2, <1>5 DEF RegInv
<1>9. QED BY <1>4, <1>6, <1>7, <1>8 DEF Kept, WorkerInv

(* What comes after an adjustment: the next one, or the mutexes.           *)
LEMMA AdjustNextFacts ==
  ASSUME BankType, NEW w \in Worker, PlaceInv(w), HoldInv(w), pc[w] \in Adjusting,
         UNCHANGED << owner, action >>, AdjustNext(w)
  PROVE  /\ pc' \in [Worker -> Places] /\ i' \in [Worker -> Nat \ {0}]
         /\ \A x \in Worker \ {w} : pc'[x] = pc[x] /\ i'[x] = i[x]
         /\ pc'[w] \in {"read", "unlock"}
         /\ pc'[w] = "read" => action[w].cmd = "transfer"
         /\ PlaceInv(w)' /\ HoldInv(w)'
<1>1. /\ WellFormed(action[w]) /\ i[w] \in Nat \ {0} /\ pc[w] \in Working
      /\ action[w].cmd # "balance" /\ action'[w] = action[w]
  BY DEF PlaceInv, Working, BankType
<1>2. Len(Adjustments(action[w])) \in Nat
  BY DEF Adjustments
<1>3. CASE i[w] < Len(Adjustments(action[w]))
  <2>1. pc' = [pc EXCEPT ![w] = "read"] /\ i' = [i EXCEPT ![w] = @ + 1]
    BY <1>3 DEF AdjustNext, Goto
  <2>2. pc'[w] = "read" /\ i'[w] = i[w] + 1
    BY <2>1 DEF BankType
  <2>3. action[w].cmd = "transfer"
    <3>1. Len(Adjustments(action[w])) # 1
      <4>1. \A m \in Nat \ {0}, n \in Nat : m < n => n # 1
        OBVIOUS
      <4>2. QED BY <1>1, <1>2, <1>3, <4>1
    <3>2. action[w].cmd \notin {"deposit", "withdraw"}
      BY <3>1 DEF Adjustments
    <3>3. QED BY <1>1, <3>2 DEF WellFormed, Action
  <2>4. PlaceInv(w)'
    BY <1>1, <1>2, <1>3, <2>2 DEF PlaceInv, Working, Adjusting
  <2>5. HoldInv(w)'
    <3>1. pc'[w] \in Working
      BY <2>2 DEF Working, Adjusting
    <3>2. QED BY <1>1, <3>1, WorkingHolds
  <2>6. QED BY <1>1, <2>1, <2>2, <2>3, <2>4, <2>5 DEF BankType, Places, Working, Adjusting
<1>4. CASE ~(i[w] < Len(Adjustments(action[w])))
  <2>1. pc' = [pc EXCEPT ![w] = "unlock"] /\ i' = [i EXCEPT ![w] = 1]
    BY <1>4 DEF AdjustNext, Goto
  <2>2. pc'[w] = "unlock" /\ i'[w] = 1
    BY <2>1 DEF BankType
  <2>3. PlaceInv(w)'
    BY <1>1, <2>2, UnlockOrderFacts DEF PlaceInv, Working, Adjusting
  <2>4. HoldInv(w)'
    BY <1>1, <2>2, WorkingHolds
  <2>5. QED BY <2>1, <2>2, <2>3, <2>4 DEF BankType, Places
<1>5. QED BY <1>3, <1>4

LEMMA WriteAccountStep ==
  ASSUME BankInv, NEW w \in Worker, WriteAccount(w)
  PROVE  Kept(w)
<1> DEFINE a == Adjusted(w).account
<1>1. /\ BankType /\ PlaceInv(w) /\ HoldInv(w)
      /\ pc[w] = "write" /\ pc[w] \in Working /\ pc[w] \in Adjusting
  BY DEF BankInv, WorkerInv, WriteAccount, Working, Adjusting
<1>2. a \in Account /\ owner[AccountLock(a)] = w /\ reg[w] + Adjusted(w).change \in Int
  BY <1>1, AdjustedHeld DEF BankType
<1>3. /\ UNCHANGED << branchBalance, owner, action >>
      /\ balance' = [balance EXCEPT ![a] = reg[w] + Adjusted(w).change]
      /\ reg' = [reg EXCEPT ![w] = 0]
  BY DEF WriteAccount
<1>4. /\ balance' \in [Account -> Int] /\ reg' \in [Worker -> Int]
      /\ \A x \in Account : owner[AccountLock(x)] # w => balance'[x] = balance[x]
      /\ \A x \in Worker \ {w} : reg'[x] = reg[x]
  BY <1>1, <1>2, <1>3 DEF BankType
<1>5. CASE UpdatesBranch(action[w])
  <2>1. pc' = [pc EXCEPT ![w] = "branch_read"] /\ i' = i
    BY <1>5 DEF WriteAccount, Goto
  <2>2. pc'[w] = "branch_read" /\ action'[w] = action[w] /\ i'[w] = i[w]
    BY <1>1, <1>3, <2>1 DEF BankType
  <2>3. BankType' /\ Frame(w)
    BY <1>1, <1>3, <1>4, <2>1 DEF BankType, Frame, Places, Working, Adjusting
  <2>4. PlaceInv(w)'
    BY <1>1, <1>5, <2>2 DEF PlaceInv, Working, Adjusting
  <2>5. HoldInv(w)'
    <3>1. pc'[w] \in Working
      BY <2>2 DEF Working, Adjusting
    <3>2. QED BY <1>1, <1>3, <2>2, <3>1, WorkingHolds
  <2>6. RegInv(w)'
    BY <2>2 DEF RegInv
  <2>7. QED BY <2>3, <2>4, <2>5, <2>6 DEF Kept, WorkerInv
<1>6. CASE ~UpdatesBranch(action[w])
  <2>1. AdjustNext(w)
    BY <1>6 DEF WriteAccount
  <2>2. /\ pc' \in [Worker -> Places] /\ i' \in [Worker -> Nat \ {0}]
        /\ \A x \in Worker \ {w} : pc'[x] = pc[x] /\ i'[x] = i[x]
        /\ pc'[w] \in {"read", "unlock"}
        /\ pc'[w] = "read" => action[w].cmd = "transfer"
        /\ PlaceInv(w)' /\ HoldInv(w)'
    BY <1>1, <1>3, <2>1, AdjustNextFacts
  <2>3. BankType' /\ Frame(w)
    BY <1>1, <1>3, <1>4, <2>2 DEF BankType, Frame
  <2>4. RegInv(w)'
    BY <1>3, <2>2 DEF RegInv
  <2>5. QED BY <2>2, <2>3, <2>4 DEF Kept, WorkerInv
<1>7. QED BY <1>5, <1>6

LEMMA WriteBranchStep ==
  ASSUME BankInv, NEW w \in Worker, WriteBranch(w)
  PROVE  Kept(w)
<1> DEFINE b == BranchOf(Adjusted(w).account)
<1>1. /\ BankType /\ PlaceInv(w) /\ HoldInv(w)
      /\ pc[w] = "branch_write" /\ pc[w] \in Working /\ pc[w] \in Adjusting
  BY DEF BankInv, WorkerInv, WriteBranch, Working, Adjusting
<1>2. b \in Branch /\ owner[BranchLock(b)] = w /\ reg[w] + Adjusted(w).change \in Int
  <2>1. UpdatesBranch(action[w]) /\ reg[w] \in Int
    BY <1>1 DEF BankType, PlaceInv
  <2>2. QED BY <1>1, <2>1, AdjustedHeld
<1>3. /\ UNCHANGED << balance, owner, action >>
      /\ branchBalance' = [branchBalance EXCEPT ![b] = reg[w] + Adjusted(w).change]
      /\ reg' = [reg EXCEPT ![w] = 0]
      /\ AdjustNext(w)
  BY DEF WriteBranch
<1>4. /\ branchBalance' \in [Branch -> Int] /\ reg' \in [Worker -> Int]
      /\ \A x \in Branch : owner[BranchLock(x)] # w => branchBalance'[x] = branchBalance[x]
      /\ \A x \in Worker \ {w} : reg'[x] = reg[x]
  BY <1>1, <1>2, <1>3 DEF BankType
<1>5. /\ pc' \in [Worker -> Places] /\ i' \in [Worker -> Nat \ {0}]
      /\ \A x \in Worker \ {w} : pc'[x] = pc[x] /\ i'[x] = i[x]
      /\ pc'[w] \in {"read", "unlock"}
      /\ pc'[w] = "read" => action[w].cmd = "transfer"
      /\ PlaceInv(w)' /\ HoldInv(w)'
  BY <1>1, <1>3, AdjustNextFacts
<1>6. BankType' /\ Frame(w)
  BY <1>1, <1>3, <1>4, <1>5 DEF BankType, Frame
<1>7. RegInv(w)'
  BY <1>3, <1>5 DEF RegInv
<1>8. QED BY <1>5, <1>6, <1>7 DEF Kept, WorkerInv

LEMMA SumBranchStep ==
  ASSUME BankInv, NEW w \in Worker, SumBranch(w)
  PROVE  Kept(w)
<1>1. /\ BankType /\ PlaceInv(w) /\ HoldInv(w) /\ WellFormed(action[w])
      /\ action[w].cmd = "balance" /\ pc[w] = "sum" /\ pc[w] \in Working
      /\ i[w] <= numberBranches /\ i[w] \in Nat \ {0} /\ numberBranches \in Nat
  BY BankAssumption DEF BankInv, WorkerInv, PlaceInv, SumBranch, Working, BankType
<1>2. reg[w] + branchBalance[i[w] - 1] \in Int
  <2>1. i[w] - 1 \in Branch
    BY <1>1 DEF Branch
  <2>2. reg[w] \in Int /\ branchBalance[i[w] - 1] \in Int
    BY <1>1, <2>1 DEF BankType
  <2>3. QED BY <2>2
<1>3. /\ UNCHANGED << balance, branchBalance, owner, action >>
      /\ \/ /\ i[w] < numberBranches
            /\ i' = [i EXCEPT ![w] = @ + 1] /\ UNCHANGED pc
            /\ reg' = [reg EXCEPT ![w] = reg[w] + branchBalance[i[w] - 1]]
         \/ /\ i' = [i EXCEPT ![w] = 1] /\ reg' = [reg EXCEPT ![w] = 0]
            /\ pc' = [pc EXCEPT ![w] = "unlock"]
  BY DEF SumBranch, Goto
<1>4. BankType' /\ Frame(w)
  BY <1>1, <1>2, <1>3 DEF BankType, Frame, Places
<1>5. /\ action'[w] = action[w]
      /\ \/ pc'[w] = "sum" /\ i'[w] = i[w] + 1 /\ i[w] < numberBranches
         \/ pc'[w] = "unlock" /\ i'[w] = 1
  BY <1>1, <1>3 DEF BankType
<1>6. PlaceInv(w)'
  BY <1>1, <1>5, UnlockOrderFacts DEF PlaceInv, Working, Adjusting
<1>7. HoldInv(w)'
  BY <1>1, <1>3, <1>5, WorkingHolds DEF Working
<1>8. RegInv(w)'
  BY <1>5 DEF RegInv
<1>9. QED BY <1>4, <1>6, <1>7, <1>8 DEF Kept, WorkerInv

LEMMA UnlockStep ==
  ASSUME BankInv, NEW w \in Worker, Unlock(w)
  PROVE  Kept(w)
<1> DEFINE u == UnlockOrder(action[w])
           l == u[i[w]]
<1>1. /\ BankType /\ PlaceInv(w) /\ WellFormed(action[w]) /\ pc[w] = "unlock"
      /\ i[w] \in Nat \ {0} /\ i[w] <= Len(u)
  BY DEF BankInv, WorkerInv, PlaceInv, Unlock, BankType
<1>2. /\ u \in Seq(Lock) /\ Len(u) \in Nat
      /\ \A j, k \in 1 .. Len(u) : u[j] = u[k] => j = k
  BY <1>1, UnlockOrderFacts
<1>3. \A k \in i[w] .. Len(u) : u[k] \in Lock /\ owner[u[k]] = w
  BY DEF BankInv, WorkerInv, HoldInv, Holding, Unlock, Working, Adjusting
<1>4. l \in Lock /\ owner[l] = w
  BY <1>1, <1>2, <1>3
<1>5. owner' = [owner EXCEPT ![l] = NULL] /\ UNCHANGED << balance, branchBalance, reg >>
  BY DEF Unlock
<1>6. CASE i[w] < Len(u)
  <2>1. i' = [i EXCEPT ![w] = @ + 1] /\ UNCHANGED << pc, action >>
    BY <1>6 DEF Unlock
  <2> HIDE DEF u, l
  <2>2. BankType' /\ Frame(w)
    BY <1>1, <1>4, <1>5, <2>1 DEF BankType, Frame
  <2>3. pc'[w] = "unlock" /\ i'[w] = i[w] + 1 /\ action'[w] = action[w]
    BY <1>1, <2>1 DEF BankType
  <2>4. PlaceInv(w)'
    BY <1>1, <1>2, <1>6, <2>3 DEF PlaceInv, Working, Adjusting, u
  <2>5. HoldInv(w)'
    <3>1. (Holding(w))' =
            {UnlockOrder(action'[w])[k] : k \in i'[w] .. Len(UnlockOrder(action'[w]))}
      BY <2>3 DEF Holding, Working, Adjusting
    <3>2. ASSUME NEW m \in (Holding(w))'
          PROVE  m \in Lock /\ owner'[m] = w
      <4>1. PICK k \in i'[w] .. Len(UnlockOrder(action'[w])) : m = UnlockOrder(action'[w])[k]
        BY <3>1
      <4>2. k \in i[w] .. Len(u) /\ k \in 1 .. Len(u) /\ k # i[w] /\ m = u[k]
        BY <4>1, <2>3, <1>1, <1>2 DEF u
      <4>3. m # l
        BY <4>2, <1>1, <1>2 DEF l
      <4>4. QED BY <4>2, <4>3, <1>1, <1>3, <1>4, <1>5 DEF BankType
    <3>3. QED BY <3>2 DEF HoldInv
  <2>6. RegInv(w)'
    BY <2>3 DEF RegInv
  <2>7. QED BY <2>2, <2>4, <2>5, <2>6 DEF Kept, WorkerInv
<1>7. CASE ~(i[w] < Len(u))
  <2>1. /\ i' = [i EXCEPT ![w] = 1] /\ pc' = [pc EXCEPT ![w] = "next"]
        /\ action' = [action EXCEPT ![w] = NoAction]
    BY <1>7 DEF Unlock, Goto
  <2> HIDE DEF u, l
  <2>2. BankType' /\ Frame(w)
    BY <1>1, <1>4, <1>5, <2>1, NoActionFacts DEF BankType, Frame, Places
  <2>3. pc'[w] = "next" /\ i'[w] = 1
    BY <1>1, <2>1 DEF BankType
  <2>4. WorkerInv(w)'
    BY <2>3 DEF WorkerInv, PlaceInv, HoldInv, Holding, RegInv, Working, Adjusting
  <2>5. QED BY <2>2, <2>4 DEF Kept
<1>8. QED BY <1>6, <1>7

-----------------------------------------------------------------------------
LEMMA BankInvInit == Init => BankInv
<1> SUFFICES ASSUME Init PROVE BankInv
  OBVIOUS
<1>1. InitialAmount \in Int /\ accountsPerBranch * InitialAmount \in Int /\ 1 \in Nat \ {0}
  BY BankAssumption
<1>2. BankType
  BY <1>1, NoActionFacts DEF Init, BankType, Places
<1>3. ASSUME NEW w \in Worker PROVE WorkerInv(w)
  BY DEF Init, WorkerInv, PlaceInv, HoldInv, Holding, RegInv, Working, Adjusting
<1>4. QED BY <1>2, <1>3 DEF BankInv

LEMMA StepKeeps ==
  ASSUME BankInv, NEW w \in Worker, Step(w)
  PROVE  Kept(w)
  BY GetNextStep, ExitStep, CheckLockStep, CheckStep, LockNextStep, FundsStep,
     ReadAccountStep, WriteAccountStep, ReadBranchStep, WriteBranchStep, SumBranchStep,
     UnlockStep DEF Step

LEMMA BankInvStep == BankInv /\ [Next]_vars => BankInv'
<1> SUFFICES ASSUME BankInv, [Next]_vars PROVE BankInv'
  OBVIOUS
<1>1. ASSUME NEW w \in Worker, Step(w) PROVE BankInv'
  <2>1. Kept(w)
    BY <1>1, StepKeeps
  <2>2. ASSUME NEW x \in Worker PROVE WorkerInv(x)'
    <3>1. CASE x = w
      BY <2>1, <3>1 DEF Kept
    <3>2. CASE x # w
      BY <2>1, <3>2, FrameLemma DEF Kept
    <3>3. QED BY <3>1, <3>2
  <2>3. QED BY <2>1, <2>2 DEF Kept, BankInv
<1>2. CASE UNCHANGED vars
  <2>1. UNCHANGED << balance, branchBalance, owner, pc, action, i, reg >>
    BY <1>2 DEF vars, locals
  <2>2. BankType'
    BY <2>1 DEF BankInv, BankType
  <2>3. ASSUME NEW x \in Worker PROVE WorkerInv(x)'
    <3>1. WorkerInv(x)
      BY DEF BankInv
    <3>2. PlaceInv(x)' /\ HoldInv(x)'
      BY <2>1, <3>1 DEF WorkerInv, PlaceInv, HoldInv, Holding
    <3>3. RegInv(x)'
      BY <2>1, <3>1 DEF WorkerInv, RegInv, Adjusted
    <3>4. QED BY <3>2, <3>3 DEF WorkerInv
  <2>4. QED BY <2>2, <2>3 DEF BankInv
<1>3. QED BY <1>1, <1>2 DEF Next, Joined

(* No account is paid from beyond its balance by a withdrawal, however     *)
(* many workers there are and whatever the others do meanwhile.            *)
THEOREM NoOverdraft == Spec => WithdrawalsCovered
<1>1. ASSUME BankInv, [Next]_vars
      PROVE  [\A w \in Worker :
                pc[w] = "write" /\ pc'[w] # "write" /\ action[w].cmd = "withdraw"
                  => balance'[action[w].dst] >= 0]_vars
  <2>1. ASSUME NEW w \in Worker, pc[w] = "write", pc'[w] # "write", action[w].cmd = "withdraw"
        PROVE  balance'[action[w].dst] >= 0
    <3>1. /\ BankType /\ PlaceInv(w) /\ HoldInv(w) /\ pc[w] \in Adjusting
          /\ reg[w] = balance[Adjusted(w).account]
          /\ action[w].amount <= balance[action[w].dst]
      BY <1>1, <2>1 DEF BankInv, WorkerInv, RegInv, Adjusting
    <3>2. i[w] \in Nat \ {0} /\ i[w] <= Len(Adjustments(action[w])) /\ WellFormed(action[w])
      BY <3>1, <2>1 DEF PlaceInv, BankType, Working, Adjusting
    <3>3. Adjusted(w) = [account |-> action[w].dst, change |-> - action[w].amount]
      BY <2>1, <3>2 DEF Adjusted, Adjustments
    <3>4. WriteAccount(w)
      <4>1. Step(w)
        <5>1. ASSUME NEW x \in Worker, Step(x), x # w PROVE FALSE
          BY <1>1, <5>1, <2>1, StepKeeps DEF Kept, Frame
        <5>2. QED BY <1>1, <2>1, <5>1 DEF Next, Joined, vars, locals
      <4>2. QED BY <4>1, <2>1 DEF Step, GetNext, Exit, CheckLock, Check, LockNext, Funds,
                   ReadAccount, ReadBranch, WriteBranch, SumBranch, Unlock
    <3>5. balance' = [balance EXCEPT ![action[w].dst] = reg[w] + (- action[w].amount)]
      BY <3>3, <3>4 DEF WriteAccount
    <3>6. /\ action[w].dst \in Account /\ action[w].amount \in Nat
          /\ balance[action[w].dst] \in Int /\ reg[w] = balance[action[w].dst]
      BY <3>1, <3>2, <3>3 DEF WellFormed, Action, BankType
    <3>7. balance'[action[w].dst] = balance[action[w].dst] + (- action[w].amount)
      BY <3>1, <3>5, <3>6 DEF BankType
    <3>8. QED BY <3>1, <3>6, <3>7
  <2>2. QED BY <2>1
<1>2. QED BY <1>1, BankInvInit, BankInvStep, PTL DEF Spec, WithdrawalsCovered

(* No change of a balance is lost: what is written is what the balance is  *)
(* at that moment, and the change.                                         *)
NothingLost ==
  [][\A w \in Worker :
       LET a == Adjusted(w).account
           change == Adjusted(w).change
       IN /\ pc[w] = "write" /\ pc'[w] # "write" => balance'[a] = balance[a] + change
          /\ pc[w] = "branch_write" /\ pc'[w] # "branch_write" =>
               branchBalance'[BranchOf(a)] = branchBalance[BranchOf(a)] + change]_vars

(* Deposits, withdrawals and transfers add up, however they meet.          *)
THEOREM AdjustmentsAddUp == Spec => NothingLost
<1>1. ASSUME BankInv, [Next]_vars
      PROVE  [\A w \in Worker :
                LET a == Adjusted(w).account
                    change == Adjusted(w).change
                IN /\ pc[w] = "write" /\ pc'[w] # "write" => balance'[a] = balance[a] + change
                   /\ pc[w] = "branch_write" /\ pc'[w] # "branch_write" =>
                        branchBalance'[BranchOf(a)] = branchBalance[BranchOf(a)] + change]_vars
  <2> SUFFICES ASSUME NEW w \in Worker, pc[w] \in {"write", "branch_write"}, pc'[w] # pc[w]
               PROVE  LET a == Adjusted(w).account
                          change == Adjusted(w).change
                      IN /\ pc[w] = "write" => balance'[a] = balance[a] + change
                         /\ pc[w] = "branch_write" =>
                              branchBalance'[BranchOf(a)] = branchBalance[BranchOf(a)] + change
    OBVIOUS
  <2>1. BankType /\ PlaceInv(w) /\ HoldInv(w) /\ RegInv(w) /\ pc[w] \in Adjusting
    BY <1>1 DEF BankInv, WorkerInv, Adjusting
  <2>2. Adjusted(w).account \in Account /\ BranchOf(Adjusted(w).account) \in Branch
    BY <2>1, AdjustedHeld
  <2>3. Step(w)
    <3>1. ASSUME NEW x \in Worker, Step(x), x # w PROVE FALSE
      BY <1>1, <3>1, StepKeeps DEF Kept, Frame
    <3>2. QED BY <1>1, <3>1 DEF Next, Joined, vars, locals
  <2>4. CASE pc[w] = "write"
    <3>1. WriteAccount(w)
      BY <2>3, <2>4 DEF Step, GetNext, Exit, CheckLock, Check, LockNext, Funds,
         ReadAccount, ReadBranch, WriteBranch, SumBranch, Unlock
    <3>2. QED BY <2>1, <2>2, <2>4, <3>1 DEF WriteAccount, RegInv, BankType
  <2>5. CASE pc[w] = "branch_write"
    <3>1. WriteBranch(w)
      BY <2>3, <2>5 DEF Step, GetNext, Exit, CheckLock, Check, LockNext, Funds,
         ReadAccount, ReadBranch, WriteAccount, SumBranch, Unlock
    <3>2. QED BY <2>1, <2>2, <2>5, <3>1 DEF WriteBranch, RegInv, BankType
  <2>6. QED BY <2>4, <2>5
<1>2. QED BY <1>1, BankInvInit, BankInvStep, PTL DEF Spec, NothingLost

-----------------------------------------------------------------------------
(* A mutex is given back: what a worker owns is what it holds by its       *)
(* place, so it owns nothing when it has no command.                       *)
Owned(w) == \A l \in Lock : owner[l] = w => l \in Holding(w)

OwnedInv == \A w \in Worker : Owned(w)

(* What a step does to the mutexes that others have.                       *)
OwnerMoves(w) == \A l \in Lock : owner[l] \in {w, NULL} => owner'[l] \in {w, NULL}

LEMMA OwnerStep ==
  ASSUME BankInv, NEW w \in Worker, Step(w)
  PROVE  OwnerMoves(w)
<1>1. owner \in [Lock -> Worker \cup {NULL}]
  BY DEF BankInv, BankType
<1>2. \/ owner' = owner
      \/ \E l : owner' = [owner EXCEPT ![l] = w]
      \/ \E l : owner' = [owner EXCEPT ![l] = NULL]
  BY DEF Step, GetNext, Exit, CheckLock, Check, LockNext, Funds, ReadAccount, ReadBranch,
         WriteAccount, WriteBranch, SumBranch, Unlock, Acquire
<1>3. QED BY <1>1, <1>2 DEF OwnerMoves

LEMMA OwnedElsewhere ==
  ASSUME BankInv, NEW w \in Worker, Frame(w), OwnerMoves(w),
         NEW x \in Worker, x # w, Owned(x)
  PROVE  Owned(x)'
<1>1. (Holding(x))' = Holding(x)
  BY DEF Frame, Holding
<1>2. ASSUME NEW l \in Lock, owner'[l] = x PROVE owner[l] = x
  <2>1. x \notin {w, NULL}
    BY BankAssumption
  <2>2. QED BY <1>2, <2>1 DEF OwnerMoves, Frame
<1>3. QED BY <1>1, <1>2 DEF Owned

(* A worker at work goes on holding all mutexes of its command, up to the  *)
(* moment it gives them back.                                              *)
LEMMA WorkingOwned ==
  ASSUME BankInv, NEW w \in Worker, Kept(w), Owned(w), pc[w] \in Working,
         UNCHANGED << owner, action >>,
         pc'[w] \in Working \/ (pc'[w] = "unlock" /\ i'[w] = 1)
  PROVE  Owned(w)'
<1>1. WellFormed(action[w]) /\ Holding(w) = Elements(LockOrder(action[w]))
  BY DEF BankInv, WorkerInv, PlaceInv, Holding, Working, Adjusting
<1>2. CASE pc'[w] \in Working
  <2>1. (Holding(w))' = Elements(LockOrder(action[w]))
    BY <1>2 DEF Holding, Working, Adjusting
  <2>2. QED BY <1>1, <2>1 DEF Owned
<1>3. CASE pc'[w] = "unlock" /\ i'[w] = 1
  <2>1. (Holding(w))' = Elements(UnlockOrder(action[w]))
    BY <1>3 DEF Holding, Working, Adjusting, Elements
  <2>2. QED BY <1>1, <2>1, UnlockOrderFacts DEF Owned
<1>4. QED BY <1>2, <1>3

LEMMA WorkOwned ==
  ASSUME BankInv, NEW w \in Worker, Kept(w), Owned(w),
         \/ Funds(w) \/ ReadAccount(w) \/ WriteAccount(w) \/ ReadBranch(w) \/ WriteBranch(w)
         \/ SumBranch(w)
  PROVE  Owned(w)'
<1>1. pc \in [Worker -> Places] /\ i \in [Worker -> Nat \ {0}]
  BY DEF BankInv, BankType
<1>2. pc[w] \in Working /\ UNCHANGED << owner, action >>
  BY DEF Funds, ReadAccount, WriteAccount, ReadBranch, WriteBranch, SumBranch, Working, Adjusting
<1>3. AdjustNext(w) => pc'[w] = "read" \/ (pc'[w] = "unlock" /\ i'[w] = 1)
  BY <1>1 DEF AdjustNext, Goto
<1>4. i[w] = 1 \/ pc[w] # "funds"
  BY DEF BankInv, WorkerInv, PlaceInv
<1>5. pc'[w] \in Working \/ (pc'[w] = "unlock" /\ i'[w] = 1)
  BY <1>1, <1>3, <1>4 DEF Funds, ReadAccount, WriteAccount, ReadBranch, WriteBranch, SumBranch,
     Goto, Working, Adjusting
<1>6. QED BY <1>2, <1>5, WorkingOwned

LEMMA TakeOwned ==
  ASSUME BankInv, NEW w \in Worker, Kept(w), Owned(w), CheckLock(w) \/ LockNext(w)
  PROVE  Owned(w)'
<1>1. /\ owner \in [Lock -> Worker \cup {NULL}] /\ pc \in [Worker -> Places]
      /\ i \in [Worker -> Nat \ {0}] /\ action' = action
  BY DEF BankInv, BankType, CheckLock, LockNext
<1>2. CASE CheckLock(w)
  <2> DEFINE l == AccountLock(action[w].src)
  <2>1. Holding(w) = {} /\ owner' = [owner EXCEPT ![l] = w] /\ pc'[w] = "check"
    BY <1>1, <1>2 DEF CheckLock, Acquire, Goto, Holding, Working, Adjusting
  <2>2. (Holding(w))' = {l}
    BY <1>1, <2>1 DEF Holding, Working, Adjusting
  <2>3. QED BY <1>1, <2>1, <2>2 DEF Owned
<1>3. CASE LockNext(w)
  <2> DEFINE o == LockOrder(action[w])
  <2>1. /\ WellFormed(action[w]) /\ i[w] <= Len(o) /\ pc[w] = "lock"
        /\ Holding(w) = {o[k] : k \in 1 .. (i[w] - 1)}
    BY <1>3 DEF BankInv, WorkerInv, PlaceInv, LockNext, Holding, Working, Adjusting
  <2>2. Len(o) \in Nat /\ i[w] \in 1 .. Len(o)
    BY <1>1, <2>1, LockOrderFacts
  <2>3. owner' = [owner EXCEPT ![o[i[w]]] = w]
    BY <1>3 DEF LockNext, Acquire
  <2> DEFINE H == {o[k] : k \in 1 .. i[w]}
  <2>4. \A l \in Lock : owner'[l] = w => l \in H
    <3>1. \A l \in Holding(w) : l \in H
      BY <2>1, <2>2
    <3>2. o[i[w]] \in H
      BY <2>2
    <3>3. QED BY <1>1, <2>3, <3>1, <3>2 DEF Owned
  <2>5. (Holding(w))' = H
    <3>1. CASE i[w] < Len(o)
      <4>1. pc'[w] = "lock" /\ i'[w] - 1 = i[w]
        BY <1>1, <1>3, <2>1, <3>1 DEF LockNext
      <4>2. (Holding(w))' = {LockOrder(action'[w])[k] : k \in 1 .. (i'[w] - 1)}
        BY <4>1 DEF Holding, Working, Adjusting
      <4>3. QED BY <1>1, <4>1, <4>2
    <3>2. CASE ~(i[w] < Len(o))
      <4>1. pc'[w] \in Working /\ i[w] = Len(o)
        BY <1>1, <1>3, <2>2, <3>2 DEF LockNext, Goto, Working, Adjusting
      <4>2. (Holding(w))' = Elements(LockOrder(action'[w]))
        BY <4>1 DEF Holding, Working, Adjusting
      <4>3. QED BY <1>1, <4>1, <4>2 DEF Elements
    <3>3. QED BY <3>1, <3>2
  <2>6. QED BY <2>4, <2>5 DEF Owned
<1>4. QED BY <1>2, <1>3

LEMMA GiveOwned ==
  ASSUME BankInv, NEW w \in Worker, Kept(w), Owned(w), Check(w) \/ Unlock(w)
  PROVE  Owned(w)'
<1>1. /\ owner \in [Lock -> Worker \cup {NULL}] /\ pc \in [Worker -> Places]
      /\ i \in [Worker -> Nat \ {0}] /\ action \in [Worker -> Action]
  BY DEF BankInv, BankType
<1>2. CASE Check(w)
  <2> DEFINE l == AccountLock(action[w].src)
  <2>1. Holding(w) = {l} /\ owner' = [owner EXCEPT ![l] = NULL]
    BY <1>1, <1>2 DEF Check, Holding, Working, Adjusting
  <2>2. QED BY <1>1, <2>1, BankAssumption DEF Owned
<1>3. CASE Unlock(w)
  <2> DEFINE u == UnlockOrder(action[w])
  <2>1. /\ WellFormed(action[w]) /\ i[w] <= Len(u) /\ pc[w] = "unlock"
        /\ Holding(w) = {u[k] : k \in i[w] .. Len(u)}
    BY <1>3 DEF BankInv, WorkerInv, PlaceInv, Unlock, Holding, Working, Adjusting
  <2>2. Len(u) \in Nat /\ i[w] \in Nat \ {0}
    BY <1>1, <2>1, UnlockOrderFacts
  <2>3. owner' = [owner EXCEPT ![u[i[w]]] = NULL]
    BY <1>3 DEF Unlock
  <2> DEFINE H == {u[k] : k \in (i[w] + 1) .. Len(u)}
  <2>4. \A l \in Lock : owner'[l] = w => l \in H
    <3>1. \A l \in Lock : owner'[l] = w => owner[l] = w /\ l # u[i[w]]
      BY <1>1, <2>3, BankAssumption
    <3>2. ASSUME NEW k \in i[w] .. Len(u), k # i[w] PROVE u[k] \in H
      BY <2>2, <3>2
    <3>3. QED BY <2>1, <3>1, <3>2 DEF Owned
  <2>5. CASE i[w] < Len(u)
    <3>1. pc'[w] = "unlock" /\ i'[w] = i[w] + 1 /\ action'[w] = action[w]
      BY <1>1, <1>3, <2>1, <2>5 DEF Unlock
    <3>2. (Holding(w))' = {UnlockOrder(action'[w])[k] : k \in i'[w] .. Len(UnlockOrder(action'[w]))}
      BY <3>1 DEF Holding, Working, Adjusting
    <3>3. QED BY <2>4, <3>1, <3>2 DEF Owned
  <2>6. CASE ~(i[w] < Len(u))
    <3>1. H = {}
      BY <2>2, <2>6
    <3>2. QED BY <2>4, <3>1 DEF Owned
  <2>7. QED BY <2>5, <2>6
<1>4. QED BY <1>2, <1>3

LEMMA OwnedStep ==
  ASSUME BankInv, NEW w \in Worker, Owned(w), Step(w)
  PROVE  Owned(w)'
<1>1. Kept(w)
  BY StepKeeps
<1>2. CASE GetNext(w) \/ Exit(w)
  <2>1. Holding(w) = {} /\ owner' = owner
    BY <1>2 DEF GetNext, Exit, Holding, Working, Adjusting
  <2>2. QED BY <2>1 DEF Owned
<1>3. QED BY <1>1, <1>2, WorkOwned, TakeOwned, GiveOwned DEF Step

LEMMA OwnedInvInit == Init => OwnedInv
<1> SUFFICES ASSUME Init, NEW w \in Worker, NEW l \in Lock PROVE owner[l] # w
  BY DEF OwnedInv, Owned
<1>1. QED BY BankAssumption DEF Init

LEMMA OwnedInvStep == BankInv /\ OwnedInv /\ [Next]_vars => OwnedInv'
<1> SUFFICES ASSUME BankInv, OwnedInv, [Next]_vars, NEW x \in Worker PROVE Owned(x)'
  BY DEF OwnedInv
<1>1. Owned(x)
  BY DEF OwnedInv
<1>2. ASSUME NEW w \in Worker, Step(w) PROVE Owned(x)'
  <2>1. Frame(w) /\ OwnerMoves(w)
    BY <1>2, StepKeeps, OwnerStep DEF Kept
  <2>2. QED BY <1>1, <1>2, <2>1, OwnedStep, OwnedElsewhere
<1>3. CASE UNCHANGED vars
  BY <1>1, <1>3 DEF Owned, Holding, vars, locals
<1>4. QED BY <1>2, <1>3 DEF Next, Joined

-----------------------------------------------------------------------------
(* Of any mutexes one comes last in the order.                             *)
LEMMA LastLock ==
  ASSUME NEW W \in SUBSET Lock, W # {}
  PROVE  \E l \in W : \A m \in W : ~Before(l, m)
<1>1. numberBranches \in Nat /\ \A b \in Branch : b \in Nat /\ numberBranches - b \in Nat
  BY BankAssumption DEF Branch
<1>2. \A a \in Account : BranchOf(a) \in Branch /\ a[2] \in Nat
  BY BankAssumption DEF Account, BranchOf
<1>3. CASE bank_bal \in W
  BY <1>3, LockFacts DEF Before
<1> DEFINE A == {a \in Account : AccountLock(a) \in W}
<1>4. CASE bank_bal \notin W /\ A # {}
  <2> DEFINE T == {numberBranches - BranchOf(a) : a \in A}
  <2>1. T \in SUBSET Nat /\ T # {}
    BY <1>1, <1>2, <1>4
  <2> HIDE DEF T
  <2>2. PICK n \in T : \A m \in T : n <= m
    BY <2>1, LeastNumber
  <2>3. PICK c \in A : n = numberBranches - BranchOf(c)
    BY <2>2 DEF T
  <2>4. ASSUME NEW a \in A PROVE BranchOf(a) <= BranchOf(c)
    <3>1. numberBranches - BranchOf(c) <= numberBranches - BranchOf(a)
      BY <2>2, <2>3 DEF T
    <3>2. numberBranches \in Nat /\ BranchOf(a) \in Nat /\ BranchOf(c) \in Nat
      BY <1>1, <1>2
    <3>3. QED BY <3>1, <3>2
  <2> DEFINE U == {a[2] : a \in {x \in A : BranchOf(x) = BranchOf(c)}}
  <2>5. U \in SUBSET Nat /\ U # {}
    BY <1>2
  <2> HIDE DEF U
  <2>6. PICK k \in U : \A m \in U : k <= m
    BY <2>5, LeastNumber
  <2>7. PICK d \in A : BranchOf(d) = BranchOf(c) /\ d[2] = k
    BY <2>6 DEF U
  <2>8. ASSUME NEW a \in A
        PROVE  ~(BranchOf(d) < BranchOf(a)) /\ ~(BranchOf(d) = BranchOf(a) /\ d[2] > a[2])
    <3>1. BranchOf(a) <= BranchOf(d) /\ BranchOf(a) \in Nat /\ BranchOf(d) \in Nat
      BY <2>4, <2>7, <1>1, <1>2
    <3>2. BranchOf(d) = BranchOf(a) => d[2] <= a[2]
      BY <2>6, <2>7 DEF U
    <3>3. a[2] \in Nat /\ d[2] \in Nat
      BY <1>2
    <3>4. QED BY <3>1, <3>2, <3>3
  <2>9. ASSUME NEW m \in W, Before(AccountLock(d), m) PROVE FALSE
    <3>1. PICK a \in Account : /\ m = AccountLock(a)
                               /\ BranchOf(d) < BranchOf(a) \/ (BranchOf(d) = BranchOf(a) /\ d[2] > a[2])
      BY <1>4, <2>9, LockFacts DEF Before
    <3>2. a \in A
      BY <3>1, <2>9
    <3>3. QED BY <2>8, <3>1, <3>2
  <2>10. QED BY <2>9
<1>5. CASE bank_bal \notin W /\ A = {}
  <2> DEFINE T == {b \in Branch : BranchLock(b) \in W}
  <2>1. \A m \in W : \E b \in T : m = BranchLock(b)
    BY <1>5 DEF Lock
  <2>2. T \in SUBSET Nat /\ T # {}
    BY <1>1, <2>1
  <2>3. \A b \in T : b \in Branch /\ BranchLock(b) \in W
    OBVIOUS
  <2> HIDE DEF T
  <2>4. PICK n \in T : \A m \in T : n <= m
    BY <2>2, LeastNumber
  <2>5. ASSUME NEW m \in W, Before(BranchLock(n), m) PROVE FALSE
    <3>1. PICK b \in T : m = BranchLock(b)
      BY <2>1
    <3>2. n > b
      BY <2>5, <3>1, LockFacts DEF Before
    <3>3. n <= b /\ n \in Nat /\ b \in Nat
      BY <2>2, <2>4
    <3>4. QED BY <3>2, <3>3
  <2>6. QED BY <2>3, <2>5
<1>6. QED BY <1>3, <1>4, <1>5

(* What a worker waits for comes after all it holds.                       *)
LEMMA WaitsInOrder ==
  ASSUME BankInv, NEW w \in Worker, NEW l \in Wanted(w)
  PROVE  l \in Lock /\ Wanted(w) = {l} /\ \A m \in Holding(w) : Before(m, l)
<1>1. CASE pc[w] = "lock"
  <2> DEFINE o == LockOrder(action[w])
  <2>1. /\ WellFormed(action[w]) /\ i[w] \in Nat \ {0} /\ i[w] <= Len(o)
    BY <1>1 DEF BankInv, WorkerInv, PlaceInv, BankType
  <2>2. o \in Seq(Lock) /\ Len(o) \in Nat /\ \A j, k \in 1 .. Len(o) : j < k => Before(o[j], o[k])
    BY <2>1, LockOrderFacts
  <2>3. Holding(w) = {o[k] : k \in 1 .. (i[w] - 1)}
    BY <1>1 DEF Holding, Working, Adjusting
  <2>4. Wanted(w) = {o[i[w]]} /\ l = o[i[w]]
    BY <1>1 DEF Wanted
  <2> HIDE DEF o
  <2>5. i[w] \in 1 .. Len(o) /\ o[i[w]] \in Lock
    BY <2>1, <2>2
  <2>6. ASSUME NEW k \in 1 .. (i[w] - 1) PROVE Before(o[k], o[i[w]])
    <3>1. k \in 1 .. Len(o) /\ k < i[w]
      BY <2>1, <2>2
    <3>2. QED BY <3>1, <2>2, <2>5
  <2>7. QED BY <2>3, <2>4, <2>5, <2>6
<1>2. CASE pc[w] = "check_lock"
  <2>1. Holding(w) = {} /\ Wanted(w) = {AccountLock(action[w].src)}
    BY <1>2 DEF Holding, Wanted, Working, Adjusting
  <2>2. AccountLock(action[w].src) \in Lock
    BY LockFacts DEF BankInv, BankType, Action
  <2>3. QED BY <2>1, <2>2
<1>3. QED BY <1>1, <1>2 DEF Wanted

(* In no set of workers does everyone wait for a mutex that another of     *)
(* them has or that nobody will give back: of the mutexes they want, the   *)
(* one that comes last in the order is held by none of them, as its holder *)
(* would want a later one.                                                 *)
THEOREM NoCircle == Spec => []NoCircleOfWaiters
<1>1. BankInv /\ OwnedInv => NoCircleOfWaiters
  <2> SUFFICES ASSUME BankInv, OwnedInv, NEW C \in SUBSET Worker, C # {},
                      \A w \in C : Wanted(w) # {}
               PROVE  \E w \in C : \A l \in Wanted(w) :
                        owner[l] # NULL =>
                          owner[l] \notin C /\ pc[owner[l]] \notin {"next", "exit"}
    BY DEF NoCircleOfWaiters
  <2> DEFINE W == UNION {Wanted(w) : w \in C}
  <2>1. W \in SUBSET Lock /\ W # {}
    BY WaitsInOrder
  <2>2. PICK l \in W : \A m \in W : ~Before(l, m)
    BY <2>1, LastLock
  <2>3. PICK w \in C : l \in Wanted(w)
    OBVIOUS
  <2>4. Wanted(w) = {l} /\ l \in Lock
    BY <2>3, WaitsInOrder
  <2>5. ASSUME owner[l] # NULL
        PROVE  owner[l] \notin C /\ pc[owner[l]] \notin {"next", "exit"}
    <3>1. PICK x \in Worker : x = owner[l]
      BY <2>4, <2>5 DEF BankInv, BankType
    <3>2. l \in Holding(x)
      BY <2>4, <3>1 DEF OwnedInv, Owned
    <3>3. pc[x] \notin {"next", "exit"}
      BY <3>2 DEF Holding, Working, Adjusting
    <3>4. ASSUME x \in C PROVE FALSE
      <4>1. PICK m \in Wanted(x) : TRUE
        BY <3>4
      <4>2. m \in W
        BY <3>4, <4>1
      <4>3. Before(l, m)
        BY <3>2, WaitsInOrder
      <4>4. QED BY <2>2, <4>2, <4>3
    <3>5. QED BY <3>1, <3>3, <3>4
  <2>6. QED BY <2>4, <2>5
<1>2. QED BY <1>1, BankInvInit, BankInvStep, OwnedInvInit, OwnedInvStep, PTL DEF Spec

-----------------------------------------------------------------------------
(* The sums.  What is missing from an account while an operation is half   *)
(* done is known from the place of the worker that has its mutex: a branch *)
(* that is yet to follow its account, or the second account of a transfer  *)
(* inside a branch.                                                        *)
Pending(w, a) ==
  CASE pc[w] \in {"branch_read", "branch_write"} /\ a = Adjusted(w).account ->
         - Adjusted(w).change
    [] /\ pc[w] \in {"read", "write"} /\ i[w] = 2
       /\ ~UpdatesBranch(action[w]) /\ a = action[w].dst -> action[w].amount
    [] OTHER -> 0

Settled ==
  [a \in Account |->
     balance[a] + IF owner[AccountLock(a)] = NULL THEN 0
                  ELSE Pending(owner[AccountLock(a)], a)]

BranchSums ==
  \A b \in Branch : branchBalance[b] = SumFunctionOnSet(Settled, AccountsOf(b))

(* The amount a transfer has taken from one branch and not yet given to    *)
(* the other; its worker has bank_bal.                                     *)
InTransit(w) ==
  IF pc[w] \in Adjusting /\ action[w].cmd = "transfer" /\ UpdatesBranch(action[w]) /\ i[w] = 2
  THEN action[w].amount ELSE 0

Total == numberBranches * accountsPerBranch * InitialAmount

BankSum ==
  noFundsFlow =>
    SumFunctionOnSet(branchBalance, Branch)
      + (IF owner[bank_bal] = NULL THEN 0 ELSE InTransit(owner[bank_bal])) = Total

NoFunds ==
  noFundsFlow =>
    \A w \in Worker : action[w].cmd \in {"deposit", "withdraw"} => action[w].amount = 0

(* What a worker that adds up the branches has so far.                     *)
Running(w) ==
  /\ pc[w] \notin {"write", "branch_write", "sum"} => reg[w] = 0
  /\ pc[w] = "sum" /\ noFundsFlow => reg[w] = SumFunctionOnSet(branchBalance, 0 .. i[w] - 2)

SumInv ==
  /\ BranchSums /\ BankSum /\ NoFunds
  /\ \A w \in Worker : Running(w)
  /\ BankBalanceExact

-----------------------------------------------------------------------------
LEMMA BankIsFinite ==
  /\ IsFiniteSet(Branch) /\ Cardinality(Branch) = numberBranches
  /\ \A b \in Branch : /\ IsFiniteSet(AccountsOf(b)) /\ AccountsOf(b) \subseteq Account
                       /\ Cardinality(AccountsOf(b)) = accountsPerBranch
<1> DEFINE Places0 == 0 .. accountsPerBranch - 1
<1>1. /\ IsFiniteSet(Branch) /\ Cardinality(Branch) = numberBranches
      /\ IsFiniteSet(Places0) /\ Cardinality(Places0) = accountsPerBranch
  BY FS_Interval, BankAssumption DEF Branch
<1> HIDE DEF Places0
<1>2. ASSUME NEW b \in Branch
      PROVE  /\ IsFiniteSet(AccountsOf(b)) /\ AccountsOf(b) \subseteq Account
             /\ Cardinality(AccountsOf(b)) = accountsPerBranch
  <2>1. AccountsOf(b) = {b} \X Places0
    BY DEF AccountsOf, Account, BranchOf, Places0
  <2>2. IsFiniteSet({b}) /\ Cardinality({b}) = 1
    BY FS_Singleton
  <2>3. IsFiniteSet({b} \X Places0) /\ Cardinality({b} \X Places0) = 1 * Cardinality(Places0)
    BY <1>1, <2>2, FS_Product
  <2>4. 1 * Cardinality(Places0) = accountsPerBranch
    BY <1>1, BankAssumption
  <2>5. QED BY <2>1, <2>3, <2>4 DEF AccountsOf
<1>3. QED BY <1>1, <1>2

(* The adjustments one by one.                                             *)
LEMMA AdjustedCases ==
  ASSUME BankType, NEW w \in Worker, PlaceInv(w), pc[w] \in Adjusting
  PROVE  /\ action[w].src \in Account /\ action[w].dst \in Account /\ action[w].amount \in Nat
         /\ \/ /\ action[w].cmd \in {"deposit", "withdraw"} /\ UpdatesBranch(action[w]) /\ i[w] = 1
               /\ Adjusted(w).account = action[w].dst
               /\ Adjusted(w).change \in {action[w].amount, - action[w].amount}
               /\ Len(Adjustments(action[w])) = 1
            \/ /\ action[w].cmd = "transfer" /\ i[w] = 1
               /\ Adjusted(w).account = action[w].src /\ Adjusted(w).change = - action[w].amount
               /\ Len(Adjustments(action[w])) = 2 /\ action[w].src # action[w].dst
            \/ /\ action[w].cmd = "transfer" /\ i[w] = 2
               /\ Adjusted(w).account = action[w].dst /\ Adjusted(w).change = action[w].amount
               /\ Len(Adjustments(action[w])) = 2 /\ action[w].src # action[w].dst
<1>1. /\ WellFormed(action[w]) /\ action[w].cmd # "balance" /\ action[w] \in Action
      /\ i[w] \in Nat \ {0} /\ i[w] <= Len(Adjustments(action[w]))
  BY DEF PlaceInv, Working, BankType, WellFormed
<1>2. /\ action[w].cmd \in {"deposit", "withdraw", "transfer"}
      /\ action[w].src \in Account /\ action[w].dst \in Account /\ action[w].amount \in Nat
      /\ action[w].cmd = "transfer" => action[w].src # action[w].dst
  BY <1>1 DEF WellFormed, Action
<1>3. CASE action[w].cmd \in {"deposit", "withdraw"}
  <2>1. /\ Len(Adjustments(action[w])) = 1
        /\ Adjustments(action[w])[1].account = action[w].dst
        /\ Adjustments(action[w])[1].change \in {action[w].amount, - action[w].amount}
    BY <1>3 DEF Adjustments
  <2>2. i[w] = 1
    BY <1>1, <2>1
  <2>3. QED BY <1>2, <1>3, <2>1, <2>2 DEF Adjusted, UpdatesBranch
<1>4. CASE action[w].cmd = "transfer"
  <2>1. /\ Len(Adjustments(action[w])) = 2
        /\ Adjustments(action[w])[1] = [account |-> action[w].src, change |-> - action[w].amount]
        /\ Adjustments(action[w])[2] = [account |-> action[w].dst, change |-> action[w].amount]
    BY <1>4 DEF Adjustments
  <2>2. i[w] \in {1, 2}
    BY <1>1, <2>1
  <2>3. QED BY <1>2, <1>4, <2>1, <2>2 DEF Adjusted
<1>5. QED BY <1>2, <1>3, <1>4

(* A transfer at work and a worker that adds up the branches have bank_bal. *)
LEMMA HasBankLock ==
  ASSUME BankType, NEW w \in Worker, PlaceInv(w), HoldInv(w), pc[w] \in Working,
         action[w].cmd \in {"transfer", "balance"}
  PROVE  owner[bank_bal] = w
<1>1. WellFormed(action[w]) /\ Holding(w) = Elements(LockOrder(action[w]))
  BY DEF PlaceInv, Holding, Working, Adjusting
<1>2. bank_bal \in Elements(LockOrder(action[w]))
  <2> DEFINE o == LockOrder(action[w])
  <2>1. CASE action[w].cmd = "balance"
    <3>1. Len(o) = 1 /\ o[1] = bank_bal
      BY <1>1, <2>1, BalanceOrders
    <3>2. QED BY <3>1 DEF Elements
  <2>2. CASE action[w].cmd = "transfer"
    <3>1. PICK x, y \in {action[w].src, action[w].dst} :
            x # y /\ (Across(action[w], x, y) \/ Inside(action[w], x, y))
      BY <1>1, <2>2, TransferOrders
    <3>2. (Len(o) = 5 /\ o[5] = bank_bal) \/ (Len(o) = 3 /\ o[3] = bank_bal)
      BY <3>1 DEF Across, Inside
    <3> HIDE DEF o
    <3>3. QED BY <3>2 DEF Elements, o
  <2>3. QED BY <2>1, <2>2
<1>3. QED BY <1>1, <1>2 DEF HoldInv

LEMMA PendingFacts ==
  ASSUME BankInv
  PROVE  /\ \A w \in Worker : \A a \in Account : Pending(w, a) \in Int
         /\ \A w \in Worker : \A a \in Account : pc[w] \notin Adjusting => Pending(w, a) = 0
         /\ \A a \in Account : Settled[a] \in Int
<1>1. ASSUME NEW w \in Worker, NEW a \in Account PROVE Pending(w, a) \in Int
  <2>1. BankType /\ PlaceInv(w)
    BY DEF BankInv, WorkerInv
  <2>2. CASE pc[w] \notin Adjusting
    BY <2>2 DEF Pending, Adjusting
  <2>3. CASE pc[w] \in Adjusting
    <3>1. action[w].amount \in Int /\ - Adjusted(w).change \in Int
      BY <2>1, <2>3, AdjustedCases
    <3>2. QED BY <3>1 DEF Pending
  <2>4. QED BY <2>2, <2>3
<1>2. \A w \in Worker : \A a \in Account : pc[w] \notin Adjusting => Pending(w, a) = 0
  BY DEF Pending, Adjusting
<1>3. ASSUME NEW a \in Account PROVE Settled[a] \in Int
  <2>1. balance[a] \in Int /\ owner[AccountLock(a)] \in Worker \cup {NULL}
    BY LockFacts DEF BankInv, BankType
  <2>2. QED BY <1>1, <2>1 DEF Settled
<1>4. QED BY <1>1, <1>2, <1>3

(* What a step does to the settled balances.                               *)
LEMMA SettledOwned ==
  ASSUME BankInv, NEW w \in Worker, owner' = owner,
         NEW a \in Account, owner[AccountLock(a)] = w
  PROVE  Settled[a] = balance[a] + Pending(w, a) /\ Settled'[a] = balance'[a] + Pending(w, a)'
  BY BankAssumption DEF Settled

LEMMA SettledElsewhere ==
  ASSUME BankInv, NEW w \in Worker, Frame(w), owner' = owner,
         NEW a \in Account, owner[AccountLock(a)] # w
  PROVE  Settled'[a] = Settled[a]
<1>1. balance'[a] = balance[a] /\ owner[AccountLock(a)] \in Worker \cup {NULL}
  BY LockFacts DEF Frame, BankInv, BankType
<1>2. ASSUME NEW x \in Worker, x # w PROVE Pending(x, a)' = Pending(x, a)
  BY <1>2 DEF Frame, Pending, Adjusted
<1>3. CASE owner[AccountLock(a)] = NULL
  BY <1>1, <1>3 DEF Settled
<1>4. CASE owner[AccountLock(a)] # NULL
  <2>1. PICK x \in Worker : x = owner[AccountLock(a)] /\ x # w /\ x # NULL
    BY <1>1, <1>4
  <2>2. Settled[a] = balance[a] + Pending(x, a)
    BY <2>1 DEF Settled
  <2>3. Settled'[a] = balance'[a] + Pending(x, a)'
    BY <2>1 DEF Settled
  <2>4. QED BY <1>1, <1>2, <2>1, <2>2, <2>3
<1>5. QED BY <1>3, <1>4

LEMMA SettledFree ==
  ASSUME BankInv, NEW w \in Worker, Frame(w), OwnerMoves(w), balance' = balance,
         NEW a \in Account, Pending(w, a) = 0, Pending(w, a)' = 0
  PROVE  Settled'[a] = Settled[a]
<1> DEFINE l == AccountLock(a)
<1>1. l \in Lock /\ owner[l] \in Worker \cup {NULL}
  BY LockFacts DEF BankInv, BankType
<1>2. ASSUME NEW x \in Worker, x # w PROVE Pending(x, a)' = Pending(x, a)
  BY <1>2 DEF Frame, Pending, Adjusted
<1>3. CASE owner[l] \in {w, NULL}
  <2>1. owner'[l] \in {w, NULL}
    BY <1>1, <1>3 DEF OwnerMoves
  <2>2. Settled[a] = balance[a] + 0
    BY <1>3 DEF Settled
  <2>3. Settled'[a] = balance'[a] + 0
    BY <2>1 DEF Settled
  <2>4. QED BY <2>2, <2>3
<1>4. CASE owner[l] \notin {w, NULL}
  <2>1. PICK x \in Worker : x = owner[l] /\ x # w /\ x # NULL /\ owner'[l] = x
    BY <1>1, <1>4 DEF Frame
  <2>2. Settled[a] = balance[a] + Pending(x, a)
    BY <2>1 DEF Settled
  <2>3. Settled'[a] = balance'[a] + Pending(x, a)'
    BY <2>1 DEF Settled
  <2>4. QED BY <1>2, <2>1, <2>2, <2>3
<1>5. QED BY <1>3, <1>4

LEMMA BranchSumsKept ==
  ASSUME BankInv, BranchSums, branchBalance' = branchBalance,
         \A a \in Account : Settled'[a] = Settled[a]
  PROVE  BranchSums'
<1>1. ASSUME NEW b \in Branch
      PROVE  branchBalance'[b] = SumFunctionOnSet(Settled', AccountsOf(b))
  <2>1. IsFiniteSet(AccountsOf(b)) /\ AccountsOf(b) \subseteq Account
    BY BankIsFinite
  <2>2. \A a \in AccountsOf(b) : Settled[a] \in Int /\ Settled'[a] = Settled[a]
    BY <2>1, PendingFacts
  <2>3. SumFunctionOnSet(Settled', AccountsOf(b)) = SumFunctionOnSet(Settled, AccountsOf(b))
    BY <2>1, <2>2, SumAgrees
  <2>4. QED BY <2>3 DEF BranchSums
<1>2. QED BY <1>1 DEF BranchSums

(* A step that changes no balance and leaves no transfer half done.        *)
Still(w) ==
  /\ balance' = balance /\ branchBalance' = branchBalance
  /\ \/ /\ owner' = owner
        /\ \A a \in Account : Pending(w, a)' = Pending(w, a)
        /\ InTransit(w)' = InTransit(w)
     \/ /\ \A a \in Account : Pending(w, a) = 0 /\ Pending(w, a)' = 0
        /\ InTransit(w) = 0 /\ InTransit(w)' = 0

LEMMA TransitElsewhere ==
  ASSUME NEW w \in Worker, Frame(w)
  PROVE  \A x \in Worker \ {w} : InTransit(x)' = InTransit(x)
  BY DEF Frame, InTransit

LEMMA StillSums ==
  ASSUME BankInv, NEW w \in Worker, Frame(w), OwnerMoves(w), Still(w), noFundsFlow' = noFundsFlow,
         BranchSums, BankSum
  PROVE  BranchSums' /\ BankSum'
<1>1. branchBalance' = branchBalance
  BY DEF Still
<1>2. ASSUME NEW a \in Account PROVE Settled'[a] = Settled[a]
  <2>1. CASE owner' = owner /\ Pending(w, a)' = Pending(w, a)
    <3>1. CASE owner[AccountLock(a)] = w
      BY <2>1, <3>1, SettledOwned DEF Still
    <3>2. CASE owner[AccountLock(a)] # w
      BY <2>1, <3>2, SettledElsewhere
    <3>3. QED BY <3>1, <3>2
  <2>2. CASE Pending(w, a) = 0 /\ Pending(w, a)' = 0
    BY <2>2, SettledFree DEF Still
  <2>3. QED BY <2>1, <2>2 DEF Still
<1>3. BranchSums'
  BY <1>1, <1>2, BranchSumsKept
<1>4. bank_bal \in Lock /\ owner[bank_bal] \in Worker \cup {NULL}
  BY LockFacts DEF BankInv, BankType
<1>5. (IF owner'[bank_bal] = NULL THEN 0 ELSE InTransit(owner[bank_bal])')
        = IF owner[bank_bal] = NULL THEN 0 ELSE InTransit(owner[bank_bal])
  <2>1. CASE owner[bank_bal] \in {w, NULL}
    <3>1. owner'[bank_bal] \in {w, NULL}
      BY <1>4, <2>1 DEF OwnerMoves
    <3>2. CASE owner' = owner /\ InTransit(w)' = InTransit(w)
      BY <2>1, <3>2
    <3>3. CASE InTransit(w) = 0 /\ InTransit(w)' = 0
      <4>1. PICK o \in {w, NULL}, q \in {w, NULL} : o = owner[bank_bal] /\ q = owner'[bank_bal]
        BY <2>1, <3>1
      <4>2. (IF q = NULL THEN 0 ELSE InTransit(q)') = 0
        BY <3>3, <4>1
      <4>3. QED BY <3>3, <4>1, <4>2
    <3>4. QED BY <3>2, <3>3 DEF Still
  <2>2. CASE owner[bank_bal] \notin {w, NULL}
    <3>1. PICK x \in Worker \ {w} : x = owner[bank_bal] /\ x # NULL /\ owner'[bank_bal] = x
      BY <1>4, <2>2 DEF Frame
    <3>2. InTransit(x)' = InTransit(x)
      BY TransitElsewhere
    <3>3. QED BY <3>1, <3>2
  <2>3. QED BY <2>1, <2>2
<1>6. BankSum'
  BY <1>1, <1>5 DEF BankSum
<1>7. QED BY <1>3, <1>6

LEMMA StillSteps ==
  ASSUME BankInv, NEW w \in Worker,
         \/ GetNext(w) \/ Exit(w) \/ CheckLock(w) \/ Check(w) \/ LockNext(w) \/ Funds(w)
         \/ ReadAccount(w) \/ ReadBranch(w) \/ SumBranch(w) \/ Unlock(w)
  PROVE  Still(w)
<1>1. /\ pc \in [Worker -> Places] /\ i \in [Worker -> Nat \ {0}] /\ PlaceInv(w)
      /\ action \in [Worker -> Action]
  BY DEF BankInv, BankType, WorkerInv
<1>2. CASE ReadAccount(w)
  <2>1. /\ owner' = owner /\ balance' = balance /\ branchBalance' = branchBalance
        /\ action' = action /\ i' = i /\ pc[w] = "read" /\ pc'[w] = "write"
    BY <1>1, <1>2 DEF ReadAccount, Goto
  <2>2. ASSUME NEW a \in Account PROVE Pending(w, a)' = Pending(w, a)
    BY <2>1 DEF Pending
  <2>3. InTransit(w)' = InTransit(w)
    BY <2>1 DEF InTransit, Adjusting
  <2>4. QED BY <2>1, <2>2, <2>3 DEF Still
<1>3. CASE ReadBranch(w)
  <2>1. /\ owner' = owner /\ balance' = balance /\ branchBalance' = branchBalance
        /\ action' = action /\ i' = i /\ pc[w] = "branch_read" /\ pc'[w] = "branch_write"
    BY <1>1, <1>3 DEF ReadBranch, Goto
  <2>2. ASSUME NEW a \in Account PROVE Pending(w, a)' = Pending(w, a)
    BY <2>1 DEF Pending, Adjusted
  <2>3. InTransit(w)' = InTransit(w)
    BY <2>1 DEF InTransit, Adjusting
  <2>4. QED BY <2>1, <2>2, <2>3 DEF Still
<1>4. CASE ~(ReadAccount(w) \/ ReadBranch(w))
  <2>1. /\ balance' = balance /\ branchBalance' = branchBalance
        /\ pc[w] \in {"next", "check_lock", "check", "lock", "funds", "sum", "unlock"}
    BY <1>4 DEF GetNext, Exit, CheckLock, Check, LockNext, Funds, SumBranch, Unlock
  <2>2. \/ pc'[w] \in {"next", "check_lock", "check", "lock", "funds", "sum", "unlock", "exit"}
        \/ pc'[w] = "read" /\ i'[w] = 1
    <3>1. CASE GetNext(w) \/ Exit(w) \/ CheckLock(w) \/ Check(w)
      BY <1>1, <3>1 DEF GetNext, Exit, CheckLock, Check, Goto
    <3>2. CASE LockNext(w)
      <4>1. \/ pc' = pc /\ pc[w] = "lock"
            \/ /\ i' = [i EXCEPT ![w] = 1]
               /\ \E l \in {"funds", "sum", "read"} : pc' = [pc EXCEPT ![w] = l]
        BY <3>2 DEF LockNext, Goto
      <4>2. QED BY <1>1, <4>1
    <3>3. CASE Funds(w)
      <4>1. /\ i' = i /\ i[w] = 1
            /\ \E l \in {"unlock", "read"} : pc' = [pc EXCEPT ![w] = l]
        BY <1>1, <3>3 DEF Funds, Goto, PlaceInv
      <4>2. QED BY <1>1, <4>1
    <3>4. CASE SumBranch(w)
      BY <1>1, <3>4 DEF SumBranch, Goto
    <3>5. CASE Unlock(w)
      BY <1>1, <3>5 DEF Unlock, Goto
    <3>6. QED BY <1>4, <3>1, <3>2, <3>3, <3>4, <3>5
  <2>3. ASSUME NEW a \in Account PROVE Pending(w, a) = 0 /\ Pending(w, a)' = 0
    BY <2>1, <2>2 DEF Pending
  <2>4. InTransit(w) = 0 /\ InTransit(w)' = 0
    BY <2>1, <2>2 DEF InTransit, Adjusting
  <2>5. QED BY <2>1, <2>3, <2>4 DEF Still
<1>5. QED BY <1>2, <1>3, <1>4

(* The accounts of a transfer are both locked while it is at work.         *)
LEMMA TransferHolds ==
  ASSUME BankType, NEW w \in Worker, PlaceInv(w), HoldInv(w), pc[w] \in Adjusting,
         action[w].cmd = "transfer"
  PROVE  owner[AccountLock(action[w].src)] = w /\ owner[AccountLock(action[w].dst)] = w
<1>1. WellFormed(action[w]) /\ Holding(w) = Elements(LockOrder(action[w]))
  BY DEF PlaceInv, Holding, Working, Adjusting
<1>2. /\ Len(Adjustments(action[w])) = 2
      /\ Adjustments(action[w])[1].account = action[w].src
      /\ Adjustments(action[w])[2].account = action[w].dst
  BY DEF Adjustments
<1>3. 1 \in 1 .. Len(Adjustments(action[w])) /\ 2 \in 1 .. Len(Adjustments(action[w]))
  BY <1>2
<1>4. /\ AccountLock(action[w].src) \in Elements(LockOrder(action[w]))
      /\ AccountLock(action[w].dst) \in Elements(LockOrder(action[w]))
  BY <1>1, <1>2, <1>3, AdjustmentFacts
<1>5. QED BY <1>1, <1>4 DEF HoldInv

(* A step that writes an account.                                          *)
LEMMA WriteSums ==
  ASSUME BankInv, NEW w \in Worker, Frame(w), WriteAccount(w), BranchSums, BankSum
  PROVE  BranchSums' /\ BankSum'
<1> DEFINE act == action[w]
           a0 == Adjusted(w).account
           d == Adjusted(w).change
<1>1. /\ BankType /\ PlaceInv(w) /\ HoldInv(w) /\ pc[w] = "write" /\ pc[w] \in Adjusting
      /\ reg[w] = balance[a0]
  BY DEF BankInv, WorkerInv, RegInv, WriteAccount, Adjusting
<1>2. /\ owner' = owner /\ branchBalance' = branchBalance /\ action' = action
      /\ noFundsFlow' = noFundsFlow /\ balance' = [balance EXCEPT ![a0] = reg[w] + d]
  BY DEF WriteAccount
<1>3. /\ a0 \in Account /\ d \in Int /\ owner[AccountLock(a0)] = w
      /\ balance[a0] \in Int /\ balance'[a0] = balance[a0] + d
      /\ \A a \in Account \ {a0} : balance'[a] = balance[a]
  BY <1>1, <1>2, AdjustedHeld DEF BankType
<1>4. \/ UpdatesBranch(act) /\ pc'[w] = "branch_read" /\ i'[w] = i[w]
      \/ /\ ~UpdatesBranch(act) /\ i[w] = 1 /\ pc'[w] = "read" /\ i'[w] = 2
      \/ /\ ~UpdatesBranch(act) /\ i[w] = 2 /\ pc'[w] = "unlock" /\ i'[w] = 1
  <2>1. CASE UpdatesBranch(act)
    BY <1>1, <2>1 DEF WriteAccount, Goto, BankType
  <2>2. CASE ~UpdatesBranch(act)
    <3>1. /\ i[w] \in {1, 2} /\ Len(Adjustments(act)) = 2
      BY <1>1, <2>2, AdjustedCases
    <3>2. AdjustNext(w)
      BY <2>2 DEF WriteAccount
    <3>3. QED BY <1>1, <2>2, <3>1, <3>2 DEF AdjustNext, Goto, BankType
  <2>3. QED BY <2>1, <2>2
<1>5. InTransit(w)' = InTransit(w)
  BY <1>1, <1>2, <1>4 DEF InTransit, Adjusting
<1>6. BankSum'
  <2>1. owner[bank_bal] \in Worker \cup {NULL}
    BY <1>1, LockFacts DEF BankType
  <2>2. ASSUME NEW x \in Worker PROVE InTransit(x)' = InTransit(x)
    BY <1>5, TransitElsewhere
  <2>3. QED BY <1>2, <2>1, <2>2 DEF BankSum
<1>7. CASE ~(~UpdatesBranch(act) /\ i[w] = 1)
  <2>1. ASSUME NEW a \in Account PROVE Settled'[a] = Settled[a]
    <3>1. CASE a = a0
      <4>1. balance'[a] + Pending(w, a)' = balance[a] + Pending(w, a)
        <5>1. CASE UpdatesBranch(act)
          <6>1. Adjusted(w)' = Adjusted(w) /\ pc'[w] = "branch_read"
            BY <1>2, <1>4, <5>1 DEF Adjusted
          <6>2. Pending(w, a) = 0 /\ Pending(w, a)' = - d
            BY <1>1, <3>1, <5>1, <6>1 DEF Pending
          <6>3. QED BY <1>3, <3>1, <6>2
        <5>2. CASE ~UpdatesBranch(act)
          <6>1. i[w] = 2 /\ pc'[w] = "unlock"
            BY <1>4, <1>7, <5>2
          <6>2. a0 = act.dst /\ d = act.amount /\ act.amount \in Nat
            BY <1>1, <6>1, AdjustedCases
          <6>3. Pending(w, a) = d /\ Pending(w, a)' = 0
            BY <1>1, <3>1, <5>2, <6>1, <6>2 DEF Pending
          <6>4. QED BY <1>3, <3>1, <6>3
        <5>3. QED BY <5>1, <5>2
      <4>2. QED BY <4>1, <3>1, <1>2, <1>3, SettledOwned
    <3>2. CASE a # a0
      <4>1. Pending(w, a) = 0 /\ Pending(w, a)' = 0
        <5>1. CASE UpdatesBranch(act)
          <6>1. Adjusted(w)' = Adjusted(w) /\ pc'[w] = "branch_read"
            BY <1>2, <1>4, <5>1 DEF Adjusted
          <6>2. QED BY <1>1, <3>2, <5>1, <6>1 DEF Pending
        <5>2. CASE ~UpdatesBranch(act)
          <6>1. i[w] = 2 /\ pc'[w] = "unlock"
            BY <1>4, <1>7, <5>2
          <6>2. a0 = act.dst
            BY <1>1, <6>1, AdjustedCases
          <6>3. QED BY <1>1, <3>2, <5>2, <6>1, <6>2 DEF Pending
        <5>3. QED BY <5>1, <5>2
      <4>2. CASE owner[AccountLock(a)] = w
        BY <4>1, <4>2, <3>2, <1>2, <1>3, SettledOwned
      <4>3. CASE owner[AccountLock(a)] # w
        BY <4>3, <1>2, SettledElsewhere
      <4>4. QED BY <4>2, <4>3
    <3>3. QED BY <3>1, <3>2
  <2>2. QED BY <1>2, <1>6, <2>1, BranchSumsKept
<1>8. CASE ~UpdatesBranch(act) /\ i[w] = 1
  <2> DEFINE c == act.dst
             n == act.amount
  <2>1. /\ act.cmd = "transfer" /\ a0 = act.src /\ d = - n /\ c # a0
        /\ c \in Account /\ n \in Int /\ BranchOf(c) = BranchOf(a0)
        /\ pc'[w] = "read" /\ i'[w] = 2
    BY <1>1, <1>4, <1>8, AdjustedCases DEF UpdatesBranch
  <2>2. owner[AccountLock(c)] = w
    BY <1>1, <2>1, TransferHolds
  <2>3. \A a \in Account : Pending(w, a) = 0
    BY <1>1, <1>8 DEF Pending
  <2>4. \A a \in Account : Pending(w, a)' = IF a = c THEN n ELSE 0
    BY <1>2, <1>8, <2>1 DEF Pending
  <2>5. ASSUME NEW a \in Account
        PROVE  Settled'[a] = CASE a = a0 -> Settled[a] + d
                               [] a = c -> Settled[a] + n
                               [] OTHER -> Settled[a]
    <3>1. CASE a = a0
      <4>1. Settled[a] = balance[a] + 0 /\ Settled'[a] = balance'[a] + 0
        BY <1>2, <1>3, <2>1, <2>3, <2>4, <3>1, SettledOwned
      <4>2. Settled'[a] = Settled[a] + d
        BY <4>1, <3>1, <1>3
      <4>3. QED BY <2>1, <4>2, <3>1
    <3>2. CASE a = c
      <4>1. Settled[a] = balance[a] + 0 /\ Settled'[a] = balance'[a] + n
        BY <1>2, <2>2, <2>3, <2>4, <3>2, SettledOwned
      <4>2. balance[a] \in Int /\ balance'[a] = balance[a] /\ a # a0
        BY <1>1, <1>3, <2>1, <3>2 DEF BankType
      <4>3. QED BY <4>1, <4>2, <3>2
    <3>3. CASE a # a0 /\ a # c /\ owner[AccountLock(a)] = w
      <4>1. Settled[a] = balance[a] + 0 /\ Settled'[a] = balance'[a] + 0
        BY <1>2, <2>3, <2>4, <3>3, SettledOwned
      <4>2. QED BY <4>1, <3>3, <1>3
    <3>4. CASE a # a0 /\ a # c /\ owner[AccountLock(a)] # w
      BY <1>2, <3>4, SettledElsewhere
    <3>5. QED BY <3>1, <3>2, <3>3, <3>4
  <2> HIDE DEF a0, d, c, n, act
  <2>6. ASSUME NEW b \in Branch
        PROVE  branchBalance'[b] = SumFunctionOnSet(Settled', AccountsOf(b))
    <3>1. /\ IsFiniteSet(AccountsOf(b)) /\ AccountsOf(b) \subseteq Account
          /\ branchBalance'[b] = SumFunctionOnSet(Settled, AccountsOf(b))
          /\ \A a \in AccountsOf(b) : Settled[a] \in Int
      BY <1>2, BankIsFinite, PendingFacts DEF BranchSums
    <3>2. CASE b # BranchOf(a0)
      <4>1. \A a \in AccountsOf(b) : Settled'[a] = Settled[a]
        BY <2>1, <2>5, <3>1, <3>2 DEF AccountsOf
      <4>2. QED BY <3>1, <4>1, SumAgrees
    <3>3. CASE b = BranchOf(a0)
      <4>1. a0 \in AccountsOf(b) /\ c \in AccountsOf(b)
        BY <1>3, <2>1, <3>3 DEF AccountsOf
      <4>2. PICK h : h = [a \in AccountsOf(b) |-> IF a = a0 THEN Settled[a] + d ELSE Settled[a]]
        OBVIOUS
      <4>3. /\ h[a0] = Settled[a0] + d /\ \A a \in AccountsOf(b) \ {a0} : h[a] = Settled[a]
            /\ \A a \in AccountsOf(b) : h[a] \in Int
        BY <1>3, <3>1, <4>1, <4>2
      <4>4. SumFunctionOnSet(h, AccountsOf(b)) = SumFunctionOnSet(Settled, AccountsOf(b)) + d
        BY <1>3, <3>1, <4>1, <4>3, SumChanges
      <4>5. Settled'[c] = h[c] + n /\ \A a \in AccountsOf(b) \ {c} : Settled'[a] = h[a]
        BY <2>1, <2>5, <3>1, <4>1, <4>2
      <4>6. SumFunctionOnSet(Settled', AccountsOf(b)) = SumFunctionOnSet(h, AccountsOf(b)) + n
        BY <2>1, <3>1, <4>1, <4>3, <4>5, SumChanges
      <4>7. SumFunctionOnSet(Settled, AccountsOf(b)) \in Int
        BY <3>1, SumFacts
      <4>8. QED BY <2>1, <3>1, <4>4, <4>6, <4>7
    <3>4. QED BY <3>2, <3>3
  <2>7. QED BY <1>6, <2>6 DEF BranchSums
<1>9. QED BY <1>7, <1>8

(* A step that writes a branch.                                            *)
LEMMA WriteBranchSums ==
  ASSUME BankInv, NEW w \in Worker, Frame(w), WriteBranch(w), BranchSums, BankSum, NoFunds
  PROVE  /\ BranchSums' /\ BankSum'
         /\ noFundsFlow /\ action[w].cmd # "transfer" => branchBalance' = branchBalance
<1> DEFINE act == action[w]
           a0 == Adjusted(w).account
           d == Adjusted(w).change
           b0 == BranchOf(a0)
<1>1. /\ BankType /\ PlaceInv(w) /\ HoldInv(w) /\ pc[w] = "branch_write" /\ pc[w] \in Adjusting
      /\ reg[w] = branchBalance[b0] /\ UpdatesBranch(act)
  BY DEF BankInv, WorkerInv, PlaceInv, RegInv, WriteBranch, Adjusting
<1>2. /\ owner' = owner /\ balance' = balance /\ action' = action
      /\ noFundsFlow' = noFundsFlow /\ branchBalance' = [branchBalance EXCEPT ![b0] = reg[w] + d]
  BY DEF WriteBranch
<1>3. /\ a0 \in Account /\ b0 \in Branch /\ d \in Int /\ owner[AccountLock(a0)] = w
      /\ branchBalance \in [Branch -> Int] /\ branchBalance'[b0] = branchBalance[b0] + d
      /\ \A b \in Branch \ {b0} : branchBalance'[b] = branchBalance[b]
      /\ branchBalance' \in [Branch -> Int]
  BY <1>1, <1>2, AdjustedHeld DEF BankType
<1>4. \/ act.cmd \in {"deposit", "withdraw"} /\ d \in {act.amount, - act.amount} /\ pc'[w] = "unlock"
      \/ act.cmd = "transfer" /\ i[w] = 1 /\ d = - act.amount /\ pc'[w] = "read" /\ i'[w] = 2
      \/ act.cmd = "transfer" /\ i[w] = 2 /\ d = act.amount /\ pc'[w] = "unlock"
  <2>1. AdjustNext(w)
    BY DEF WriteBranch
  <2>2. CASE act.cmd \in {"deposit", "withdraw"}
    <3>1. d \in {act.amount, - act.amount} /\ i[w] = 1 /\ Len(Adjustments(act)) = 1
      BY <1>1, <2>2, AdjustedCases
    <3>2. QED BY <1>1, <2>1, <2>2, <3>1 DEF AdjustNext, Goto, BankType
  <2>3. CASE act.cmd \notin {"deposit", "withdraw"}
    <3>1. /\ act.cmd = "transfer" /\ Len(Adjustments(act)) = 2
          /\ \/ i[w] = 1 /\ d = - act.amount
             \/ i[w] = 2 /\ d = act.amount
      BY <1>1, <2>3, AdjustedCases
    <3>2. QED BY <1>1, <2>1, <3>1 DEF AdjustNext, Goto, BankType
  <2>4. QED BY <2>2, <2>3
<1>5. act.amount \in Nat
  BY <1>1, AdjustedCases
<1>6. ASSUME NEW a \in Account
      PROVE  Settled'[a] = IF a = a0 THEN Settled[a] + d ELSE Settled[a]
  <2>1. /\ Pending(w, a) = (IF a = a0 THEN - d ELSE 0)
        /\ Pending(w, a)' = 0
    BY <1>1, <1>2, <1>4 DEF Pending
  <2>2. balance[a] \in Int
    BY <1>1 DEF BankType
  <2>3. CASE a = a0
    <3>1. Settled[a] = balance[a] + (- d) /\ Settled'[a] = balance[a] + 0
      BY <1>2, <1>3, <2>1, <2>3, SettledOwned
    <3>2. QED BY <1>3, <2>2, <2>3, <3>1
  <2>4. CASE a # a0 /\ owner[AccountLock(a)] = w
    BY <1>2, <2>1, <2>4, SettledOwned
  <2>5. CASE a # a0 /\ owner[AccountLock(a)] # w
    BY <1>2, <2>5, SettledElsewhere
  <2>6. QED BY <2>3, <2>4, <2>5
<1> HIDE DEF a0, d, b0
<1>7. ASSUME NEW b \in Branch
      PROVE  branchBalance'[b] = SumFunctionOnSet(Settled', AccountsOf(b))
  <2>1. /\ IsFiniteSet(AccountsOf(b)) /\ AccountsOf(b) \subseteq Account
        /\ branchBalance[b] = SumFunctionOnSet(Settled, AccountsOf(b))
        /\ \A a \in AccountsOf(b) : Settled[a] \in Int
    BY BankIsFinite, PendingFacts DEF BranchSums
  <2>2. CASE b # b0
    <3>1. \A a \in AccountsOf(b) : Settled'[a] = Settled[a]
      BY <1>6, <2>1, <2>2 DEF AccountsOf, b0
    <3>2. QED BY <1>3, <2>1, <2>2, <3>1, SumAgrees
  <2>3. CASE b = b0
    <3>1. a0 \in AccountsOf(b)
      BY <1>3, <2>3 DEF AccountsOf, b0
    <3>2. /\ Settled'[a0] = Settled[a0] + d
          /\ \A a \in AccountsOf(b) \ {a0} : Settled'[a] = Settled[a]
      BY <1>3, <1>6, <2>1
    <3>3. SumFunctionOnSet(Settled', AccountsOf(b)) = SumFunctionOnSet(Settled, AccountsOf(b)) + d
      BY <1>3, <2>1, <3>1, <3>2, SumChanges
    <3>4. QED BY <1>3, <2>1, <2>3, <3>3
  <2>4. QED BY <2>2, <2>3
<1>8. /\ SumFunctionOnSet(branchBalance', Branch) = SumFunctionOnSet(branchBalance, Branch) + d
      /\ SumFunctionOnSet(branchBalance, Branch) \in Int
  <2>1. IsFiniteSet(Branch) /\ \A b \in Branch : branchBalance[b] \in Int
    BY <1>3, BankIsFinite
  <2>2. QED BY <1>3, <2>1, SumChanges, SumFacts
<1>9. noFundsFlow /\ act.cmd # "transfer" => d = 0
  BY <1>4, <1>5 DEF NoFunds
<1>10. noFundsFlow /\ act.cmd # "transfer" => branchBalance' = branchBalance
  <2>1. SUFFICES ASSUME noFundsFlow, act.cmd # "transfer" PROVE branchBalance' = branchBalance
    OBVIOUS
  <2>2. \A b \in Branch : branchBalance'[b] = branchBalance[b]
    BY <1>3, <1>9, <2>1
  <2>3. QED BY <1>3, <2>2
<1>11. BankSum'
  <2>1. SUFFICES ASSUME noFundsFlow
                 PROVE  SumFunctionOnSet(branchBalance', Branch)
                          + (IF owner[bank_bal] = NULL THEN 0 ELSE InTransit(owner[bank_bal])') = Total
    BY <1>2 DEF BankSum, Total
  <2>2. SumFunctionOnSet(branchBalance, Branch)
          + (IF owner[bank_bal] = NULL THEN 0 ELSE InTransit(owner[bank_bal])) = Total
    BY <2>1 DEF BankSum
  <2>3. owner[bank_bal] \in Worker \cup {NULL}
    BY <1>1, LockFacts DEF BankType
  <2>4. CASE act.cmd # "transfer"
    <3>1. InTransit(w) = 0 /\ InTransit(w)' = 0
      BY <1>2, <2>4 DEF InTransit
    <3>2. ASSUME NEW x \in Worker PROVE InTransit(x)' = InTransit(x)
      BY <3>1, TransitElsewhere
    <3>3. branchBalance' = branchBalance
      BY <1>10, <2>1, <2>4
    <3>4. (IF owner[bank_bal] = NULL THEN 0 ELSE InTransit(owner[bank_bal])')
            = IF owner[bank_bal] = NULL THEN 0 ELSE InTransit(owner[bank_bal])
      BY <1>2, <2>3, <3>2
    <3>5. QED BY <2>2, <3>3, <3>4
  <2>5. CASE act.cmd = "transfer"
    <3>1. owner[bank_bal] = w /\ w # NULL
      BY <1>1, <2>5, HasBankLock, BankAssumption DEF Working
    <3>2. InTransit(w)' = InTransit(w) - d /\ InTransit(w) \in Int
      <4>1. InTransit(w) = IF i[w] = 2 THEN act.amount ELSE 0
        BY <1>1, <2>5 DEF InTransit
      <4>2. InTransit(w)' = IF pc'[w] = "read" /\ i'[w] = 2 THEN act.amount ELSE 0
        <5>1. pc'[w] \in {"read", "unlock"}
          BY <1>4
        <5>2. QED BY <1>1, <1>2, <2>5, <5>1 DEF InTransit, Adjusting
      <4>3. QED BY <1>4, <1>5, <2>5, <4>1, <4>2
    <3>3. SumFunctionOnSet(branchBalance, Branch) + InTransit(w) = Total
      BY <2>2, <3>1
    <3>4. PICK s, t \in Int : /\ s = SumFunctionOnSet(branchBalance, Branch) /\ t = InTransit(w)
      BY <1>8, <3>2
    <3>5. (s + d) + (t - d) = s + t
      BY <1>3, <3>4
    <3>6. SumFunctionOnSet(branchBalance', Branch) + InTransit(w)' = Total
      BY <1>8, <3>2, <3>3, <3>4, <3>5
    <3>7. QED BY <1>2, <3>1, <3>6
  <2>6. QED BY <2>4, <2>5
<1>12. BranchSums'
  BY <1>7 DEF BranchSums
<1>13. QED BY <1>10, <1>11, <1>12

LEMMA NoFundsStep ==
  ASSUME BankInv, NEW w \in Worker, Step(w), NoFunds
  PROVE  NoFunds'
<1>1. action \in [Worker -> Action] /\ noFundsFlow' = noFundsFlow
  BY DEF BankInv, BankType, Step, GetNext, Exit, CheckLock, Check, LockNext, Funds, ReadAccount,
         WriteAccount, ReadBranch, WriteBranch, SumBranch, Unlock
<1>2. CASE GetNext(w)
  <2>1. PICK act \in Commands : action' = [action EXCEPT ![w] = act]
    BY <1>2 DEF GetNext
  <2>2. noFundsFlow /\ act.cmd \in {"deposit", "withdraw"} => act.amount = 0
    <3>1. CASE act \in [cmd : {"deposit", "withdraw"}, src : {<< 0, 0 >>}, dst : Account,
                        amount : IF noFundsFlow THEN {0} ELSE Amounts]
      BY <3>1
    <3>2. CASE act \in [cmd : {"transfer"}, src : Account, dst : Account, amount : Amounts]
      BY <3>2
    <3>3. CASE act = [NoAction EXCEPT !.cmd = "balance"]
      BY <3>3 DEF NoAction
    <3>4. QED BY <3>1, <3>2, <3>3 DEF Commands
  <2>3. QED BY <1>1, <2>1, <2>2 DEF NoFunds
<1>3. CASE action' = action
  BY <1>1, <1>3 DEF NoFunds
<1>4. CASE action' = [action EXCEPT ![w] = NoAction]
  <2>1. NoAction.cmd = "none"
    BY DEF NoAction
  <2>2. QED BY <1>1, <1>4, <2>1 DEF NoFunds
<1>5. QED
  BY <1>2, <1>3, <1>4 DEF Step, Exit, CheckLock, Check, LockNext, Funds, ReadAccount, WriteAccount,
     ReadBranch, WriteBranch, SumBranch, Unlock

(* The branches added up so far, and one more.                             *)
LEMMA NextBranch ==
  ASSUME BankType, NEW k \in 1 .. numberBranches
  PROVE  /\ SumFunctionOnSet(branchBalance, 0 .. k - 1)
              = SumFunctionOnSet(branchBalance, 0 .. k - 2) + branchBalance[k - 1]
         /\ SumFunctionOnSet(branchBalance, 0 .. k - 2) \in Int
<1>1. /\ IsFiniteSet(Branch) /\ \A b \in Branch : branchBalance[b] \in Int
  BY BankIsFinite DEF BankType
<1>2. /\ 0 .. k - 1 \in SUBSET Branch /\ 0 .. k - 2 \in SUBSET Branch
      /\ k - 1 \in 0 .. k - 1 /\ (0 .. k - 1) \ {k - 1} = 0 .. k - 2 /\ k - 1 \in Branch
  BY BankAssumption DEF Branch
<1>3. PICK U \in SUBSET Branch, V \in SUBSET Branch, x \in Branch : x \in U /\
        U = 0 .. k - 1 /\ V = 0 .. k - 2 /\ x = k - 1 /\ U \ {x} = V
  BY <1>2
<1>4. /\ \A T \in SUBSET Branch : SumFunctionOnSet(branchBalance, T) \in Int
      /\ \A T \in SUBSET Branch : \A y \in T :
           SumFunctionOnSet(branchBalance, T) = branchBalance[y] + SumFunctionOnSet(branchBalance, T \ {y})
  <2>1. /\ IsFiniteSet(Branch)
        /\ \A y \in Branch : branchBalance[y] \in Int
    BY <1>1
  <2>2. QED BY <2>1, SumFacts
<1>5. SumFunctionOnSet(branchBalance, U) = branchBalance[x] + SumFunctionOnSet(branchBalance, V)
  BY <1>3, <1>4
<1>6. /\ SumFunctionOnSet(branchBalance, U) = SumFunctionOnSet(branchBalance, V) + branchBalance[x]
      /\ SumFunctionOnSet(branchBalance, V) \in Int
  BY <1>1, <1>4, <1>5
<1>7. QED BY <1>3, <1>6

LEMMA NoBranches ==
  ASSUME BankType
  PROVE  SumFunctionOnSet(branchBalance', {}) = 0 /\ SumFunctionOnSet(branchBalance, {}) = 0
<1>1. IsFiniteSet({})
  BY FS_EmptySet
<1>2. QED BY <1>1, SumFacts

(* Bank_Balance comes to the amount the bank opened with.                  *)
LEMMA SumStep ==
  ASSUME BankInv, NEW w \in Worker, SumBranch(w), Running(w), BankSum, BankBalanceExact
  PROVE  BankBalanceExact' /\ Running(w)'
<1> DEFINE S(k) == SumFunctionOnSet(branchBalance, 0 .. k - 2)
           k0 == i[w]
           t == reg[w] + branchBalance[k0 - 1]
<1>1. /\ BankType /\ PlaceInv(w) /\ HoldInv(w) /\ pc[w] = "sum" /\ action[w].cmd = "balance"
      /\ k0 \in 1 .. numberBranches /\ numberBranches \in Nat
  <2>1. /\ BankType /\ PlaceInv(w) /\ HoldInv(w) /\ pc[w] = "sum" /\ action[w].cmd = "balance"
        /\ k0 \in Nat \ {0} /\ k0 <= numberBranches /\ numberBranches \in Nat
    BY BankAssumption DEF BankInv, WorkerInv, PlaceInv, SumBranch, BankType
  <2>2. QED BY <2>1
<1>2. /\ noFundsFlow' = noFundsFlow /\ branchBalance' = branchBalance
      /\ \/ /\ k0 < numberBranches /\ i' = [i EXCEPT ![w] = @ + 1] /\ reg' = [reg EXCEPT ![w] = t]
            /\ UNCHANGED << pc, balanceErrors >>
         \/ /\ ~(k0 < numberBranches) /\ i' = [i EXCEPT ![w] = 1] /\ reg' = [reg EXCEPT ![w] = 0]
            /\ pc' = [pc EXCEPT ![w] = "unlock"]
            /\ balanceErrors' = IF noFundsFlow /\ t # Total THEN balanceErrors \cup {w} ELSE balanceErrors
  BY DEF SumBranch, Goto, Total
<1>3. noFundsFlow => t = SumFunctionOnSet(branchBalance, 0 .. k0 - 1)
  <2>1. noFundsFlow => reg[w] = S(k0)
    BY <1>1 DEF Running
  <2>2. QED BY <1>1, <2>1, NextBranch
<1> HIDE DEF t
<1>4. CASE k0 < numberBranches
  <2>1. /\ i'[w] = k0 + 1 /\ reg'[w] = t /\ pc'[w] = "sum" /\ balanceErrors' = balanceErrors
    BY <1>1, <1>2, <1>4 DEF BankType
  <2>2. i'[w] - 2 = k0 - 1
    BY <1>1, <2>1
  <2>3. Running(w)'
    BY <1>2, <1>3, <2>1, <2>2 DEF Running
  <2>4. QED BY <2>1, <2>3 DEF BankBalanceExact
<1>5. CASE ~(k0 < numberBranches)
  <2>1. reg'[w] = 0 /\ pc'[w] = "unlock"
    BY <1>1, <1>2, <1>5 DEF BankType
  <2>2. 0 .. k0 - 1 = Branch
    BY <1>1, <1>5 DEF Branch
  <2>3. owner[bank_bal] = w /\ InTransit(w) = 0 /\ w # NULL
    BY <1>1, HasBankLock, BankAssumption DEF Working, InTransit, Adjusting
  <2>4. noFundsFlow => SumFunctionOnSet(branchBalance, Branch) + 0 = Total
    BY <2>3 DEF BankSum
  <2>5. SumFunctionOnSet(branchBalance, Branch) \in Int
    BY <1>1, BankIsFinite, SumFacts DEF BankType
  <2>6. noFundsFlow => t = Total
    BY <1>3, <2>2, <2>4, <2>5
  <2>7. balanceErrors' = balanceErrors
    BY <1>2, <1>5, <2>6
  <2>8. Running(w)'
    BY <2>1 DEF Running
  <2>9. QED BY <2>7, <2>8 DEF BankBalanceExact
<1>6. QED BY <1>4, <1>5

LEMMA RunningSelf ==
  ASSUME BankInv, NEW w \in Worker, Step(w), ~SumBranch(w), Running(w)
  PROVE  Running(w)' /\ balanceErrors' = balanceErrors
<1>1. /\ pc \in [Worker -> Places] /\ i \in [Worker -> Nat \ {0}] /\ reg \in [Worker -> Int]
      /\ BankType
  BY DEF BankInv, BankType
<1>2. CASE ReadAccount(w) \/ ReadBranch(w)
  <2>1. pc'[w] \in {"write", "branch_write"} /\ balanceErrors' = balanceErrors
    BY <1>1, <1>2 DEF ReadAccount, ReadBranch, Goto
  <2>2. QED BY <2>1 DEF Running
<1>3. CASE WriteAccount(w) \/ WriteBranch(w)
  <2>1. /\ pc'[w] \in {"branch_read", "read", "unlock"} /\ reg'[w] = 0
        /\ balanceErrors' = balanceErrors
    BY <1>1, <1>3 DEF WriteAccount, WriteBranch, AdjustNext, Goto
  <2>2. QED BY <2>1 DEF Running
<1>4. CASE LockNext(w)
  <2>1. /\ pc[w] = "lock" /\ reg' = reg /\ balanceErrors' = balanceErrors
        /\ \/ pc' = pc
           \/ /\ i' = [i EXCEPT ![w] = 1]
              /\ \E l \in {"funds", "sum", "read"} : pc' = [pc EXCEPT ![w] = l]
    BY <1>4 DEF LockNext, Goto
  <2>2. pc'[w] \in {"lock", "funds", "sum", "read"} /\ (pc'[w] = "sum" => i'[w] = 1) /\ reg'[w] = 0
    BY <1>1, <2>1 DEF Running
  <2>3. 0 .. 1 - 2 = {}
    OBVIOUS
  <2>4. pc'[w] = "sum" => reg'[w] = SumFunctionOnSet(branchBalance', 0 .. i'[w] - 2)
    BY <1>1, <2>2, <2>3, NoBranches
  <2>5. QED BY <2>1, <2>2, <2>4 DEF Running
<1>5. CASE GetNext(w) \/ Exit(w) \/ CheckLock(w) \/ Check(w) \/ Funds(w) \/ Unlock(w)
  <2>1. /\ pc[w] \notin {"write", "branch_write", "sum"} /\ reg' = reg /\ balanceErrors' = balanceErrors
    BY <1>5 DEF GetNext, Exit, CheckLock, Check, Funds, Unlock
  <2>2. pc'[w] \notin {"write", "branch_write", "sum"}
    BY <1>1, <1>5 DEF GetNext, Exit, CheckLock, Check, Funds, Unlock, Goto
  <2>3. QED BY <2>1, <2>2 DEF Running
<1>6. QED BY <1>2, <1>3, <1>4, <1>5 DEF Step

LEMMA SumInvInit == Init => SumInv
<1> SUFFICES ASSUME Init PROVE SumInv
  OBVIOUS
<1>1. /\ numberBranches \in Nat /\ accountsPerBranch \in Nat /\ InitialAmount \in Nat
      /\ numberBranches * accountsPerBranch \in Nat /\ accountsPerBranch * InitialAmount \in Nat
  BY BankAssumption
<1>2. /\ balance = [a \in Account |-> InitialAmount] /\ owner = [l \in Lock |-> NULL]
      /\ branchBalance = [b \in Branch |-> accountsPerBranch * InitialAmount]
      /\ pc = [w \in Worker |-> "next"] /\ reg = [w \in Worker |-> 0]
      /\ action = [w \in Worker |-> NoAction] /\ balanceErrors = {}
  BY DEF Init
<1>3. \A a \in Account : Settled[a] = InitialAmount
  BY <1>1, <1>2, LockFacts DEF Settled
<1>4. BranchSums
  <2>1. ASSUME NEW b \in Branch PROVE branchBalance[b] = SumFunctionOnSet(Settled, AccountsOf(b))
    <3>1. /\ IsFiniteSet(AccountsOf(b)) /\ AccountsOf(b) \subseteq Account
          /\ Cardinality(AccountsOf(b)) = accountsPerBranch
      BY BankIsFinite
    <3>2. \A a \in AccountsOf(b) : Settled[a] = InitialAmount
      BY <1>3, <3>1
    <3>3. SumFunctionOnSet(Settled, AccountsOf(b)) = Cardinality(AccountsOf(b)) * InitialAmount
      BY <1>1, <3>1, <3>2, SumConstant
    <3>4. branchBalance[b] = accountsPerBranch * InitialAmount
      BY <1>2
    <3>5. QED BY <3>1, <3>3, <3>4
  <2>2. QED BY <2>1 DEF BranchSums
<1>5. BankSum
  <2> DEFINE c == accountsPerBranch * InitialAmount
  <2>1. IsFiniteSet(Branch) /\ Cardinality(Branch) = numberBranches /\ c \in Int
    BY <1>1, BankIsFinite
  <2>2. \A b \in Branch : branchBalance[b] = c
    BY <1>2
  <2> HIDE DEF c
  <2>3. SumFunctionOnSet(branchBalance, Branch) = numberBranches * c
    BY <2>1, <2>2, SumConstant
  <2>4. numberBranches * c = Total /\ Total \in Int
    <3>1. \A x, y, z \in Nat : x * (y * z) = (x * y) * z /\ (x * y) * z \in Int
      OBVIOUS
    <3>2. QED BY <1>1, <3>1 DEF Total, c
  <2>5. owner[bank_bal] = NULL
    BY <1>2, LockFacts
  <2>6. QED BY <2>3, <2>4, <2>5 DEF BankSum
<1>6. NoFunds
  BY <1>2 DEF NoFunds, NoAction
<1>7. \A w \in Worker : Running(w)
  BY <1>2 DEF Running
<1>8. QED BY <1>2, <1>4, <1>5, <1>6, <1>7 DEF SumInv, BankBalanceExact

LEMMA SumInvStep == BankInv /\ SumInv /\ [Next]_vars => SumInv'
<1> SUFFICES ASSUME BankInv, SumInv, [Next]_vars PROVE SumInv'
  OBVIOUS
<1>1. ASSUME NEW w \in Worker, Step(w) PROVE SumInv'
  <2>1. Frame(w) /\ OwnerMoves(w) /\ NoFunds' /\ noFundsFlow' = noFundsFlow
    <3>1. noFundsFlow' = noFundsFlow
      BY <1>1 DEF Step, GetNext, Exit, CheckLock, Check, LockNext, Funds, ReadAccount,
         WriteAccount, ReadBranch, WriteBranch, SumBranch, Unlock
    <3>2. QED BY <1>1, <3>1, StepKeeps, OwnerStep, NoFundsStep DEF Kept, SumInv
  <2>2. /\ BranchSums' /\ BankSum'
        /\ noFundsFlow /\ (WriteBranch(w) => action[w].cmd # "transfer") => branchBalance' = branchBalance
    <3>1. CASE WriteAccount(w)
      BY <2>1, <3>1, WriteSums DEF SumInv, WriteAccount
    <3>2. CASE WriteBranch(w)
      BY <2>1, <3>2, WriteBranchSums DEF SumInv
    <3>3. CASE ~(WriteAccount(w) \/ WriteBranch(w))
      <4>1. Still(w)
        BY <1>1, <3>3, StillSteps DEF Step
      <4>2. QED BY <2>1, <4>1, StillSums DEF SumInv, Still
    <3>4. QED BY <3>1, <3>2, <3>3
  <2>3. Running(w)' /\ BankBalanceExact'
    <3>1. CASE SumBranch(w)
      BY <3>1, SumStep DEF SumInv
    <3>2. CASE ~SumBranch(w)
      BY <1>1, <3>2, RunningSelf DEF SumInv, BankBalanceExact
    <3>3. QED BY <3>1, <3>2
  <2>4. ASSUME NEW x \in Worker, x # w PROVE Running(x)'
    <3>1. pc'[x] = pc[x] /\ i'[x] = i[x] /\ reg'[x] = reg[x] /\ Running(x)
      BY <2>1, <2>4 DEF Frame, SumInv
    <3>2. CASE pc[x] = "sum" /\ noFundsFlow
      <4>1. WriteBranch(w) => action[w].cmd # "transfer"
        <5>1. SUFFICES ASSUME WriteBranch(w), action[w].cmd = "transfer" PROVE FALSE
          OBVIOUS
        <5>2. owner[bank_bal] = w
          BY <5>1, HasBankLock DEF BankInv, WorkerInv, WriteBranch, Working, Adjusting
        <5>3. owner[bank_bal] = x
          BY <3>2, HasBankLock DEF BankInv, WorkerInv, PlaceInv, Working
        <5>4. QED BY <2>4, <5>2, <5>3
      <4>2. branchBalance' = branchBalance
        BY <2>2, <3>2, <4>1
      <4>3. QED BY <3>1, <3>2, <4>2 DEF Running
    <3>3. CASE ~(pc[x] = "sum" /\ noFundsFlow)
      BY <2>1, <3>1, <3>3 DEF Running
    <3>4. QED BY <3>2, <3>3
  <2>5. QED BY <2>1, <2>2, <2>3, <2>4 DEF SumInv
<1>2. CASE UNCHANGED vars
  <2>1. UNCHANGED << noFundsFlow, balance, branchBalance, owner, pc, action, i, reg, balanceErrors >>
    BY <1>2 DEF vars, locals
  <2>2. \A w \in Worker : \A a \in Account : Pending(w, a)' = Pending(w, a)
    BY <2>1 DEF Pending, Adjusted
  <2>3. ASSUME NEW a \in Account PROVE Settled'[a] = Settled[a]
    <3>1. owner[AccountLock(a)] \in Worker \cup {NULL}
      BY LockFacts DEF BankInv, BankType
    <3>2. QED BY <2>1, <2>2, <3>1 DEF Settled
  <2>4. BranchSums'
    BY <2>1, <2>3, BranchSumsKept DEF SumInv
  <2>5. BankSum' /\ NoFunds' /\ BankBalanceExact'
    BY <2>1 DEF SumInv, BankSum, NoFunds, BankBalanceExact, InTransit
  <2>6. ASSUME NEW x \in Worker PROVE Running(x)'
    BY <2>1 DEF SumInv, Running
  <2>7. QED BY <2>4, <2>5, <2>6 DEF SumInv
<1>3. QED BY <1>1, <1>2 DEF Next, Joined

(* The balance of every branch is the sum of its accounts whenever nobody  *)
(* is at work in it, whatever deposits, withdrawals and transfers came     *)
(* before.                                                                 *)
THEOREM BranchesAddUp == Spec => []BranchesAgree
<1>1. BankInv /\ SumInv => BranchesAgree
  <2> SUFFICES ASSUME BankInv, SumInv, NEW b \in Branch, Quiet(b)
               PROVE  branchBalance[b] = FoldFunctionOnSet(+, 0, balance, AccountsOf(b))
    BY DEF BranchesAgree
  <2>1. /\ IsFiniteSet(AccountsOf(b)) /\ AccountsOf(b) \subseteq Account
    BY BankIsFinite
  <2>2. \A a \in AccountsOf(b) : Settled[a] = balance[a] + 0 /\ balance[a] \in Int
    BY <2>1 DEF Quiet, Settled, BankInv, BankType
  <2>3. SumFunctionOnSet(Settled, AccountsOf(b)) = SumFunctionOnSet(balance, AccountsOf(b))
    BY <2>1, <2>2, SumAgrees
  <2>4. branchBalance[b] = SumFunctionOnSet(Settled, AccountsOf(b))
    BY DEF SumInv, BranchSums
  <2>5. QED BY <2>3, <2>4 DEF SumFunctionOnSet
<1>2. QED BY <1>1, BankInvInit, BankInvStep, SumInvInit, SumInvStep, PTL DEF Spec

(* A worker that asks for the balance of the bank while others transfer    *)
(* money is never told another total than the one the bank opened with.    *)
THEOREM BalanceIsExact == Spec => []BankBalanceExact
<1>1. SumInv => BankBalanceExact
  BY DEF SumInv
<1>2. QED BY <1>1, BankInvInit, BankInvStep, SumInvInit, SumInvStep, PTL DEF Spec

=============================================================================
