------------------------- MODULE WalletLedgerProofs -------------------------
(***************************************************************************)
(* Theorems about WalletLedger, for every set of wallets, branches, keys   *)
(* and amounts.  The sums of the ledger (Refunded, Movement) are folds     *)
(* over sets of rows: the first section proves what such a fold computes,  *)
(* with the smallest set it computes wrongly as the counterexample.        *)
(***************************************************************************)
EXTENDS WalletLedger, FiniteSetTheorems, WellFoundedInduction, TLAPS

-----------------------------------------------------------------------------
(* Sums of amounts. *)

\* The sum of the amounts of the rows in S.
AmountsIn(rows, S) == MapThenSumSet(LAMBDA i : rows[i].amount, S)

\* The sums over all subsets of S at once, computed from any element.
SumsOver(rows, S, sums) ==
  /\ sums \in [SUBSET S -> Int]
  /\ sums[{}] = 0
  /\ \A T \in SUBSET S : \A x \in T : sums[T] = rows[x].amount + sums[T \ {x}]

\* A non-empty set of finite sets has a smallest member.
LEMMA SmallestSet ==
  ASSUME NEW C, \A T \in C : IsFiniteSet(T), C # {}
  PROVE  \E T \in C : \A U \in C : ~ (Cardinality(U) < Cardinality(T))
<1> DEFINE N == {Cardinality(T) : T \in C}
<1>1. N \subseteq Nat /\ N # {}
  BY FS_CardinalityType
<1>2. IsWellFoundedOn({p \in Nat \X Nat : p[1] < p[2]}, Nat)
  BY NatLessThanWellFounded, Zenon DEF OpToRel
<1>3. \E n \in N : \A m \in N : ~ (<<m, n>> \in {p \in Nat \X Nat : p[1] < p[2]})
  <2>. HIDE DEF N
  <2>. QED  BY <1>1, <1>2, WFMin
<1>4. PICK n \in N : \A m \in N : ~ (<<m, n>> \in {p \in Nat \X Nat : p[1] < p[2]})
  BY <1>3
<1>5. \A m \in N : ~ (m < n)
  <2>. HIDE DEF N
  <2>. QED  BY <1>1, <1>4
<1>. QED  BY <1>5

\* Every finite set of rows with integer amounts has such sums.
LEMMA SumsExist ==
  ASSUME NEW S, IsFiniteSet(S), NEW rows, \A i \in S : rows[i].amount \in Int
  PROVE  \E sums : SumsOver(rows, S, sums)
<1> DEFINE C == {T \in SUBSET S : ~ \E sums : SumsOver(rows, T, sums)}
<1>1. SUFFICES ASSUME C # {} PROVE FALSE
  BY <1>1
<1>2. \A T \in C : IsFiniteSet(T)
  BY FS_Subset
<1>3. PICK T \in C : \A U \in C : ~ (Cardinality(U) < Cardinality(T))
  <2>. HIDE DEF C
  <2>. QED  BY <1>1, <1>2, SmallestSet
<1>4. T # {}
  <2>1. SumsOver(rows, {}, [U \in SUBSET {} |-> 0])
    BY DEF SumsOver
  <2>. QED  BY <2>1
<1>5. PICK x \in T : TRUE
  BY <1>4
<1>6. IsFiniteSet(T) /\ Cardinality(T \ {x}) < Cardinality(T)
  <2>1. IsFiniteSet(T)
    BY <1>2
  <2>2. Cardinality(T) \in Nat /\ Cardinality(T \ {x}) = Cardinality(T) - 1
    BY <1>5, <2>1, FS_RemoveElement, FS_CardinalityType
  <2>. QED  BY <2>1, <2>2
<1>7. PICK sums : SumsOver(rows, T \ {x}, sums)
  <2>1. T \ {x} \notin C
    BY <1>3, <1>6
  <2>. QED  BY <2>1
<1>8. T \subseteq S /\ \A y \in T : rows[y].amount \in Int
  OBVIOUS
<1> DEFINE longer == [U \in SUBSET T |-> IF x \in U THEN rows[x].amount + sums[U \ {x}]
                                                   ELSE sums[U]]
<1>9. SumsOver(rows, T, longer)
  <2>1. \A U \in SUBSET T : U \ {x} \in SUBSET (T \ {x}) /\ (x \notin U => U \in SUBSET (T \ {x}))
    OBVIOUS
  <2>2. longer \in [SUBSET T -> Int]
    BY <1>5, <1>7, <1>8, <2>1 DEF SumsOver
  <2>3. longer[{}] = 0
    BY <1>7 DEF SumsOver
  <2>4. ASSUME NEW U \in SUBSET T, NEW y \in U
        PROVE  longer[U] = rows[y].amount + longer[U \ {y}]
    <3>1. /\ U \ {y} \in SUBSET T /\ rows[x].amount \in Int /\ rows[y].amount \in Int
          /\ sums[U \ {x}] \in Int /\ sums[(U \ {y}) \ {x}] \in Int
      BY <1>5, <1>7, <1>8, <2>1 DEF SumsOver
    <3>2. CASE x \notin U
      <4>1. sums[U] = rows[y].amount + sums[U \ {y}]
        BY <1>7, <2>1, <3>2 DEF SumsOver
      <4>. QED  BY <3>1, <3>2, <4>1
    <3>3. CASE y = x
      <4>1. longer[U] = rows[x].amount + sums[U \ {x}]
        BY <3>3
      <4>2. longer[U \ {x}] = sums[U \ {x}]
        BY <3>1, <3>3
      <4>. QED  BY <3>3, <4>1, <4>2
    <3>4. CASE x \in U /\ y # x
      <4>1. (U \ {x}) \ {y} = (U \ {y}) \ {x}
        OBVIOUS
      <4>2. sums[U \ {x}] = rows[y].amount + sums[(U \ {y}) \ {x}]
        <5>1. U \ {x} \in SUBSET (T \ {x}) /\ y \in U \ {x}
          BY <3>4
        <5>2. sums[U \ {x}] = rows[y].amount + sums[(U \ {x}) \ {y}]
          BY <1>7, <5>1 DEF SumsOver
        <5>. QED  BY <4>1, <5>2
      <4>3. longer[U] = rows[x].amount + sums[U \ {x}]
        BY <3>4
      <4>4. longer[U \ {y}] = rows[x].amount + sums[(U \ {y}) \ {x}]
        BY <3>1, <3>4
      <4>. HIDE DEF longer
      <4>. QED  BY <3>1, <4>2, <4>3, <4>4
    <3>. QED  BY <3>2, <3>3, <3>4
  <2>. HIDE DEF longer
  <2>. QED  BY <2>2, <2>3, <2>4 DEF SumsOver
<1>. QED  BY <1>9

\* The fold computes the sums, whatever elements it chooses.
LEMMA FoldSums ==
  ASSUME NEW S, IsFiniteSet(S), NEW rows, NEW sums, SumsOver(rows, S, sums)
  PROVE  AmountsIn(rows, S) = sums[S]
<1> DEFINE Computes(f) ==
             f = [T \in SUBSET S |->
                    IF T = {} THEN 0
                    ELSE rows[CHOOSE y \in T : TRUE].amount
                           + f[T \ {CHOOSE y \in T : TRUE}]]
           fold == CHOOSE f : Computes(f)
<1>1. AmountsIn(rows, S) = fold[S]
  BY DEF AmountsIn, MapThenSumSet, MapThenFoldSet
<1>2. Computes(sums)
  BY DEF SumsOver
<1>3. Computes(fold)
  BY <1>2
<1> HIDE DEF fold
<1> DEFINE C == {T \in SUBSET S : fold[T] # sums[T]}
<1>4. SUFFICES ASSUME C # {} PROVE FALSE
  BY <1>1, <1>4
<1>5. \A T \in C : IsFiniteSet(T)
  BY FS_Subset
<1>6. PICK T \in C : \A U \in C : ~ (Cardinality(U) < Cardinality(T))
  <2>. HIDE DEF C
  <2>. QED  BY <1>4, <1>5, SmallestSet
<1>7. fold[{}] = 0 /\ sums[{}] = 0
  BY <1>2, <1>3
<1> DEFINE x == CHOOSE y \in T : TRUE
<1>8. x \in T
  BY <1>7
<1>9. /\ fold[T] = rows[x].amount + fold[T \ {x}]
      /\ sums[T] = rows[x].amount + sums[T \ {x}]
  BY <1>2, <1>3, <1>8
<1> HIDE DEF x
<1>10. Cardinality(T \ {x}) < Cardinality(T)
  <2>1. IsFiniteSet(T)
    BY <1>5
  <2>2. Cardinality(T) \in Nat /\ Cardinality(T \ {x}) = Cardinality(T) - 1
    BY <1>8, <2>1, FS_RemoveElement, FS_CardinalityType
  <2>. QED  BY <2>2
<1>11. fold[T \ {x}] = sums[T \ {x}]
  BY <1>6, <1>10
<1>. QED  BY <1>6, <1>9, <1>11

\* Nothing sums up to nothing.
LEMMA AmountsNone ==
  ASSUME NEW rows
  PROVE  AmountsIn(rows, {}) = 0
<1>1. SumsOver(rows, {}, [T \in SUBSET {} |-> 0])
  BY DEF SumsOver
<1>. QED  BY <1>1, FoldSums, FS_EmptySet

\* A sum of integers is an integer, and one more row adds its amount.
LEMMA AmountsAdded ==
  ASSUME NEW S, IsFiniteSet(S), NEW rows, \A i \in S : rows[i].amount \in Int
  PROVE  /\ AmountsIn(rows, S) \in Int
         /\ \A x \in S : AmountsIn(rows, S) = rows[x].amount + AmountsIn(rows, S \ {x})
<1>1. PICK sums : SumsOver(rows, S, sums)
  BY SumsExist
<1>2. AmountsIn(rows, S) = sums[S]
  BY <1>1, FoldSums
<1>3. sums[S] \in Int
  BY <1>1 DEF SumsOver
<1>4. ASSUME NEW x \in S
      PROVE  AmountsIn(rows, S \ {x}) = sums[S \ {x}]
  <2> DEFINE fewer == [T \in SUBSET (S \ {x}) |-> sums[T]]
  <2>1. SumsOver(rows, S \ {x}, fewer)
    <3>1. \A T \in SUBSET (S \ {x}) : T \in SUBSET S /\ \A y \in T : T \ {y} \in SUBSET (S \ {x})
      OBVIOUS
    <3>. QED  BY <1>1, <3>1 DEF SumsOver
  <2>2. IsFiniteSet(S \ {x})
    BY FS_RemoveElement
  <2>3. AmountsIn(rows, S \ {x}) = fewer[S \ {x}]
    <3>. HIDE DEF fewer
    <3>. QED  BY <2>1, <2>2, FoldSums
  <2>. QED  BY <2>3
<1>. QED  BY <1>1, <1>2, <1>3, <1>4 DEF SumsOver

\* Rows of the same amounts have the same sum.
LEMMA AmountsAgree ==
  ASSUME NEW S, IsFiniteSet(S), NEW rows, NEW others,
         \A i \in S : rows[i].amount \in Int /\ others[i].amount = rows[i].amount
  PROVE  AmountsIn(others, S) = AmountsIn(rows, S)
<1>1. PICK sums : SumsOver(rows, S, sums)
  BY SumsExist
<1>2. SumsOver(others, S, sums)
  BY <1>1 DEF SumsOver
<1>. QED  BY <1>1, <1>2, FoldSums

\* A part of amounts that are not negative sums up to no more than the whole.
LEMMA AmountsMonotone ==
  ASSUME NEW S, IsFiniteSet(S), NEW rows, \A i \in S : rows[i].amount \in Nat,
         NEW P \in SUBSET S
  PROVE  AmountsIn(rows, P) <= AmountsIn(rows, S)
<1> DEFINE C == {T \in SUBSET S : P \subseteq T /\ ~ (AmountsIn(rows, P) <= AmountsIn(rows, T))}
<1>1. SUFFICES ASSUME C # {} PROVE FALSE
  BY <1>1
<1>2. \A T \in SUBSET S : IsFiniteSet(T)
  BY FS_Subset
<1>3. PICK T \in C : \A U \in C : ~ (Cardinality(U) < Cardinality(T))
  <2>1. \A U \in C : IsFiniteSet(U)
    BY <1>2
  <2>. HIDE DEF C
  <2>. QED  BY <1>1, <2>1, SmallestSet
<1>4. AmountsIn(rows, P) \in Int
  <2>1. IsFiniteSet(P) /\ \A i \in P : rows[i].amount \in Int
    BY <1>2
  <2>. QED  BY <2>1, AmountsAdded
<1>5. PICK x \in T : x \notin P
  BY <1>3, <1>4
<1>6. IsFiniteSet(T) /\ T \subseteq S
  BY <1>2
<1>7. Cardinality(T \ {x}) < Cardinality(T)
  <2>1. Cardinality(T) \in Nat /\ Cardinality(T \ {x}) = Cardinality(T) - 1
    BY <1>5, <1>6, FS_RemoveElement, FS_CardinalityType
  <2>. QED  BY <2>1
<1>8. AmountsIn(rows, P) <= AmountsIn(rows, T \ {x})
  BY <1>3, <1>5, <1>6, <1>7
<1>9. /\ AmountsIn(rows, T) = rows[x].amount + AmountsIn(rows, T \ {x})
      /\ rows[x].amount \in Nat
      /\ AmountsIn(rows, T \ {x}) \in Int
  <2>1. \A i \in T : rows[i].amount \in Int
    BY <1>6
  <2>2. IsFiniteSet(T \ {x})
    BY <1>6, FS_RemoveElement
  <2>. QED  BY <1>5, <1>6, <2>1, <2>2, AmountsAdded
<1>. QED  BY <1>4, <1>8, <1>9

\* The sum of two disjoint sets is the sum of their sums.
LEMMA AmountsUnion ==
  ASSUME NEW S, NEW T, IsFiniteSet(S), IsFiniteSet(T), S \cap T = {},
         NEW rows, \A i \in S \cup T : rows[i].amount \in Int
  PROVE  AmountsIn(rows, S \cup T) = AmountsIn(rows, S) + AmountsIn(rows, T)
<1> DEFINE C == {U \in SUBSET T :
                   AmountsIn(rows, S \cup U) # AmountsIn(rows, S) + AmountsIn(rows, U)}
<1>1. SUFFICES ASSUME C # {} PROVE FALSE
  BY <1>1
<1>2. \A U \in SUBSET T : IsFiniteSet(U) /\ IsFiniteSet(S \cup U)
  BY FS_Subset, FS_Union
<1>3. PICK U \in C : \A W \in C : ~ (Cardinality(W) < Cardinality(U))
  <2>1. \A W \in C : IsFiniteSet(W)
    BY <1>2
  <2>. HIDE DEF C
  <2>. QED  BY <1>1, <2>1, SmallestSet
<1>4. AmountsIn(rows, S) \in Int
  BY AmountsAdded
<1>5. U # {}
  <2>1. S \cup {} = S
    OBVIOUS
  <2>2. AmountsIn(rows, {}) = 0
    BY AmountsNone
  <2>3. AmountsIn(rows, S \cup {}) = AmountsIn(rows, S) + AmountsIn(rows, {})
    BY <1>4, <2>1, <2>2
  <2>. QED  BY <1>3, <2>3
<1>6. PICK x \in U : x \in T /\ x \notin S
  BY <1>5
<1>7. /\ IsFiniteSet(U) /\ IsFiniteSet(S \cup U) /\ IsFiniteSet(U \ {x})
      /\ (S \cup U) \ {x} = S \cup (U \ {x})
      /\ \A i \in S \cup U : rows[i].amount \in Int
  BY <1>2, <1>6
<1>8. Cardinality(U \ {x}) < Cardinality(U)
  <2>1. Cardinality(U) \in Nat /\ Cardinality(U \ {x}) = Cardinality(U) - 1
    BY <1>6, <1>7, FS_RemoveElement, FS_CardinalityType
  <2>. QED  BY <2>1
<1>9. AmountsIn(rows, S \cup (U \ {x})) = AmountsIn(rows, S) + AmountsIn(rows, U \ {x})
  BY <1>3, <1>8
<1>10. /\ AmountsIn(rows, U) = rows[x].amount + AmountsIn(rows, U \ {x})
       /\ AmountsIn(rows, U \ {x}) \in Int /\ rows[x].amount \in Int
  BY <1>6, <1>7, AmountsAdded
<1>11. AmountsIn(rows, S \cup U) = rows[x].amount + AmountsIn(rows, (S \cup U) \ {x})
  <2>1. x \in S \cup U
    BY <1>6
  <2>. QED  BY <1>7, <2>1, AmountsAdded
<1> DEFINE s == AmountsIn(rows, S)
           u == AmountsIn(rows, U \ {x})
           whole == AmountsIn(rows, S \cup U)
           part == AmountsIn(rows, U)
           r == rows[x].amount
<1>12. whole = r + (s + u) /\ part = r + u /\ s \in Int /\ u \in Int /\ r \in Int
  BY <1>4, <1>7, <1>9, <1>10, <1>11
<1>13. whole # s + part
  BY <1>3
<1> HIDE DEF s, u, whole, part, r
<1>. QED  BY <1>12, <1>13

\* Rows that map one to one to rows of the same amounts sum up to the same.
LEMMA AmountsMapped ==
  ASSUME NEW S, IsFiniteSet(S), NEW T, IsFiniteSet(T), NEW rows, NEW others,
         NEW f \in [S -> T], \A x, y \in S : f[x] = f[y] => x = y,
         \A x \in S : rows[x].amount \in Int /\ others[f[x]].amount = rows[x].amount
  PROVE  AmountsIn(others, {f[x] : x \in S}) = AmountsIn(rows, S)
<1> DEFINE Image(U) == {f[x] : x \in U}
           C == {U \in SUBSET S : AmountsIn(others, Image(U)) # AmountsIn(rows, U)}
<1>1. SUFFICES ASSUME C # {} PROVE FALSE
  BY <1>1
<1>2. \A U \in SUBSET S : IsFiniteSet(U) /\ IsFiniteSet(Image(U))
  <2>1. \A U \in SUBSET S : Image(U) \in SUBSET T
    OBVIOUS
  <2>. QED  BY <2>1, FS_Subset
<1>3. PICK U \in C : \A W \in C : ~ (Cardinality(W) < Cardinality(U))
  <2>1. \A W \in C : IsFiniteSet(W)
    BY <1>2
  <2>. HIDE DEF C
  <2>. QED  BY <1>1, <2>1, SmallestSet
<1>4. U # {}
  <2>1. Image({}) = {}
    OBVIOUS
  <2>2. AmountsIn(others, Image({})) = AmountsIn(rows, {})
    BY <2>1, AmountsNone
  <2>. QED  BY <1>3, <2>2
<1>5. PICK x \in U : x \in S
  BY <1>4
<1>6. /\ IsFiniteSet(U) /\ IsFiniteSet(Image(U)) /\ f[x] \in Image(U)
      /\ Image(U) \ {f[x]} = Image(U \ {x})
      /\ \A i \in U : rows[i].amount \in Int
      /\ \A j \in Image(U) : others[j].amount \in Int
  BY <1>2, <1>5
<1>7. Cardinality(U \ {x}) < Cardinality(U)
  <2>1. Cardinality(U) \in Nat /\ Cardinality(U \ {x}) = Cardinality(U) - 1
    BY <1>5, <1>6, FS_RemoveElement, FS_CardinalityType
  <2>. QED  BY <2>1
<1>8. AmountsIn(others, Image(U \ {x})) = AmountsIn(rows, U \ {x})
  BY <1>3, <1>7
<1>9. AmountsIn(rows, U) = rows[x].amount + AmountsIn(rows, U \ {x})
  BY <1>5, <1>6, AmountsAdded
<1>10. AmountsIn(others, Image(U)) = others[f[x]].amount + AmountsIn(others, Image(U) \ {f[x]})
  <2> DEFINE I == Image(U)
             y == f[x]
  <2>1. IsFiniteSet(I) /\ y \in I /\ \A j \in I : others[j].amount \in Int
    BY <1>6
  <2>. HIDE DEF I, y
  <2>2. AmountsIn(others, I) = others[y].amount + AmountsIn(others, I \ {y})
    BY <2>1, AmountsAdded
  <2>. QED  BY <2>2 DEF I, y
<1>11. AmountsIn(others, Image(U)) = AmountsIn(rows, U)
  BY <1>5, <1>6, <1>8, <1>9, <1>10
<1>. QED  BY <1>3, <1>11

-----------------------------------------------------------------------------
(* Postings and steps. *)

\* Every posting an operation builds is a well-formed transaction.
LEMMA PostingsTyped ==
  ASSUME LedgerTypeOK,
         NEW amount \in Amounts, NEW key \in Keys
  PROVE  /\ \A s \in Students, b \in Branches, r \in References \cup {NULL} :
              SpendPosting(s, b, amount, key, r) \in WalletTransactions
         /\ \A spend \in TxIds : IsSpend(spend) =>
              RefundPosting(spend, amount, key) \in WalletTransactions
         /\ \A v \in Vendors : PayoutPosting(v, amount, key) \in WalletTransactions
         /\ \A a \in Students \cup Vendors :
              TopupSkeleton(a, amount, key) \in WalletTransactions
<1>1. ASSUME NEW s \in Students, NEW b \in Branches, NEW r \in References \cup {NULL}
      PROVE  SpendPosting(s, b, amount, key, r) \in WalletTransactions
  <2>1. VendorOf[b] \in Accounts
    BY AccountsAssumption DEF Accounts
  <2>. QED  BY <2>1 DEF SpendPosting, WalletTransactions, Accounts
<1>2. ASSUME NEW spend \in TxIds, IsSpend(spend)
      PROVE  RefundPosting(spend, amount, key) \in WalletTransactions
  <2>1. wtx[spend] \in WalletTransactions
    BY <1>2 DEF LedgerTypeOK, IsSpend, Completed
  <2>. QED  BY <2>1 DEF RefundPosting, WalletTransactions
<1>3. ASSUME NEW v \in Vendors
      PROVE  PayoutPosting(v, amount, key) \in WalletTransactions
  BY DEF PayoutPosting, WalletTransactions, Accounts, SystemAccounts
<1>4. ASSUME NEW a \in Students \cup Vendors
      PROVE  TopupSkeleton(a, amount, key) \in WalletTransactions
  BY DEF TopupSkeleton, WalletTransactions, TopupTypes, Accounts, SystemAccounts
<1>. QED  BY <1>1, <1>2, <1>3, <1>4

\* A posting finds no earlier instruction with its key, stores t, and applies
\* both entries.
LEMMA PostFacts ==
  ASSUME NEW id \in TxIds, NEW t \in WalletTransactions, Post(id, t), LedgerTypeOK
  PROVE  /\ wtx[id] = NULL
         /\ Existing(t) = {}
         /\ ApplyEntries(t)
         /\ wtx' = [wtx EXCEPT ![id] = t]
         /\ wtx' \in [TxIds -> WalletTransactions \cup {NULL}]
<1>1. Existing(t) = {}
  BY DEF Post, PostingResult
<1>. QED  BY <1>1 DEF Post, NextRow, LedgerTypeOK

\* The trigger keeps the projections well-typed.
LEMMA EntriesTyped ==
  ASSUME NEW t \in WalletTransactions, ApplyEntries(t), LedgerTypeOK
  PROVE  /\ balance' \in [Accounts -> Int]
         /\ negativeSince' \in [Vendors -> (0 .. MaxTime) \cup {NULL}]
<1>1. t.amount \in Int /\ t.debit \in Accounts /\ t.credit \in Accounts
  <2>1. Amounts \subseteq Int
    BY ValuesAssumption
  <2>. QED  BY <2>1 DEF WalletTransactions
<1>2. balance' \in [Accounts -> Int]
  BY <1>1 DEF ApplyEntries, LedgerTypeOK
<1>3. ASSUME NEW v \in Vendors
      PROVE  NegativeSinceAfter(v, balance'[v]) \in (0 .. MaxTime) \cup {NULL}
  BY DEF NegativeSinceAfter, LedgerTypeOK
<1>. QED  BY <1>2, <1>3 DEF ApplyEntries, LedgerTypeOK

\* A ledger step is a posting, a new top-up, a top-up outcome, or leaves
\* transactions and balances alone.
LedgerStep ==
  \/ \E id \in TxIds, t \in WalletTransactions :
       /\ t.type \in {"SPEND", "REFUND", "PAYOUT"} /\ t.status = "COMPLETED"
       /\ t.type = "REFUND" =>
            \E spend \in TxIds : IsSpend(spend) /\ t = RefundPosting(spend, t.amount, t.key)
       /\ Post(id, t)
       /\ UNCHANGED <<settingsVars, now>>
  \/ \E id \in TxIds, t \in WalletTransactions :
       /\ t.type \in TopupTypes /\ t.status = "PENDING"
       /\ wtx[id] = NULL
       /\ Existing(t) = {}
       /\ wtx' = [wtx EXCEPT ![id] = t]
       /\ UNCHANGED <<balance, negativeSince, settingsVars, now>>
  \/ \E id \in TxIds : CompleteTopup(id) \/ FailTopup(id)
  \/ ChangeSettings
  \/ Tick
  \/ UNCHANGED ledgerVars

\* Every step of the ledger posts a well-typed transaction, starts or settles a
\* top-up, changes the settings or the clock, or does nothing.
LEMMA LedgerSteps ==
  ASSUME LedgerTypeOK, [LedgerNext]_ledgerVars
  PROVE  LedgerStep
<1>1. ASSUME NEW id \in TxIds, NEW amount \in Amounts, NEW key \in Keys,
             NEW s \in Students, NEW b \in Branches,
             SubmitWalletPayment(id, s, b, amount, key)
      PROVE  LedgerStep
  <2>1. SpendPosting(s, b, amount, key, NULL) \in WalletTransactions
    BY PostingsTyped
  <2>2. /\ SpendPosting(s, b, amount, key, NULL).type = "SPEND"
        /\ SpendPosting(s, b, amount, key, NULL).status = "COMPLETED"
    BY DEF SpendPosting
  <2>. QED  BY <1>1, <2>1, <2>2 DEF SubmitWalletPayment, LedgerStep
<1>2. ASSUME NEW id \in TxIds, NEW amount \in Amounts, NEW key \in Keys,
             NEW s \in Students, NEW b \in Branches, NEW r \in References,
             PostSpend(id, s, b, amount, key, r)
      PROVE  LedgerStep
  <2>1. SpendPosting(s, b, amount, key, r) \in WalletTransactions
    BY PostingsTyped
  <2>2. /\ SpendPosting(s, b, amount, key, r).type = "SPEND"
        /\ SpendPosting(s, b, amount, key, r).status = "COMPLETED"
    BY DEF SpendPosting
  <2>. QED  BY <1>2, <2>1, <2>2 DEF PostSpend, LedgerStep
<1>3. ASSUME NEW id \in TxIds, NEW amount \in Amounts, NEW key \in Keys,
             NEW spend \in TxIds, PostRefund(id, spend, amount, key)
      PROVE  LedgerStep
  <2>1. RefundPosting(spend, amount, key) \in WalletTransactions
    BY <1>3, PostingsTyped DEF PostRefund
  <2>2. /\ RefundPosting(spend, amount, key).type = "REFUND" /\ RefundPosting(spend, amount, key).status = "COMPLETED"
        /\ RefundPosting(spend, amount, key).amount = amount /\ RefundPosting(spend, amount, key).key = key
    BY DEF RefundPosting
  <2>3. IsSpend(spend)
    BY <1>3 DEF PostRefund
  <2>. HIDE DEF RefundPosting
  <2>. QED  BY <1>3, <2>1, <2>2, <2>3 DEF PostRefund, LedgerStep
<1>4. ASSUME NEW id \in TxIds, NEW amount \in Amounts, NEW key \in Keys,
             NEW v \in Vendors, PostPayout(id, v, amount, key)
      PROVE  LedgerStep
  <2>1. PayoutPosting(v, amount, key) \in WalletTransactions
    BY PostingsTyped
  <2>2. /\ PayoutPosting(v, amount, key).type = "PAYOUT"
        /\ PayoutPosting(v, amount, key).status = "COMPLETED"
    BY DEF PayoutPosting
  <2>. QED  BY <1>4, <2>1, <2>2 DEF PostPayout, LedgerStep
<1>5. ASSUME NEW id \in TxIds, NEW amount \in Amounts, NEW key \in Keys,
             NEW a \in Students \cup Vendors, StartTopup(id, a, amount, key)
      PROVE  LedgerStep
  <2>1. TopupSkeleton(a, amount, key) \in WalletTransactions
    BY PostingsTyped
  <2>2. /\ TopupSkeleton(a, amount, key).type \in TopupTypes
        /\ TopupSkeleton(a, amount, key).status = "PENDING"
    BY DEF TopupSkeleton, TopupTypes
  <2>. QED  BY <1>5, <2>1, <2>2 DEF StartTopup, NextRow, LedgerStep
<1>6. ASSUME NEW id \in TxIds, CompleteTopup(id) \/ FailTopup(id)
      PROVE  LedgerStep
  BY <1>6 DEF LedgerStep
<1>7. ASSUME ChangeSettings \/ Tick \/ UNCHANGED ledgerVars
      PROVE  LedgerStep
  BY <1>7 DEF LedgerStep
<1>. QED
  BY <1>1, <1>2, <1>3, <1>4, <1>5, <1>6, <1>7 DEF LedgerNext

-----------------------------------------------------------------------------
(* Typing. *)

\* Opening balances and settings are well-typed.
LEMMA TypingInit ==
  ASSUME LedgerInit
  PROVE  LedgerTypeOK
BY OpeningAssumption, ValuesAssumption DEF LedgerInit, LedgerTypeOK, ProfileStatuses

\* Every operation of the ledger keeps its state well-typed.
LEMMA TypingStep ==
  ASSUME LedgerTypeOK, [LedgerNext]_ledgerVars
  PROVE  LedgerTypeOK'
<1>. LedgerStep
  BY LedgerSteps
<1>1. ASSUME NEW id \in TxIds, NEW t \in WalletTransactions, Post(id, t),
             UNCHANGED <<settingsVars, now>>
      PROVE  LedgerTypeOK'
  BY <1>1, PostFacts, EntriesTyped DEF LedgerTypeOK, settingsVars
<1>2. ASSUME NEW id \in TxIds, NEW t \in WalletTransactions,
             wtx' = [wtx EXCEPT ![id] = t],
             UNCHANGED <<balance, negativeSince, settingsVars, now>>
      PROVE  LedgerTypeOK'
  BY <1>2 DEF LedgerTypeOK, settingsVars
<1>3. ASSUME NEW id \in TxIds, CompleteTopup(id)
      PROVE  LedgerTypeOK'
  <2>1. wtx[id] \in WalletTransactions
    BY <1>3 DEF CompleteTopup, LedgerTypeOK
  <2>2. wtx' \in [TxIds -> WalletTransactions \cup {NULL}]
    BY <1>3, <2>1 DEF CompleteTopup, LedgerTypeOK, WalletTransactions
  <2>. QED
    BY <1>3, <2>1, <2>2, EntriesTyped DEF CompleteTopup, LedgerTypeOK, settingsVars
<1>4. ASSUME NEW id \in TxIds, FailTopup(id)
      PROVE  LedgerTypeOK'
  <2>1. wtx[id] \in WalletTransactions
    BY <1>4 DEF FailTopup, LedgerTypeOK
  <2>2. wtx' \in [TxIds -> WalletTransactions \cup {NULL}]
    BY <1>4, <2>1 DEF FailTopup, LedgerTypeOK, WalletTransactions
  <2>. QED  BY <1>4, <2>2 DEF FailTopup, LedgerTypeOK, settingsVars
<1>5. CASE ChangeSettings
  BY <1>5 DEF ChangeSettings, SwitchWallet, SwitchBranch, SetProfile, LedgerTypeOK
<1>6. CASE Tick
  BY <1>6, ValuesAssumption DEF Tick, LedgerTypeOK, settingsVars
<1>7. CASE UNCHANGED ledgerVars
  BY <1>7 DEF ledgerVars, LedgerTypeOK
<1>. QED  BY <1>1, <1>2, <1>3, <1>4, <1>5, <1>6, <1>7 DEF LedgerStep

\* Type correctness: every reachable ledger state is well-typed.
THEOREM LedgerTyping == LedgerSpec => []LedgerTypeOK
BY TypingInit, TypingStep, PTL DEF LedgerSpec

-----------------------------------------------------------------------------
(* The overdraft clock. *)

\* What the trigger does to one account.
LEMMA EntriesOnAccount ==
  ASSUME NEW t \in WalletTransactions, ApplyEntries(t), LedgerTypeOK,
         NEW a \in Accounts
  PROVE  /\ t.amount \in Nat
         /\ a \notin {t.debit, t.credit} => balance'[a] = balance[a]
         /\ a # t.debit => balance'[a] >= balance[a]
         /\ a = t.debit => balance'[a] \in {balance[a], balance[a] - t.amount}
<1>1. t.amount \in Nat /\ t.debit \in Accounts /\ t.credit \in Accounts
  BY ValuesAssumption DEF WalletTransactions
<1>. QED  BY <1>1 DEF ApplyEntries, LedgerTypeOK

\* The trigger refuses to overdraw a student and keeps the clocks of the vendors.
LEMMA OverdraftEntries ==
  ASSUME NEW t \in WalletTransactions, ApplyEntries(t), LedgerTypeOK,
         OverdraftTracked, now' = now
  PROVE  OverdraftTracked'
<1>1. ASSUME NEW s \in Students
      PROVE  balance'[s] >= 0
  <2>1. s \in Accounts /\ s \notin Vendors /\ s \notin SystemAccounts
    BY AccountsAssumption DEF Accounts
  <2>2. balance[s] >= 0 /\ balance[s] \in Int /\ balance'[s] \in Int
    BY <2>1, EntriesTyped DEF OverdraftTracked, LedgerTypeOK
  <2>3. CASE s = t.debit
    <3>1. balance[s] >= t.amount
      BY <2>1, <2>3 DEF ApplyEntries, SufficientFunds, MayOverdraw
    <3>2. t.amount \in Nat /\ balance'[s] \in {balance[s], balance[s] - t.amount}
      BY <2>1, <2>3, EntriesOnAccount
    <3>. QED  BY <2>2, <3>1, <3>2
  <2>4. CASE s # t.debit
    BY <2>1, <2>2, <2>4, EntriesOnAccount
  <2>. QED  BY <2>3, <2>4
<1>2. ASSUME NEW v \in Vendors
      PROVE  /\ balance'[v] < 0 <=> negativeSince'[v] # NULL
             /\ negativeSince'[v] # NULL => negativeSince'[v] <= now'
  <2>1. /\ v \in Accounts /\ balance'[v] \in Int /\ now \in Int /\ now # NULL
        /\ balance[v] < 0 <=> negativeSince[v] # NULL
        /\ negativeSince[v] # NULL => negativeSince[v] <= now
    BY EntriesTyped, ValuesAssumption DEF Accounts, OverdraftTracked, LedgerTypeOK
  <2>2. CASE v \in {t.debit, t.credit}
    <3>1. negativeSince'[v] = NegativeSinceAfter(v, balance'[v])
      BY <2>2 DEF ApplyEntries
    <3>. QED  BY <2>1, <3>1 DEF NegativeSinceAfter
  <2>3. CASE v \notin {t.debit, t.credit}
    <3>1. negativeSince'[v] = negativeSince[v]
      BY <2>3 DEF ApplyEntries
    <3>2. balance'[v] = balance[v]
      BY <2>1, <2>3, EntriesOnAccount
    <3>. QED  BY <2>1, <3>1, <3>2
  <2>. QED  BY <2>2, <2>3
<1>. QED  BY <1>1, <1>2 DEF OverdraftTracked

\* No wallet is overdrawn when the modelled period starts.
LEMMA OverdraftInit ==
  ASSUME LedgerInit
  PROVE  OverdraftTracked
<1>1. \A a \in Students \cup Vendors : balance[a] \in Int /\ balance[a] >= 0
  BY OpeningAssumption DEF LedgerInit, Accounts
<1>. QED  BY <1>1 DEF LedgerInit, OverdraftTracked

\* No operation overdraws a student or leaves the overdraft clock of a vendor
\* out of step with its balance.
LEMMA OverdraftPreserved ==
  ASSUME LedgerTypeOK, OverdraftTracked, [LedgerNext]_ledgerVars
  PROVE  OverdraftTracked'
<1>. LedgerStep
  BY LedgerSteps
<1>1. ASSUME NEW id \in TxIds, NEW t \in WalletTransactions, Post(id, t), now' = now
      PROVE  OverdraftTracked'
  BY <1>1, PostFacts, OverdraftEntries
<1>2. ASSUME NEW id \in TxIds, CompleteTopup(id)
      PROVE  OverdraftTracked'
  <2>1. wtx[id] \in WalletTransactions
    BY <1>2 DEF CompleteTopup, LedgerTypeOK
  <2>. QED  BY <1>2, <2>1, OverdraftEntries DEF CompleteTopup
<1>3. CASE UNCHANGED <<balance, negativeSince, now>>
  BY <1>3 DEF OverdraftTracked
<1>4. CASE Tick
  BY <1>4, ValuesAssumption DEF Tick, OverdraftTracked, LedgerTypeOK
<1>. QED
  BY <1>1, <1>2, <1>3, <1>4 DEF LedgerStep, FailTopup, ChangeSettings, SwitchWallet, SwitchBranch, SetProfile,
                            ledgerVars

\* O2, O4: no student is ever overdrawn, and the overdraft clock of a vendor
\* runs exactly while its balance is negative.
THEOREM OverdraftClock == LedgerSpec => []OverdraftTracked
<1>1. LedgerInit => LedgerTypeOK /\ OverdraftTracked
  BY TypingInit, OverdraftInit
<1>2. LedgerTypeOK /\ OverdraftTracked /\ [LedgerNext]_ledgerVars
        => (LedgerTypeOK /\ OverdraftTracked)'
  BY TypingStep, OverdraftPreserved
<1>. QED  BY <1>1, <1>2, PTL DEF LedgerSpec

\* O1: a vendor falls below zero only by a refund or a payout, and nothing
\* restarts its clock while it stays there.
THEOREM OverdraftCauses == LedgerSpec => OverdraftOnlyByRefundOrPayout
<1>1. ASSUME LedgerTypeOK, OverdraftTracked, [LedgerNext]_ledgerVars,
             NEW v \in Vendors
      PROVE  OverdraftStep(v)
  <2>. LedgerStep
    BY <1>1, LedgerSteps
  <2>1. v \in Accounts /\ v \notin SystemAccounts /\ balance[v] \in Int
    BY <1>1, AccountsAssumption DEF Accounts, LedgerTypeOK
  <2>2. ASSUME NEW t \in WalletTransactions, ApplyEntries(t), balance[v] < 0,
               balance'[v] < 0
        PROVE  negativeSince'[v] = negativeSince[v]
    <3>1. negativeSince[v] # NULL /\ balance'[v] \in Int
      BY <1>1, <2>1, <2>2, EntriesTyped DEF OverdraftTracked
    <3>. QED  BY <2>2, <3>1 DEF ApplyEntries, NegativeSinceAfter
  <2>3. ASSUME NEW t \in WalletTransactions, ApplyEntries(t), balance[v] >= 0,
               balance'[v] < 0
        PROVE  t.debit = v /\ t.type \in {"REFUND", "PAYOUT"}
    <3>1. t.debit = v
      BY <1>1, <2>1, <2>3, EntriesTyped, EntriesOnAccount
    <3>2. t.amount \in Nat /\ balance'[v] \in {balance[v], balance[v] - t.amount}
      BY <1>1, <2>1, <2>3, <3>1, EntriesOnAccount
    <3>. QED  BY <2>1, <2>3, <3>1, <3>2 DEF ApplyEntries, SufficientFunds, MayOverdraw
  <2>4. ASSUME NEW id \in TxIds, NEW t \in WalletTransactions, Post(id, t)
        PROVE  OverdraftStep(v)
    <3>1. /\ ApplyEntries(t) /\ wtx[id] = NULL /\ wtx'[id] = t
      BY <1>1, <2>4, PostFacts DEF LedgerTypeOK
    <3>. QED  BY <2>1, <2>2, <2>3, <3>1, NullAssumption DEF OverdraftStep
  <2>5. ASSUME NEW id \in TxIds, CompleteTopup(id)
        PROVE  OverdraftStep(v)
    <3>1. /\ wtx[id] \in WalletTransactions /\ ApplyEntries(wtx[id])
          /\ wtx[id].type \notin {"REFUND", "PAYOUT"}
      BY <1>1, <2>5 DEF CompleteTopup, LedgerTypeOK, TopupTypes
    <3>2. balance'[v] >= 0 \/ balance'[v] < 0
      BY <1>1, <2>1, <3>1, EntriesTyped
    <3>. QED  BY <2>1, <2>2, <2>3, <3>1, <3>2 DEF OverdraftStep
  <2>6. CASE UNCHANGED <<balance, negativeSince>>
    BY <2>1, <2>6, <1>1 DEF OverdraftStep
  <2>. QED
    BY <2>4, <2>5, <2>6 DEF LedgerStep, FailTopup, ChangeSettings, SwitchWallet,
                           SwitchBranch, SetProfile, Tick, ledgerVars
<1>2. LedgerTypeOK /\ OverdraftTracked /\ [LedgerNext]_ledgerVars
        => [\A v \in Vendors : OverdraftStep(v)]_ledgerVars
  BY <1>1
<1>. QED
  BY <1>2, LedgerTyping, OverdraftClock, PTL DEF LedgerSpec, OverdraftOnlyByRefundOrPayout

-----------------------------------------------------------------------------
(* Idempotency and finality. *)

\* Two rows answer to the same instruction when the unique index says so.
SameInstruction(t, u) ==
  Initiator(t) = Initiator(u) /\ t.type = u.type /\ t.key = u.key

\* A transaction whose instruction is not found is the only one of its key.
LEMMA NewTransactionUnique ==
  ASSUME LedgerTypeOK, InstructionExecutedOnce,
         NEW id \in TxIds, NEW t \in WalletTransactions,
         wtx[id] = NULL, Existing(t) = {}, wtx' = [wtx EXCEPT ![id] = t]
  PROVE  InstructionExecutedOnce'
<1>1. \A i \in TxIds : wtx[i] # NULL => ~ SameInstruction(wtx[i], t)
  BY DEF Existing, SameInstruction
<1>2. \A i, j \in TxIds :
        wtx[i] # NULL /\ wtx[j] # NULL /\ SameInstruction(wtx[i], wtx[j]) => i = j
  BY DEF InstructionExecutedOnce, SameInstruction
<1>3. \A i \in TxIds : wtx'[i] = IF i = id THEN t ELSE wtx[i]
  BY DEF LedgerTypeOK
<1>4. \A i \in TxIds : wtx[i] # NULL => ~ SameInstruction(t, wtx[i])
  BY <1>1 DEF SameInstruction
<1>5. \A i, j \in TxIds :
        wtx'[i] # NULL /\ wtx'[j] # NULL /\ SameInstruction(wtx'[i], wtx'[j]) => i = j
  BY <1>1, <1>2, <1>3, <1>4
<1>. QED  BY <1>5 DEF InstructionExecutedOnce, SameInstruction, Initiator

\* Changing the status of a row changes neither its initiator nor its key.
LEMMA StatusChangeUnique ==
  ASSUME LedgerTypeOK, InstructionExecutedOnce,
         NEW id \in TxIds, wtx[id] # NULL,
         NEW status \in {"COMPLETED", "FAILED"},
         wtx' = [wtx EXCEPT ![id].status = status]
  PROVE  InstructionExecutedOnce'
<1>1. wtx[id] \in WalletTransactions
  BY DEF LedgerTypeOK
<1>2. /\ \A i \in TxIds : wtx'[i] # NULL => wtx[i] # NULL
      /\ \A i \in TxIds : wtx[i] # NULL =>
            /\ wtx'[i].type = wtx[i].type
            /\ wtx'[i].key = wtx[i].key
            /\ wtx'[i].debit = wtx[i].debit
            /\ wtx'[i].credit = wtx[i].credit
  BY <1>1 DEF LedgerTypeOK, WalletTransactions
<1>. QED  BY <1>2 DEF InstructionExecutedOnce, Initiator

\* No operation stores a second transaction of one instruction.
LEMMA OncePreserved ==
  ASSUME LedgerTypeOK, InstructionExecutedOnce, [LedgerNext]_ledgerVars
  PROVE  InstructionExecutedOnce'
<1>. LedgerStep
  BY LedgerSteps
<1>1. ASSUME NEW id \in TxIds, NEW t \in WalletTransactions, Post(id, t)
      PROVE  InstructionExecutedOnce'
  BY <1>1, PostFacts, NewTransactionUnique
<1>2. ASSUME NEW id \in TxIds, NEW t \in WalletTransactions,
             wtx[id] = NULL, Existing(t) = {}, wtx' = [wtx EXCEPT ![id] = t]
      PROVE  InstructionExecutedOnce'
  BY <1>2, NewTransactionUnique
<1>3. ASSUME NEW id \in TxIds, CompleteTopup(id) \/ FailTopup(id)
      PROVE  InstructionExecutedOnce'
  BY <1>3, StatusChangeUnique DEF CompleteTopup, FailTopup
<1>4. CASE UNCHANGED wtx
  BY <1>4 DEF InstructionExecutedOnce, Initiator
<1>. QED
  BY <1>1, <1>2, <1>3, <1>4 DEF LedgerStep, ChangeSettings, SwitchWallet, SwitchBranch,
                                    SetProfile, Tick, ledgerVars

\* A retried instruction is executed at most once, whatever interleaves.
THEOREM IdempotentExecution == LedgerSpec => []InstructionExecutedOnce
<1>1. LedgerInit => InstructionExecutedOnce
  BY DEF LedgerInit, InstructionExecutedOnce
<1>2. LedgerTypeOK /\ InstructionExecutedOnce /\ [LedgerNext]_ledgerVars
        => InstructionExecutedOnce'
  BY OncePreserved
<1>. QED  BY <1>1, <1>2, LedgerTyping, PTL DEF LedgerSpec

\* Completed and failed transactions are immutable; a pending one only changes
\* its status.
THEOREM SettlementFinality == LedgerSpec => SettledTransactionsAreFinal
<1>1. ASSUME LedgerTypeOK, [LedgerNext]_ledgerVars, NEW i \in TxIds
      PROVE  SettledStep(i)
  <2>. LedgerStep
    BY <1>1, LedgerSteps
  <2>0. wtx[i] # NULL => wtx[i] = [wtx[i] EXCEPT !.status = wtx[i].status]
    BY <1>1 DEF LedgerTypeOK, WalletTransactions
  <2>1. ASSUME NEW id \in TxIds, NEW t \in WalletTransactions,
               wtx[id] = NULL, wtx' = [wtx EXCEPT ![id] = t]
        PROVE  SettledStep(i)
    BY <1>1, <2>0, <2>1 DEF SettledStep, LedgerTypeOK
  <2>2. ASSUME NEW id \in TxIds, NEW status \in {"COMPLETED", "FAILED"},
               wtx[id] # NULL, wtx[id].status = "PENDING",
               wtx' = [wtx EXCEPT ![id].status = status]
        PROVE  SettledStep(i)
    <3>1. wtx[id] \in WalletTransactions
      BY <1>1, <2>2 DEF LedgerTypeOK
    <3>2. [wtx[id] EXCEPT !.status = status] \in WalletTransactions
      BY <3>1 DEF WalletTransactions
    <3>3. wtx'[i] = IF i = id THEN [wtx[id] EXCEPT !.status = status] ELSE wtx[i]
      BY <1>1, <2>2 DEF LedgerTypeOK
    <3>4. [wtx[id] EXCEPT !.status = status].status = status
      BY <3>1 DEF WalletTransactions
    <3>. QED  BY <2>0, <2>2, <3>2, <3>3, <3>4, NullAssumption DEF SettledStep
  <2>3. CASE UNCHANGED wtx
    BY <2>0, <2>3 DEF SettledStep
  <2>. QED
    BY <1>1, <2>1, <2>2, <2>3, PostFacts
    DEF LedgerStep, CompleteTopup, FailTopup, ChangeSettings, SwitchWallet, SwitchBranch,
        SetProfile, Tick, ledgerVars
<1>2. LedgerTypeOK /\ [LedgerNext]_ledgerVars
        => [\A i \in TxIds : SettledStep(i)]_ledgerVars
  BY <1>1
<1>. QED  BY <1>2, LedgerTyping, PTL DEF LedgerSpec, SettledTransactionsAreFinal

-----------------------------------------------------------------------------
(* The balance projection. *)

Credits(a) == {i \in TxIds : Completed(i) /\ wtx[i].credit = a}
Debits(a) == {i \in TxIds : Completed(i) /\ wtx[i].debit = a}

\* The sums of the properties, and their values after a step.
LEMMA LedgerSums ==
  /\ \A a : /\ Movement(a) = AmountsIn(wtx, Credits(a)) - AmountsIn(wtx, Debits(a))
            /\ Movement(a)' = AmountsIn(wtx', Credits(a)') - AmountsIn(wtx', Debits(a)')
  /\ \A spend : /\ Refunded(spend) = AmountsIn(wtx, Refunds(spend))
                /\ Refunded(spend)' = AmountsIn(wtx', Refunds(spend)')
BY DEF Movement, Credits, Debits, Refunded, AmountsIn, MapThenSumSet, MapThenFoldSet

\* Rows of a typed ledger are finitely many, with natural amounts.
LEMMA RowAmounts ==
  ASSUME LedgerTypeOK
  PROVE  /\ \A S \in SUBSET TxIds : IsFiniteSet(S)
         /\ \A i \in TxIds : wtx[i] # NULL =>
              /\ wtx[i].amount \in Nat \ {0}
              /\ wtx[i].debit \in Accounts /\ wtx[i].credit \in Accounts
<1>1. \A S \in SUBSET TxIds : IsFiniteSet(S)
  BY ValuesAssumption, FS_Subset
<1>2. ASSUME NEW i \in TxIds, wtx[i] # NULL
      PROVE  /\ wtx[i].amount \in Nat \ {0}
             /\ wtx[i].debit \in Accounts /\ wtx[i].credit \in Accounts
  <2>1. wtx[i] \in WalletTransactions
    BY <1>2 DEF LedgerTypeOK
  <2>. QED  BY <2>1, ValuesAssumption DEF WalletTransactions
<1>. QED  BY <1>1, <1>2

\* What a transaction moves, and where.
LEMMA TransactionFields ==
  ASSUME NEW t \in WalletTransactions
  PROVE  t.amount \in Nat \ {0} /\ t.debit \in Accounts /\ t.credit \in Accounts /\ t # NULL
<1>1. t.amount \in Amounts /\ t.debit \in Accounts /\ t.credit \in Accounts
  BY DEF WalletTransactions
<1>. QED  BY <1>1, ValuesAssumption, NullAssumption

\* Sums over the same rows with the same amounts.
LEMMA SumKept ==
  ASSUME LedgerTypeOK, NEW S \in SUBSET TxIds,
         \A i \in S : wtx[i] # NULL /\ wtx'[i].amount = wtx[i].amount
  PROVE  AmountsIn(wtx', S) = AmountsIn(wtx, S) /\ AmountsIn(wtx, S) \in Int
<1>1. IsFiniteSet(S) /\ \A i \in S : wtx[i].amount \in Int
  BY RowAmounts
<1>. QED  BY <1>1, AmountsAgree, AmountsAdded

\* The sum after one row joined a set of rows that stay as they are.
LEMMA SumGrows ==
  ASSUME LedgerTypeOK, NEW S \in SUBSET TxIds, NEW id \in TxIds, id \notin S,
         \A i \in S : wtx[i] # NULL /\ wtx'[i].amount = wtx[i].amount,
         wtx'[id].amount \in Int
  PROVE  /\ AmountsIn(wtx', S \cup {id}) = AmountsIn(wtx, S) + wtx'[id].amount
         /\ AmountsIn(wtx, S) \in Int
<1>1. AmountsIn(wtx', S) = AmountsIn(wtx, S) /\ AmountsIn(wtx, S) \in Int
  BY SumKept
<1>2. /\ IsFiniteSet(S \cup {id})
      /\ \A i \in S \cup {id} : wtx'[i].amount \in Int
      /\ (S \cup {id}) \ {id} = S
  BY RowAmounts
<1>3. AmountsIn(wtx', S \cup {id})
        = wtx'[id].amount + AmountsIn(wtx', S)
  BY <1>2, AmountsAdded
<1> DEFINE before == AmountsIn(wtx, S)
<1>4. AmountsIn(wtx', S \cup {id}) = wtx'[id].amount + before /\ before \in Int
  BY <1>1, <1>3
<1> HIDE DEF before
<1>5. AmountsIn(wtx', S \cup {id}) = before + wtx'[id].amount
  BY <1>4
<1>. QED  BY <1>4, <1>5 DEF before

\* The part of an amount that an entry on account x moves on account a.
Share(a, x, amount) == IF x = a THEN amount ELSE 0

\* A row that becomes completed moves its amount once, on its two accounts.
LEMMA MovementGrows ==
  ASSUME LedgerTypeOK, NEW id \in TxIds, NEW t \in WalletTransactions,
         ~ Completed(id), t.status = "COMPLETED", wtx'[id] = t,
         \A i \in TxIds : i # id => wtx'[i] = wtx[i],
         NEW a \in Accounts
  PROVE  /\ Movement(a)' = Movement(a) + Share(a, t.credit, t.amount)
                                       - Share(a, t.debit, t.amount)
         /\ Movement(a) \in Int
<1>1. t.amount \in Int /\ t # NULL
  BY TransactionFields
<1>2. Completed(id)' /\ \A i \in TxIds : i # id => (Completed(i)' <=> Completed(i))
  BY <1>1 DEF Completed
<1>3. /\ Credits(a) \in SUBSET TxIds /\ id \notin Credits(a)
      /\ Debits(a) \in SUBSET TxIds /\ id \notin Debits(a)
      /\ Credits(a)' = IF t.credit = a THEN Credits(a) \cup {id} ELSE Credits(a)
      /\ Debits(a)' = IF t.debit = a THEN Debits(a) \cup {id} ELSE Debits(a)
  BY <1>2 DEF Credits, Debits
<1>4. /\ \A i \in Credits(a) : wtx[i] # NULL /\ wtx'[i].amount = wtx[i].amount
      /\ \A i \in Debits(a) : wtx[i] # NULL /\ wtx'[i].amount = wtx[i].amount
  BY DEF Credits, Debits, Completed
<1>5. /\ AmountsIn(wtx', Credits(a)') = AmountsIn(wtx, Credits(a)) + Share(a, t.credit, t.amount)
      /\ AmountsIn(wtx, Credits(a)) \in Int
  <2>1. CASE t.credit = a
    BY <1>1, <1>3, <1>4, <2>1, SumGrows DEF Share
  <2>2. CASE t.credit # a
    <3>1. /\ AmountsIn(wtx', Credits(a)) = AmountsIn(wtx, Credits(a))
          /\ AmountsIn(wtx, Credits(a)) \in Int
      BY <1>3, <1>4, SumKept
    <3>. QED  BY <1>3, <2>2, <3>1 DEF Share
  <2>. QED  BY <2>1, <2>2
<1>6. /\ AmountsIn(wtx', Debits(a)') = AmountsIn(wtx, Debits(a)) + Share(a, t.debit, t.amount)
      /\ AmountsIn(wtx, Debits(a)) \in Int
  <2>1. CASE t.debit = a
    BY <1>1, <1>3, <1>4, <2>1, SumGrows DEF Share
  <2>2. CASE t.debit # a
    <3>1. /\ AmountsIn(wtx', Debits(a)) = AmountsIn(wtx, Debits(a))
          /\ AmountsIn(wtx, Debits(a)) \in Int
      BY <1>3, <1>4, SumKept
    <3>. QED  BY <1>3, <2>2, <3>1 DEF Share
  <2>. QED  BY <2>1, <2>2
<1>7. Share(a, t.credit, t.amount) \in Int /\ Share(a, t.debit, t.amount) \in Int
  BY <1>1 DEF Share
<1>. QED  BY <1>5, <1>6, <1>7, LedgerSums

\* Rows whose completion and contents stay as they are move nothing.
LEMMA MovementKept ==
  ASSUME LedgerTypeOK, NEW a \in Accounts,
         \A i \in TxIds : /\ Completed(i)' <=> Completed(i)
                          /\ Completed(i) => wtx'[i] = wtx[i]
  PROVE  Movement(a)' = Movement(a)
<1>1. Credits(a) \in SUBSET TxIds /\ Debits(a) \in SUBSET TxIds
  BY DEF Credits, Debits
<1>2. Credits(a)' = Credits(a)
  BY DEF Credits, Completed
<1>3. Debits(a)' = Debits(a)
  BY DEF Debits, Completed
<1>4. /\ \A i \in Credits(a) : wtx[i] # NULL /\ wtx'[i].amount = wtx[i].amount
      /\ \A i \in Debits(a) : wtx[i] # NULL /\ wtx'[i].amount = wtx[i].amount
  BY DEF Credits, Debits, Completed
<1>. QED  BY <1>1, <1>2, <1>3, <1>4, SumKept, LedgerSums

\* The trigger books both entries: balances follow the movements.
LEMMA EntriesBooked ==
  ASSUME LedgerTypeOK, BalancesMatchLedger,
         NEW id \in TxIds, NEW t \in WalletTransactions,
         ~ Completed(id), wtx'[id].status = "COMPLETED", wtx'[id] \in WalletTransactions,
         /\ wtx'[id].amount = t.amount /\ wtx'[id].debit = t.debit
         /\ wtx'[id].credit = t.credit,
         \A i \in TxIds : i # id => wtx'[i] = wtx[i],
         ApplyEntries(t)
  PROVE  BalancesMatchLedger'
<1>1. t.amount \in Int /\ t.debit \in Accounts /\ t.credit \in Accounts
  BY TransactionFields
<1>2. SUFFICES ASSUME NEW a \in Accounts
               PROVE  balance'[a] = Opening[a] + Movement(a)'
  BY DEF BalancesMatchLedger
<1>3. balance'[a] = balance[a] + Share(a, t.credit, t.amount) - Share(a, t.debit, t.amount)
  BY <1>1 DEF ApplyEntries, LedgerTypeOK, Share
<1>4. /\ Movement(a)' = Movement(a) + Share(a, t.credit, t.amount)
                                    - Share(a, t.debit, t.amount)
      /\ Movement(a) \in Int
  BY MovementGrows
<1>5. balance[a] = Opening[a] + Movement(a) /\ Opening[a] \in Int
  BY OpeningAssumption DEF BalancesMatchLedger
<1>6. Share(a, t.credit, t.amount) \in Int /\ Share(a, t.debit, t.amount) \in Int
  BY <1>1 DEF Share
<1>. QED  BY <1>3, <1>4, <1>5, <1>6

\* Before the first transaction nothing has moved.
LEMMA BalancesInit ==
  ASSUME LedgerInit
  PROVE  BalancesMatchLedger
<1>1. \A a : Credits(a) = {} /\ Debits(a) = {}
  BY DEF LedgerInit, Credits, Debits, Completed
<1>2. \A a : Movement(a) = 0 - 0
  BY <1>1, AmountsNone, LedgerSums
<1>3. \A a \in Accounts : balance[a] = Opening[a] /\ Opening[a] \in Int
  BY OpeningAssumption DEF LedgerInit
<1>. QED  BY <1>2, <1>3 DEF BalancesMatchLedger

\* Every operation moves balances by exactly what it completes.
LEMMA BalancesPreserved ==
  ASSUME LedgerTypeOK, BalancesMatchLedger, [LedgerNext]_ledgerVars
  PROVE  BalancesMatchLedger'
<1>. LedgerStep
  BY LedgerSteps
<1>1. ASSUME NEW id \in TxIds, NEW t \in WalletTransactions, t.status = "COMPLETED",
             Post(id, t)
      PROVE  BalancesMatchLedger'
  <2>1. /\ wtx[id] = NULL /\ ApplyEntries(t) /\ wtx'[id] = t
        /\ \A i \in TxIds : i # id => wtx'[i] = wtx[i]
    BY <1>1, PostFacts DEF LedgerTypeOK
  <2>2. ~ Completed(id)
    BY <2>1 DEF Completed
  <2>. QED  BY <1>1, <2>1, <2>2, EntriesBooked
<1>2. ASSUME NEW id \in TxIds, CompleteTopup(id)
      PROVE  BalancesMatchLedger'
  <2>1. /\ wtx[id] \in WalletTransactions /\ wtx[id].status = "PENDING"
        /\ ApplyEntries(wtx[id])
        /\ wtx' = [wtx EXCEPT ![id].status = "COMPLETED"]
    BY <1>2 DEF CompleteTopup, LedgerTypeOK
  <2>2. wtx'[id] = [wtx[id] EXCEPT !.status = "COMPLETED"]
        /\ \A i \in TxIds : i # id => wtx'[i] = wtx[i]
    BY <2>1 DEF LedgerTypeOK
  <2>3. /\ wtx'[id] \in WalletTransactions
        /\ wtx'[id].status = "COMPLETED"
        /\ wtx'[id].amount = wtx[id].amount
        /\ wtx'[id].debit = wtx[id].debit
        /\ wtx'[id].credit = wtx[id].credit
    BY <2>1, <2>2 DEF WalletTransactions
  <2>4. ~ Completed(id)
    BY <2>1 DEF Completed
  <2>5. PICK t \in WalletTransactions : t = wtx[id]
    BY <2>1
  <2>. QED  BY <2>1, <2>2, <2>3, <2>4, <2>5, EntriesBooked
<1>3. ASSUME UNCHANGED balance,
             \A i \in TxIds : /\ Completed(i)' <=> Completed(i)
                              /\ Completed(i) => wtx'[i] = wtx[i]
      PROVE  BalancesMatchLedger'
  BY <1>3, MovementKept DEF BalancesMatchLedger
<1>4. ASSUME NEW id \in TxIds, NEW t \in WalletTransactions, t.status = "PENDING",
             wtx[id] = NULL, wtx' = [wtx EXCEPT ![id] = t], UNCHANGED balance
      PROVE  BalancesMatchLedger'
  <2>1. \A i \in TxIds : wtx'[i] = IF i = id THEN t ELSE wtx[i]
    BY <1>4 DEF LedgerTypeOK
  <2>2. ~ Completed(id) /\ ~ Completed(id)'
    BY <1>4, <2>1 DEF Completed
  <2>. QED  BY <1>3, <1>4, <2>1, <2>2 DEF Completed
<1>5. ASSUME NEW id \in TxIds, FailTopup(id)
      PROVE  BalancesMatchLedger'
  <2>1. /\ wtx[id] \in WalletTransactions /\ wtx[id].status = "PENDING"
        /\ wtx' = [wtx EXCEPT ![id].status = "FAILED"] /\ UNCHANGED balance
    BY <1>5 DEF FailTopup, LedgerTypeOK
  <2>2. /\ wtx'[id] = [wtx[id] EXCEPT !.status = "FAILED"]
        /\ \A i \in TxIds : i # id => wtx'[i] = wtx[i]
    BY <2>1 DEF LedgerTypeOK
  <2>3. wtx'[id].status = "FAILED"
    BY <2>1, <2>2 DEF WalletTransactions
  <2>4. ~ Completed(id) /\ ~ Completed(id)'
    BY <2>1, <2>3 DEF Completed
  <2>. QED  BY <1>3, <2>1, <2>2, <2>4 DEF Completed
<1>6. CASE UNCHANGED <<wtx, balance>>
  BY <1>3, <1>6 DEF Completed
<1>. QED
  BY <1>1, <1>2, <1>4, <1>5, <1>6
  DEF LedgerStep, ChangeSettings, SwitchWallet, SwitchBranch, SetProfile, Tick, ledgerVars

\* The balance projection is the opening balance plus the completed entries,
\* for every number of wallets and transactions.
THEOREM BalancesProjected == LedgerSpec => []BalancesMatchLedger
<1>1. LedgerInit => BalancesMatchLedger
  BY BalancesInit
<1>2. LedgerTypeOK /\ BalancesMatchLedger /\ [LedgerNext]_ledgerVars
        => BalancesMatchLedger'
  BY BalancesPreserved
<1>. QED  BY <1>1, <1>2, LedgerTyping, PTL DEF LedgerSpec

-----------------------------------------------------------------------------
(* Refunds. *)

\* A refund is posted for a row of the ledger.
RefundsLinked ==
  \A i \in TxIds : wtx[i] # NULL /\ wtx[i].type = "REFUND" => wtx[i].linked \in TxIds

RefundInvariant == LedgerTypeOK /\ RefundsLinked /\ RefundsWithinSpend

\* A posted refund stays within what is left of its spend.
LEMMA RefundEligible ==
  ASSUME LedgerTypeOK, NEW id \in TxIds, NEW t \in WalletTransactions, Post(id, t),
         t.type = "REFUND"
  PROVE  ~ (t.amount > Remaining(t.linked))
<1>1. PostingResult(t) = "POSTED"
  BY DEF Post
<1>2. Eligibility(t) = RefundEligibility(t)
  BY DEF Eligibility
<1>3. RefundEligibility(t) # "POSTED"
  BY DEF RefundEligibility
<1>4. RefundEligibility(t) = "ELIGIBLE"
  BY <1>1, <1>2, <1>3 DEF PostingResult
<1>. QED  BY <1>4 DEF RefundEligibility

\* The refunds of one spend after a step that leaves the others alone.
LEMMA RefundedAfter ==
  ASSUME LedgerTypeOK, NEW id \in TxIds, NEW t \in WalletTransactions,
         ~ Completed(id), wtx'[id] = t, t.status = "COMPLETED",
         \A i \in TxIds : i # id => wtx'[i] = wtx[i],
         NEW spend
  PROVE  /\ Refunded(spend)' = Refunded(spend)
              + IF t.type = "REFUND" /\ t.linked = spend THEN t.amount ELSE 0
         /\ Refunded(spend) \in Int
<1>1. t.amount \in Int /\ t # NULL
  BY TransactionFields
<1>2. Completed(id)' /\ \A i \in TxIds : i # id => (Completed(i)' <=> Completed(i))
  BY <1>1 DEF Completed
<1>3. /\ Refunds(spend) \in SUBSET TxIds /\ id \notin Refunds(spend)
      /\ Refunds(spend)' = IF t.type = "REFUND" /\ t.linked = spend
                           THEN Refunds(spend) \cup {id} ELSE Refunds(spend)
  BY <1>2 DEF Refunds
<1>4. \A i \in Refunds(spend) : wtx[i] # NULL /\ wtx'[i].amount = wtx[i].amount
  BY DEF Refunds, Completed
<1>5. CASE t.type = "REFUND" /\ t.linked = spend
  <2>1. /\ AmountsIn(wtx', Refunds(spend) \cup {id}) = AmountsIn(wtx, Refunds(spend)) + t.amount
        /\ AmountsIn(wtx, Refunds(spend)) \in Int
    BY <1>1, <1>3, <1>4, SumGrows
  <2>. QED  BY <1>3, <1>5, <2>1, LedgerSums
<1>6. CASE ~ (t.type = "REFUND" /\ t.linked = spend)
  <2>1. /\ AmountsIn(wtx', Refunds(spend)) = AmountsIn(wtx, Refunds(spend))
        /\ AmountsIn(wtx, Refunds(spend)) \in Int
    BY <1>3, <1>4, SumKept
  <2>. QED  BY <1>3, <1>6, <2>1, LedgerSums
<1>. QED  BY <1>5, <1>6

\* Completing a row that is no refund, or one that fits, keeps refunds in line.
LEMMA RefundsAfter ==
  ASSUME RefundInvariant, NEW id \in TxIds, NEW t \in WalletTransactions,
         ~ Completed(id), wtx'[id] = t, t.status = "COMPLETED",
         \A i \in TxIds : i # id => wtx'[i] = wtx[i],
         t.type = "REFUND" =>
           /\ t.linked \in TxIds /\ IsSpend(t.linked)
           /\ t = RefundPosting(t.linked, t.amount, t.key)
           /\ ~ (t.amount > Remaining(t.linked))
  PROVE  (RefundsLinked /\ RefundsWithinSpend)'
<1>. LedgerTypeOK
  BY DEF RefundInvariant
<1>1. t.amount \in Nat /\ t # NULL
  BY TransactionFields
<1>2. \A i \in TxIds : Completed(i) => i # id /\ wtx'[i] = wtx[i] /\ Completed(i)'
  BY DEF Completed
<1>3. RefundsLinked'
  BY DEF RefundsLinked, RefundInvariant
<1>4. ASSUME NEW spend \in TxIds, IsSpend(spend), Refunded(spend) <= wtx[spend].amount,
             t.type = "REFUND" /\ t.linked = spend => ~ (t.amount > Remaining(spend))
      PROVE  IsSpend(spend)' /\ Refunded(spend)' <= wtx'[spend].amount
  <2>1. IsSpend(spend)' /\ wtx'[spend].amount = wtx[spend].amount
    BY <1>2, <1>4 DEF IsSpend
  <2>2. wtx[spend].amount \in Int
    BY <1>4, RowAmounts DEF IsSpend, Completed
  <2>3. /\ Refunded(spend)' = Refunded(spend)
              + IF t.type = "REFUND" /\ t.linked = spend THEN t.amount ELSE 0
        /\ Refunded(spend) \in Int
    BY RefundedAfter
  <2>. QED  BY <1>1, <1>4, <2>1, <2>2, <2>3 DEF Remaining
<1>5. ASSUME NEW i \in TxIds, NEW spend, Completed(i)', wtx'[i].type = "REFUND",
             spend = wtx'[i].linked
      PROVE  /\ IsSpend(spend)'
             /\ wtx'[i].debit = wtx'[spend].credit
             /\ wtx'[i].credit = wtx'[spend].debit
             /\ wtx'[i].branch = wtx'[spend].branch
             /\ Refunded(spend)' <= wtx'[spend].amount
  <2>1. CASE i = id
    <3>1. /\ t.type = "REFUND" /\ t.linked = spend /\ spend \in TxIds /\ IsSpend(spend)
          /\ t = RefundPosting(spend, t.amount, t.key)
          /\ ~ (t.amount > Remaining(spend))
      BY <1>5, <2>1
    <3>2. /\ t.debit = wtx[spend].credit /\ t.credit = wtx[spend].debit
          /\ t.branch = wtx[spend].branch
      BY <3>1 DEF RefundPosting
    <3>3. wtx'[spend] = wtx[spend]
      BY <1>2, <3>1 DEF IsSpend
    <3>4. Refunded(spend) \in Int /\ wtx[spend].amount \in Int
      BY <3>1, RefundedAfter, RowAmounts DEF IsSpend, Completed
    <3>5. Refunded(spend) <= wtx[spend].amount
      BY <1>1, <3>1, <3>4 DEF Remaining
    <3>6. IsSpend(spend)' /\ Refunded(spend)' <= wtx'[spend].amount
      BY <1>4, <3>1, <3>5
    <3>. QED  BY <2>1, <3>2, <3>3, <3>6
  <2>2. CASE i # id
    <3>1. wtx'[i] = wtx[i] /\ Completed(i) /\ wtx[i].type = "REFUND" /\ wtx[i].linked = spend
      BY <1>5, <2>2 DEF Completed
    <3>2. /\ spend \in TxIds /\ IsSpend(spend)
          /\ wtx[i].debit = wtx[spend].credit
          /\ wtx[i].credit = wtx[spend].debit
          /\ wtx[i].branch = wtx[spend].branch
          /\ Refunded(spend) <= wtx[spend].amount
      BY <3>1 DEF RefundInvariant, RefundsLinked, RefundsWithinSpend, Completed
    <3>3. wtx'[spend] = wtx[spend]
      BY <1>2, <3>2 DEF IsSpend
    <3>4. IsSpend(spend)' /\ Refunded(spend)' <= wtx'[spend].amount
      BY <1>4, <3>2
    <3>. QED  BY <3>1, <3>2, <3>3, <3>4
  <2>. QED  BY <2>1, <2>2
<1>. QED  BY <1>3, <1>5 DEF RefundsWithinSpend

\* Steps that complete nothing keep the refunds as they are.
LEMMA RefundsKept ==
  ASSUME RefundInvariant,
         \A i \in TxIds : /\ Completed(i)' <=> Completed(i)
                          /\ Completed(i) => wtx'[i] = wtx[i]
  PROVE  RefundsWithinSpend'
<1>. LedgerTypeOK
  BY DEF RefundInvariant
<1>1. ASSUME NEW i \in TxIds, NEW spend, Completed(i)', wtx'[i].type = "REFUND",
             spend = wtx'[i].linked
      PROVE  /\ IsSpend(spend)'
             /\ wtx'[i].debit = wtx'[spend].credit
             /\ wtx'[i].credit = wtx'[spend].debit
             /\ wtx'[i].branch = wtx'[spend].branch
             /\ Refunded(spend)' <= wtx'[spend].amount
  <2>1. wtx'[i] = wtx[i] /\ Completed(i)
    BY <1>1
  <2>2. /\ spend \in TxIds /\ IsSpend(spend)
        /\ wtx[i].debit = wtx[spend].credit
        /\ wtx[i].credit = wtx[spend].debit
        /\ wtx[i].branch = wtx[spend].branch
        /\ Refunded(spend) <= wtx[spend].amount
    BY <1>1, <2>1 DEF RefundInvariant, RefundsLinked, RefundsWithinSpend, Completed
  <2>3. wtx'[spend] = wtx[spend] /\ IsSpend(spend)'
    BY <2>2 DEF IsSpend
  <2>4. Refunds(spend)' = Refunds(spend) /\ Refunds(spend) \in SUBSET TxIds
    BY DEF Refunds
  <2>5. \A j \in Refunds(spend) : wtx[j] # NULL /\ wtx'[j].amount = wtx[j].amount
    BY DEF Refunds, Completed
  <2>6. Refunded(spend)' = Refunded(spend)
    BY <2>4, <2>5, SumKept, LedgerSums
  <2>. QED  BY <2>1, <2>2, <2>3, <2>6
<1>. QED  BY <1>1 DEF RefundsWithinSpend

\* Every operation keeps the completed refunds of a spend within its amount.
LEMMA RefundsPreserved ==
  ASSUME RefundInvariant, [LedgerNext]_ledgerVars
  PROVE  (RefundsLinked /\ RefundsWithinSpend)'
<1>. LedgerTypeOK /\ LedgerStep
  BY LedgerSteps DEF RefundInvariant
<1>1. ASSUME NEW id \in TxIds, NEW t \in WalletTransactions, t.status = "COMPLETED",
             t.type = "REFUND" =>
               \E spend \in TxIds : IsSpend(spend) /\ t = RefundPosting(spend, t.amount, t.key),
             Post(id, t)
      PROVE  (RefundsLinked /\ RefundsWithinSpend)'
  <2>1. /\ wtx[id] = NULL /\ wtx'[id] = t
        /\ \A i \in TxIds : i # id => wtx'[i] = wtx[i]
    BY <1>1, PostFacts DEF LedgerTypeOK
  <2>2. ~ Completed(id)
    BY <2>1 DEF Completed
  <2>3. ASSUME t.type = "REFUND"
        PROVE  /\ t.linked \in TxIds /\ IsSpend(t.linked)
               /\ t = RefundPosting(t.linked, t.amount, t.key)
               /\ ~ (t.amount > Remaining(t.linked))
    <3>1. PICK spend \in TxIds : IsSpend(spend) /\ t = RefundPosting(spend, t.amount, t.key)
      BY <1>1, <2>3
    <3>2. t.linked = spend
      BY <3>1 DEF RefundPosting
    <3>. QED  BY <1>1, <2>3, <3>1, <3>2, RefundEligible
  <2>. QED  BY <1>1, <2>1, <2>2, <2>3, RefundsAfter
<1>2. ASSUME NEW id \in TxIds, CompleteTopup(id)
      PROVE  (RefundsLinked /\ RefundsWithinSpend)'
  <2>1. /\ wtx[id] \in WalletTransactions /\ wtx[id].status = "PENDING"
        /\ wtx[id].type \in TopupTypes
        /\ wtx' = [wtx EXCEPT ![id].status = "COMPLETED"]
    BY <1>2 DEF CompleteTopup, LedgerTypeOK
  <2>2. /\ wtx'[id] = [wtx[id] EXCEPT !.status = "COMPLETED"]
        /\ \A i \in TxIds : i # id => wtx'[i] = wtx[i]
    BY <2>1 DEF LedgerTypeOK
  <2>3. PICK t \in WalletTransactions : t = [wtx[id] EXCEPT !.status = "COMPLETED"]
    BY <2>1 DEF WalletTransactions
  <2>4. t.status = "COMPLETED" /\ t.type # "REFUND"
    BY <2>1, <2>3 DEF WalletTransactions, TopupTypes
  <2>5. ~ Completed(id)
    BY <2>1 DEF Completed
  <2>. QED  BY <2>2, <2>3, <2>4, <2>5, RefundsAfter
<1>3. ASSUME NEW id \in TxIds, NEW t \in WalletTransactions, t.status = "PENDING",
             t.type \in TopupTypes, wtx[id] = NULL, wtx' = [wtx EXCEPT ![id] = t]
      PROVE  (RefundsLinked /\ RefundsWithinSpend)'
  <2>1. \A i \in TxIds : wtx'[i] = IF i = id THEN t ELSE wtx[i]
    BY <1>3 DEF LedgerTypeOK
  <2>2. ~ Completed(id) /\ ~ Completed(id)'
    BY <1>3, <2>1 DEF Completed
  <2>3. RefundsLinked'
    BY <1>3, <2>1 DEF RefundInvariant, RefundsLinked, TopupTypes
  <2>. QED  BY <2>1, <2>2, <2>3, RefundsKept DEF Completed
<1>4. ASSUME NEW id \in TxIds, FailTopup(id)
      PROVE  (RefundsLinked /\ RefundsWithinSpend)'
  <2>1. /\ wtx[id] \in WalletTransactions /\ wtx[id].status = "PENDING"
        /\ wtx[id].type \in TopupTypes
        /\ wtx' = [wtx EXCEPT ![id].status = "FAILED"]
    BY <1>4 DEF FailTopup, LedgerTypeOK
  <2>2. /\ wtx'[id] = [wtx[id] EXCEPT !.status = "FAILED"]
        /\ \A i \in TxIds : i # id => wtx'[i] = wtx[i]
    BY <2>1 DEF LedgerTypeOK
  <2>3. wtx'[id].status = "FAILED" /\ wtx'[id].type # "REFUND"
    BY <2>1, <2>2 DEF WalletTransactions, TopupTypes
  <2>4. ~ Completed(id) /\ ~ Completed(id)'
    BY <2>1, <2>3 DEF Completed
  <2>5. RefundsLinked'
    BY <2>2, <2>3 DEF RefundInvariant, RefundsLinked
  <2>. QED  BY <2>2, <2>4, <2>5, RefundsKept DEF Completed
<1>5. CASE UNCHANGED wtx
  <2>1. RefundsLinked'
    BY <1>5 DEF RefundInvariant, RefundsLinked
  <2>. QED  BY <1>5, <2>1, RefundsKept DEF Completed
<1>. QED
  BY <1>1, <1>2, <1>3, <1>4, <1>5
  DEF LedgerStep, ChangeSettings, SwitchWallet, SwitchBranch, SetProfile, Tick, ledgerVars

\* R1: the completed refunds of a spend never exceed it, whatever number of
\* partial refunds interleave.
THEOREM RefundsBounded == LedgerSpec => []RefundsWithinSpend
<1>1. LedgerInit => RefundInvariant
  BY TypingInit DEF RefundInvariant, RefundsLinked, RefundsWithinSpend, LedgerInit, Completed
<1>2. RefundInvariant /\ [LedgerNext]_ledgerVars => RefundInvariant'
  BY TypingStep, RefundsPreserved DEF RefundInvariant
<1>3. RefundInvariant => RefundsWithinSpend
  BY DEF RefundInvariant
<1>. QED  BY <1>1, <1>2, <1>3, PTL DEF LedgerSpec

=============================================================================
