-------------------------- MODULE CategoryCaps_proofs --------------------------
(***************************************************************************)
(* The types of CategoryCaps, and its two caps where categories are not    *)
(* deleted.  A claim beyond draft is within the cap of its category: what  *)
(* is compared by the write at the end is what was compared with the cap,  *)
(* and that the copy in hand passed is the part of the invariant that      *)
(* carries it over the edits in between.  A month is within its cap where  *)
(* claims are not edited while they are submitted: what counts is what is  *)
(* filed and what has passed the sum and is about to be, and the sum that  *)
(* lets one more claim join had all the others in it, as drafts at least.  *)
(***************************************************************************)
EXTENDS CategoryCaps, Sums

\* A submit past the caps of a category that is there holds a draft within.
Passed(l) ==
    l.pc # "idle" =>
        /\ l.claim \in Claims
        /\ l.seen.approval = "draft"
        /\ l.pc \in {"sum", "mark"} =>
             Within(l.seen.amount_total, CapPerClaim[l.seen.category])

IInv ==
    /\ TypeOK
    /\ offered = Categories
    /\ \A k \in Calls : Passed(call[k])
    /\ WithinClaimCap

-----------------------------------------------------------------------------

\* Types, of every behaviour, categories that are deleted included: a submit
\* in flight holds a draft.
Typed == TypeOK /\ \A k \in Calls :
            call[k].pc # "idle" => /\ call[k].claim \in Claims
                                   /\ call[k].seen.approval = "draft"

LEMMA TypesKept == Typed /\ [Next]_vars => Typed'
<1> SUFFICES ASSUME Typed, [Next]_vars  PROVE Typed'
  OBVIOUS
<1> USE DEF Typed, TypeOK, Submit
<1>1. ASSUME NEW c \in Claims, Create(c) \/ Update(c) \/ Decide(c)
      PROVE  Typed'
  <2>1. UNCHANGED <<offered, call, edits>>
    BY <1>1 DEF Create, Update, Decide
  <2>2. claim' \in [Claims -> Claim]
    <3>1. PICK n \in Claim : claim' = [claim EXCEPT ![c] = n]
      <4>1. CASE Create(c)
        BY <4>1 DEF Create, Claim
      <4>2. CASE Update(c)
        <5>1. claim[c] \in Claim /\ claim[c] # Absent
          BY <4>2 DEF Update, Absent
        <5>2. PICK g \in Categories, a \in Amounts :
                claim' = [claim EXCEPT ![c].category = g, ![c].amount_total = a]
          BY <4>2, <5>1 DEF Update, Claim
        <5>3. [claim[c] EXCEPT !.category = g, !.amount_total = a] \in Claim
          BY <5>1 DEF Claim
        <5> QED  BY <5>2, <5>3
      <4>3. CASE Decide(c)
        <5>1. claim[c] \in Claim /\ claim[c] # Absent
          BY <4>3 DEF Decide, Absent
        <5>2. PICK v \in {"approved", "refused"} :
                claim' = [claim EXCEPT ![c].approval = v]
          BY <4>3 DEF Decide
        <5>3. [claim[c] EXCEPT !.approval = v] \in Claim
          BY <5>1 DEF Claim
        <5> QED  BY <5>2, <5>3
      <4> QED  BY <1>1, <4>1, <4>2, <4>3
    <3> QED  BY <3>1
  <2> QED  BY <2>1, <2>2
<1>2. ASSUME NEW g \in Categories, DeleteCategory(g) \/ RestoreCategory(g)
      PROVE  Typed'
  BY <1>2 DEF DeleteCategory, RestoreCategory
<1>3. ASSUME NEW k \in Calls, NEW c \in Claims, SubmitRead(k, c)
      PROVE  Typed'
  BY <1>3 DEF SubmitRead
<1>4. ASSUME NEW k \in Calls, SubmitCaps(k)
      PROVE  Typed'
  <2>1. CapPerMonth[call[k].seen.category] \in Nat \cup {Null}
        \/ call[k].seen.category \notin offered
    BY CapsOK
  <2> QED  BY <1>4, <2>1 DEF SubmitCaps
<1>5. ASSUME NEW k \in Calls, SubmitSum(k)
      PROVE  Typed'
  BY <1>5 DEF SubmitSum
<1>6. ASSUME NEW k \in Calls, SubmitMark(k)
      PROVE  Typed'
  <2>1. claim' \in [Claims -> Claim]
    <3> DEFINE c == call[k].claim
    <3>1. CASE claim[c] = call[k].seen /\ claim[c] # Absent
      <4>1. c \in Claims /\ claim[c] \in Claim
        BY <1>6 DEF SubmitMark
      <4>2. [claim[c] EXCEPT !.approval = "submitted"] \in Claim
        BY <3>1, <4>1 DEF Claim
      <4> QED  BY <1>6, <3>1, <4>2 DEF SubmitMark
    <3>2. CASE claim[c] # call[k].seen
      BY <1>6, <3>2 DEF SubmitMark
    <3>3. call[k].seen # Absent
      BY <1>6 DEF SubmitMark, Absent
    <3> QED  BY <3>1, <3>2, <3>3
  <2>2. Idle \in Submit
    BY DEF Idle, Claim
  <2> QED  BY <1>6, <2>1, <2>2 DEF SubmitMark, Idle
<1>7. ASSUME NEW k \in Calls, SubmitFails(k)
      PROVE  Typed'
  <2>1. Idle \in Submit
    BY DEF Idle, Claim
  <2> QED  BY <1>7, <2>1 DEF SubmitFails, Idle
<1>8. CASE UNCHANGED vars
  BY <1>8 DEF vars
<1> QED
  BY <1>1, <1>2, <1>3, <1>4, <1>5, <1>6, <1>7, <1>8 DEF Next

LEMMA TypesInitially == Init => Typed
  BY DEF Init, Typed, TypeOK, Submit, Idle, Claim, Absent

\* The claims, the categories and the submits in flight have their types.
THEOREM TypeCorrect == Spec => []TypeOK
<1>1. Typed => TypeOK
  BY DEF Typed
<1> QED  BY <1>1, TypesInitially, TypesKept, PTL DEF Spec

-----------------------------------------------------------------------------

LEMMA CapKept ==
    ASSUME CategoriesDeletable = FALSE, IInv, [Next]_vars
    PROVE  IInv'
<1>1. TypeOK'
  BY TypesKept DEF IInv, Typed, Passed
<1>2. offered' = Categories
  BY DEF IInv, Next, Create, Update, Decide, DeleteCategory,
         RestoreCategory, SubmitRead, SubmitCaps, SubmitSum, SubmitMark,
         SubmitFails, vars
<1>3. (\A k \in Calls : Passed(call[k]))'
  <2>1. ASSUME NEW k \in Calls, NEW c \in Claims, SubmitRead(k, c)
        PROVE  \A j \in Calls : Passed(call'[j])
    BY <2>1 DEF SubmitRead, IInv, TypeOK, Passed
  <2>2. ASSUME NEW k \in Calls, SubmitCaps(k) \/ SubmitSum(k)
        PROVE  \A j \in Calls : Passed(call'[j])
    <3>1. call[k] \in Submit /\ Passed(call[k])
      BY DEF IInv, TypeOK
    <3>2. call[k].pc \in {"caps", "sum"} /\ call[k].seen.approval = "draft"
      BY <2>2, <3>1 DEF SubmitCaps, SubmitSum, Passed
    <3>3. call[k].seen.category \in offered
      BY <3>1, <3>2 DEF IInv, Submit, Claim, Absent
    <3>4. \A j \in Calls \ {k} : call'[j] = call[j]
      BY <2>2 DEF SubmitCaps, SubmitSum, IInv, TypeOK
    <3>5. /\ call'[k].claim = call[k].claim /\ call'[k].seen = call[k].seen
          /\ Within(call[k].seen.amount_total,
                    CapPerClaim[call[k].seen.category])
      BY <2>2, <3>1, <3>3 DEF SubmitCaps, SubmitSum, IInv, TypeOK, Submit, Passed
    <3> QED  BY <3>1, <3>2, <3>4, <3>5 DEF IInv, Passed
  <2>3. ASSUME NEW k \in Calls, SubmitMark(k) \/ SubmitFails(k)
        PROVE  \A j \in Calls : Passed(call'[j])
    BY <2>3 DEF SubmitMark, SubmitFails, Idle, IInv, TypeOK, Passed
  <2>4. CASE call' = call
    BY <2>4 DEF IInv
  <2> QED
    BY <2>1, <2>2, <2>3, <2>4
    DEF Next, Create, Update, Decide, DeleteCategory, RestoreCategory, vars
<1>4. WithinClaimCap'
  <2>1. ASSUME NEW c \in Claims, Create(c) \/ Update(c) \/ Decide(c)
        PROVE  WithinClaimCap'
    <3>1. claim'[c].approval \in {"draft", "refused"}
          \/ /\ claim[c].approval = "submitted"
             /\ claim'[c].category = claim[c].category
             /\ claim'[c].amount_total = claim[c].amount_total
      <4>1. claim \in [Claims -> Claim]
        BY DEF IInv, TypeOK
      <4>2. CASE Create(c)
        BY <4>1, <4>2 DEF Create
      <4>3. CASE Update(c)
        BY <4>1, <4>3 DEF Update, Claim, Absent
      <4>4. CASE Decide(c)
        BY <4>1, <4>4 DEF Decide, Claim, Absent
      <4> QED  BY <2>1, <4>2, <4>3, <4>4
    <3>2. \A d \in Claims \ {c} : claim'[d] = claim[d]
      BY <2>1 DEF Create, Update, Decide, IInv, TypeOK
    <3> QED  BY <3>1, <3>2 DEF IInv, WithinClaimCap, Filed
  <2>2. ASSUME NEW k \in Calls, SubmitMark(k)
        PROVE  WithinClaimCap'
    <3> DEFINE c == call[k].claim
    <3>1. c \in Claims
          /\ Within(call[k].seen.amount_total, CapPerClaim[call[k].seen.category])
      BY <2>2 DEF SubmitMark, IInv, Passed
    <3>2. CASE claim[c] = call[k].seen
      <4>1. /\ claim'[c].category = claim[c].category
            /\ claim'[c].amount_total = claim[c].amount_total
        BY <2>2, <3>1, <3>2 DEF SubmitMark, IInv, TypeOK, Claim, Absent
      <4>2. \A d \in Claims \ {c} : claim'[d] = claim[d]
        BY <2>2, <3>1, <3>2 DEF SubmitMark, IInv, TypeOK
      <4> QED  BY <3>1, <3>2, <4>1, <4>2 DEF IInv, WithinClaimCap
    <3>3. CASE claim[c] # call[k].seen
      BY <2>2, <3>3 DEF SubmitMark, IInv, WithinClaimCap
    <3> QED  BY <3>2, <3>3
  <2>3. CASE claim' = claim
    BY <2>3 DEF IInv, WithinClaimCap
  <2> QED
    BY <2>1, <2>2, <2>3
    DEF Next, DeleteCategory, RestoreCategory, SubmitRead, SubmitCaps,
        SubmitSum, SubmitFails, vars
<1> QED  BY <1>1, <1>2, <1>3, <1>4 DEF IInv

LEMMA CapInitially == Init => IInv
<1> SUFFICES ASSUME Init  PROVE IInv
  OBVIOUS
<1>1. TypeOK
  BY TypesInitially DEF Typed
<1>2. \A k \in Calls : Passed(call[k])
  BY DEF Init, Passed, Idle
<1>3. WithinClaimCap
  BY DEF Init, WithinClaimCap, Filed, Absent
<1> QED  BY <1>1, <1>2, <1>3 DEF Init, IInv

\* A claim beyond draft is within its category's cap per claim, however its
\* submits race with each other and with edits, if categories stay.
THEOREM ClaimCap == CategoriesDeletable = FALSE => (Spec => []WithinClaimCap)
<1> SUFFICES ASSUME CategoriesDeletable = FALSE
             PROVE  Spec => []WithinClaimCap
  OBVIOUS
<1>1. Init => IInv
  BY CapInitially
<1>2. IInv /\ [Next]_vars => IInv'
  BY CapKept
<1>3. IInv => WithinClaimCap
  BY DEF IInv
<1> QED  BY <1>1, <1>2, <1>3, PTL DEF Spec

-----------------------------------------------------------------------------
(* The monthly cap.                                                        *)

\* A submit in flight on a claim that is left alone holds what is there.
Agrees(l) ==
    l.pc # "idle" =>
        /\ claim[l.claim].approval # "absent"
        /\ claim[l.claim].approval = "draft" => claim[l.claim] = l.seen
        /\ l.pc = "sum" => l.per_month = CapPerMonth[l.seen.category]

\* What counts against the month for good: what is filed, and what has passed
\* and is about to be.
Committed(g) ==
    {c \in Claims :
       /\ claim[c].category = g
       /\ \/ claim[c].approval \in Filed
          \/ /\ claim[c].approval = "draft"
             /\ \E k \in Calls : call[k].claim = c /\ call[k].pc = "mark"}

MonthInv ==
    ~edits =>
        /\ \A k \in Calls : Agrees(call[k])
        /\ \A g \in Categories :
             Within(SumOf(Committed(g)), CapPerMonth[g])

AmountIn(t) == [c \in Claims |-> t[c].amount_total]

\* The sum of a set of claims is one of a function on all of them.
LEMMA SumOfIs ==
    ASSUME NEW S \in SUBSET Claims
    PROVE  /\ SumOf(S) = SumFunctionOnSet(AmountIn(claim), S)
           /\ SumOf(S)' = SumFunctionOnSet(AmountIn(claim'), S)
<1> DEFINE f(t) == [c \in S |-> t[c].amount_total]
<1>1. SumOf(S) = SumFunctionOnSet(f(claim), S)
  BY DEF SumOf, SumFunction
<1>2. SumOf(S)' = SumFunctionOnSet(f(claim'), S)
  BY DEF SumOf, SumFunction
<1>3. IsFiniteSet(S)
  BY ClaimsFinite, FS_Subset
<1>4. ASSUME NEW t  PROVE \A c \in S : f(t)[c] = AmountIn(t)[c]
  BY DEF AmountIn
<1> HIDE DEF f
<1>5. ASSUME NEW t
      PROVE  SumFunctionOnSet(f(t), S) = SumFunctionOnSet(AmountIn(t), S)
  BY <1>3, <1>4, SumCongruent
<1> QED BY <1>1, <1>2, <1>5

\* Fewer claims, or as many, of the same amounts stay within a cap.
LEMMA FewerFit ==
    ASSUME NEW S \in SUBSET Claims, NEW T \in SUBSET S,
           \A c \in S : claim[c].amount_total \in Nat,
           \A c \in T : claim'[c].amount_total = claim[c].amount_total
    PROVE  SumOf(T)' <= SumOf(S)
<1> DEFINE f == AmountIn(claim)
           h == AmountIn(claim')
<1>1. T \in SUBSET Claims /\ IsFiniteSet(S) /\ IsFiniteSet(T)
  BY ClaimsFinite, FS_Subset
<1>2. SumOf(S) = SumFunctionOnSet(f, S) /\ SumOf(T)' = SumFunctionOnSet(h, T)
  BY <1>1, SumOfIs
<1>3. (\A c \in S : f[c] \in Nat) /\ \A c \in T : f[c] = h[c]
  BY DEF AmountIn
<1> HIDE DEF f, h
<1>4. SumFunctionOnSet(f, T) <= SumFunctionOnSet(f, S)
  BY <1>1, <1>3, SumMonotonic
<1>5. SumFunctionOnSet(f, T) = SumFunctionOnSet(h, T)
  BY <1>1, <1>3, SumCongruent
<1> QED BY <1>2, <1>4, <1>5

LEMMA AmountsThere ==
    ASSUME TypeOK, NEW c \in Claims, claim[c].approval # "absent"
    PROVE  claim[c].amount_total \in Nat /\ claim[c].category \in Categories
<1>1. claim[c] \in Claim /\ claim[c] # Absent
  BY DEF TypeOK, Absent
<1> QED BY <1>1, AmountsOK DEF Claim
\* A step that lets no claim in, and changes the amount of none that is in,
\* keeps every category within its cap.
LEMMA NoneJoins ==
    ASSUME TypeOK, NEW g \in Categories,
           Within(SumOf(Committed(g)), CapPerMonth[g]),
           Committed(g)' \subseteq Committed(g),
           \A c \in Committed(g)' :
               claim'[c].amount_total = claim[c].amount_total
    PROVE  Within(SumOf(Committed(g)), CapPerMonth[g])'
<1> DEFINE S == Committed(g)
           T == Committed(g)'
<1>1. S \in SUBSET Claims /\ T \in SUBSET S
  BY DEF Committed
<1>2. \A c \in S : claim[c].amount_total \in Nat
  <2>1. \A c \in S : c \in Claims /\ claim[c].approval # "absent"
    BY DEF Committed, Filed
  <2> QED BY <2>1, AmountsThere
<1>3. \A c \in T : claim'[c].amount_total = claim[c].amount_total
  OBVIOUS
<1>4. SumOf(S) \in Int /\ SumOf(Committed(g))' \in Int
  <2>1. IsFiniteSet(S) /\ IsFiniteSet(T)
    BY <1>1, ClaimsFinite, FS_Subset
  <2>2. \A c \in T : claim'[c].amount_total \in Nat
    BY <1>1, <1>2, <1>3
  <2>3. /\ \A c \in S : AmountIn(claim)[c] \in Int
        /\ \A c \in T : AmountIn(claim')[c] \in Int
    BY <1>1, <1>2, <2>2 DEF AmountIn
  <2>4. /\ SumFunctionOnSet(AmountIn(claim), S) \in Int
        /\ SumFunctionOnSet(AmountIn(claim'), T) \in Int
    <3> HIDE DEF S, T
    <3> QED BY <2>1, <2>3, SumInt
  <2> QED BY <1>1, <2>4, SumOfIs
<1>5. SumOf(Committed(g))' <= SumOf(S)
  BY <1>1, <1>2, <1>3, FewerFit
<1>6. CapPerMonth[g] # Null => CapPerMonth[g] \in Int
  BY CapsOK
<1>7. CapPerMonth[g] # Null => SumOf(S) <= CapPerMonth[g]
  BY DEF Within
<1> HIDE DEF S
<1>8. CapPerMonth[g] # Null => SumOf(Committed(g))' <= CapPerMonth[g]
  BY <1>4, <1>5, <1>6, <1>7
<1> QED BY <1>8 DEF Within

\* A submit that passes the sum joins what counts, within the cap: the sum
\* had all the drafts in it.
LEMMA OneJoins ==
    ASSUME TypeOK, \A k \in Calls : Passed(call[k]), \A k \in Calls : Agrees(call[k]),
           NEW k \in Calls, SubmitSum(k), NEW g \in Categories,
           Within(SumOf(Committed(g)), CapPerMonth[g])
    PROVE  Within(SumOf(Committed(g)), CapPerMonth[g])'
<1> DEFINE c == call[k].claim
           seen == call[k].seen
           Others == {o \in Claims \ {c} :
                        /\ claim[o].category = g
                        /\ claim[o].approval \in {"draft", "submitted", "approved"}}
           T == Committed(g)'
<1>1. /\ claim' = claim
      /\ call[k].pc = "sum" /\ call'[k].pc = "mark" /\ call'[k].claim = c
      /\ \A j \in Calls \ {k} : call'[j] = call[j]
      /\ Within(Spent(c, seen.category) + seen.amount_total, call[k].per_month)
  BY DEF SubmitSum, TypeOK, Submit
<1>2. /\ c \in Claims
      /\ claim[c].approval # "absent"
      /\ claim[c].approval = "draft" => claim[c] = seen
      /\ call[k].per_month = CapPerMonth[seen.category]
  BY <1>1 DEF Passed, Agrees
<1>3. T \subseteq Committed(g) \cup {c}
  BY <1>1 DEF Committed
<1>4. CASE c \notin T \/ c \in Committed(g)
  <2>1. T \subseteq Committed(g)
    BY <1>3, <1>4
  <2> QED BY <2>1, <1>1, NoneJoins
<1>5. CASE c \in T /\ c \notin Committed(g)
  <2>1. claim[c].category = g /\ claim[c].approval = "draft"
    BY <1>1, <1>5 DEF Committed
  <2>2. seen.category = g /\ seen.amount_total = claim[c].amount_total
    BY <1>2, <2>1
  <2>3. Spent(c, g) = SumOf(Others)
    BY DEF Spent
  <2>4. T \subseteq Others \cup {c} /\ Others \in SUBSET Claims /\ c \notin Others
    BY <1>1 DEF Committed, Filed
  <2>5. IsFiniteSet(Others) /\ Others \cup {c} \in SUBSET Claims
    BY <1>2, <2>4, ClaimsFinite, FS_Subset
  <2>6. \A o \in Others \cup {c} : claim[o].amount_total \in Nat
    BY <1>2, AmountsThere
  <2>7. SumOf(Others \cup {c}) = claim[c].amount_total + SumOf(Others)
    <3> DEFINE f == AmountIn(claim)
    <3>1. \A o \in Others \cup {c} : f[o] = claim[o].amount_total
      BY <2>5 DEF AmountIn
    <3>2. /\ SumOf(Others \cup {c}) = SumFunctionOnSet(f, Others \cup {c})
          /\ SumOf(Others) = SumFunctionOnSet(f, Others)
      <4> HIDE DEF Others
      <4> QED BY <2>4, <2>5, SumOfIs
    <3>3. SumFunctionOnSet(f, Others \cup {c})
            = f[c] + SumFunctionOnSet(f, Others)
      <4> HIDE DEF Others, f
      <4> QED BY <2>4, <2>5, <2>6, <3>1, SumAdd
    <3> QED BY <3>1, <3>2, <3>3
  <2>8. SumOf(Committed(g))' <= SumOf(Others \cup {c})
    <3> HIDE DEF Others
    <3> QED BY <1>1, <2>4, <2>5, <2>6, FewerFit
  <2>9. SumOf(Others) \in Int /\ SumOf(Committed(g))' \in Int
    <3>1. IsFiniteSet(T)
      BY <2>4, <2>5, FS_Subset, ClaimsFinite
    <3>2. \A o \in T : AmountIn(claim')[o] \in Int
      BY <1>1, <2>4, <2>5, <2>6 DEF AmountIn
    <3>3. \A o \in Others : AmountIn(claim)[o] \in Int
      BY <2>4, <2>6 DEF AmountIn
    <3>4. /\ SumFunctionOnSet(AmountIn(claim), Others) \in Int
          /\ SumFunctionOnSet(AmountIn(claim'), T) \in Int
      <4> HIDE DEF Others, T
      <4> QED BY <2>5, <3>1, <3>2, <3>3, SumInt
    <3>5. T \in SUBSET Claims
      BY DEF Committed
    <3> HIDE DEF Others
    <3> QED BY <2>4, <3>4, <3>5, SumOfIs
  <2>10. claim[c].amount_total \in Nat
    BY <2>6
  <2>11. Within(SumOf(Others) + claim[c].amount_total, CapPerMonth[g])
    BY <1>1, <1>2, <2>2, <2>3
  <2> HIDE DEF Others, c, seen
  <2>12. CapPerMonth[g] # Null =>
           /\ CapPerMonth[g] \in Int
           /\ SumOf(Others) + claim[c].amount_total <= CapPerMonth[g]
    BY <2>11, CapsOK DEF Within
  <2>13. CapPerMonth[g] # Null => SumOf(Committed(g))' <= CapPerMonth[g]
    BY <2>7, <2>8, <2>9, <2>10, <2>12
  <2> QED BY <2>13 DEF Within
<1> QED BY <1>4, <1>5

\* What is in hand agrees with a claim that nobody edits meanwhile.
LEMMA AgreesKept ==
    ASSUME IInv, ~edits, \A k \in Calls : Agrees(call[k]), [Next]_vars
    PROVE  (\A k \in Calls : Agrees(call[k]))'
<1> USE DEF IInv, TypeOK
<1>1. ASSUME NEW c \in Claims, Create(c) \/ Update(c) \/ Decide(c)
      PROVE  \A k \in Calls : Agrees(call[k])'
  <2> SUFFICES ASSUME NEW k \in Calls, call[k].pc # "idle"
               PROVE  Agrees(call[k])'
    BY <1>1 DEF Agrees, Create, Update, Decide
  <2>1. call' = call /\ \A d \in Claims \ {c} : claim'[d] = claim[d]
    BY <1>1 DEF Create, Update, Decide
  <2>2. call[k].claim \in Claims /\ Agrees(call[k])
    BY DEF Passed
  <2>3. CASE call[k].claim # c
    BY <2>1, <2>2, <2>3 DEF Agrees
  <2>4. CASE call[k].claim = c
    <3>1. claim[c].approval # "absent"
      BY <2>2, <2>4 DEF Agrees
    <3>2. Decide(c)
      BY <1>1, <2>4, <3>1 DEF Create, Update, BeingSubmitted
    <3>3. claim'[c].approval \in {"approved", "refused"}
      <4>1. claim[c] \in Claim /\ claim[c] # Absent
        BY <3>1 DEF Absent
      <4>2. PICK v \in {"approved", "refused"} :
              claim' = [claim EXCEPT ![c].approval = v]
        BY <3>2 DEF Decide
      <4>3. claim'[c].approval = v
        BY <4>1, <4>2 DEF Claim
      <4> QED BY <4>3
    <3> QED BY <2>1, <2>2, <2>4, <3>3 DEF Agrees
  <2> QED BY <2>3, <2>4
<1>2. ASSUME NEW k \in Calls, NEW c \in Claims, SubmitRead(k, c)
      PROVE  \A j \in Calls : Agrees(call[j])'
  BY <1>2 DEF SubmitRead, Agrees
<1>3. ASSUME NEW k \in Calls, SubmitCaps(k) \/ SubmitSum(k)
      PROVE  \A j \in Calls : Agrees(call[j])'
  <2>1. claim' = claim /\ \A j \in Calls \ {k} : call'[j] = call[j]
    BY <1>3 DEF SubmitCaps, SubmitSum
  <2>2. /\ call[k].pc \in {"caps", "sum"}
        /\ call'[k].claim = call[k].claim /\ call'[k].seen = call[k].seen
        /\ call'[k].pc = "sum" =>
             call'[k].per_month = CapPerMonth[call[k].seen.category]
    BY <1>3 DEF SubmitCaps, SubmitSum, Submit
  <2>3. Agrees(call[k])'
    BY <2>1, <2>2 DEF Agrees
  <2> QED BY <2>1, <2>3 DEF Agrees
<1>4. ASSUME NEW k \in Calls, SubmitMark(k)
      PROVE  \A j \in Calls : Agrees(call[j])'
  <2> DEFINE c == call[k].claim
  <2>1. c \in Claims /\ call[k].seen.approval = "draft"
    BY <1>4 DEF SubmitMark, Passed
  <2>2. \/ claim' = claim
        \/ /\ claim'[c].approval = "submitted"
           /\ \A d \in Claims \ {c} : claim'[d] = claim[d]
    <3>1. CASE claim[c] = call[k].seen
      <4>1. claim[c] \in Claim /\ claim[c] # Absent
        BY <2>1, <3>1 DEF Absent
      <4> QED BY <1>4, <2>1, <3>1, <4>1 DEF SubmitMark, Claim
    <3> QED BY <1>4, <3>1 DEF SubmitMark
  <2>3. /\ call'[k] = Idle
        /\ \A j \in Calls \ {k} : call'[j] = call[j]
    BY <1>4 DEF SubmitMark
  <2>4. \A j \in Calls \ {k} : Agrees(call[j])'
    <3> SUFFICES ASSUME NEW j \in Calls \ {k}, call[j].pc # "idle"
                 PROVE  Agrees(call[j])'
      BY <2>3 DEF Agrees
    <3>1. call[j].claim \in Claims /\ Agrees(call[j])
      BY DEF Passed
    <3> HIDE DEF c
    <3> QED BY <2>1, <2>2, <2>3, <3>1 DEF Agrees
  <2>5. Agrees(call[k])'
    BY <2>3 DEF Agrees, Idle
  <2> QED BY <2>4, <2>5
<1>5. ASSUME NEW k \in Calls, SubmitFails(k)
      PROVE  \A j \in Calls : Agrees(call[j])'
  BY <1>5 DEF SubmitFails, Agrees, Idle
<1>6. CASE claim' = claim /\ call' = call
  BY <1>6 DEF Agrees
<1> QED
  BY <1>1, <1>2, <1>3, <1>4, <1>5, <1>6
  DEF Next, DeleteCategory, RestoreCategory, vars

LEMMA MonthKept ==
    ASSUME CategoriesDeletable = FALSE, IInv, IInv', MonthInv, [Next]_vars
    PROVE  MonthInv'
<1> SUFFICES ASSUME ~edits
             PROVE  /\ (\A k \in Calls : Agrees(call[k]))'
                    /\ \A g \in Categories :
                         Within(SumOf(Committed(g)), CapPerMonth[g])'
  <2>1. edits' = edits
    BY DEF Next, Create, Update, Decide, DeleteCategory, RestoreCategory,
           SubmitRead, SubmitCaps, SubmitSum, SubmitMark, SubmitFails, vars
  <2> QED BY <2>1 DEF MonthInv
<1>1. (\A k \in Calls : Agrees(call[k]))'
  BY AgreesKept DEF MonthInv
<1>2. ASSUME NEW g \in Categories
      PROVE  Within(SumOf(Committed(g)), CapPerMonth[g])'
  <2>1. /\ TypeOK /\ \A k \in Calls : Passed(call[k])
        /\ \A k \in Calls : Agrees(call[k])
        /\ Within(SumOf(Committed(g)), CapPerMonth[g])
    BY DEF IInv, MonthInv
  <2>2. CASE \E k \in Calls : SubmitSum(k)
    BY <2>1, <2>2, OneJoins
  <2>3. ASSUME ~\E k \in Calls : SubmitSum(k)
        PROVE  /\ Committed(g)' \subseteq Committed(g)
               /\ \A c \in Committed(g)' :
                    claim'[c].amount_total = claim[c].amount_total
    <3> USE <2>1 DEF TypeOK
    <3>1. ASSUME NEW c \in Claims, Create(c) \/ Update(c)
          PROVE  /\ Committed(g)' \subseteq Committed(g)
                 /\ c \notin Committed(g)'
      <4>1. call' = call /\ \A d \in Claims \ {c} : claim'[d] = claim[d]
        BY <3>1 DEF Create, Update
      <4>2. claim'[c].approval = "draft"
        <5>1. CASE Create(c)
          BY <5>1 DEF Create
        <5>2. CASE Update(c)
          BY <5>2 DEF Update, Claim, Absent
        <5> QED BY <3>1, <5>1, <5>2
      <4>3. ~\E k \in Calls : call[k].claim = c /\ call[k].pc = "mark"
        BY <3>1 DEF Create, Update, BeingSubmitted, Agrees
      <4> QED BY <4>1, <4>2, <4>3 DEF Committed, Filed
    <3>2. ASSUME NEW c \in Claims, Decide(c)
          PROVE  /\ call' = call /\ claim[c].approval = "submitted"
                 /\ \A d \in Claims \ {c} : claim'[d] = claim[d]
                 /\ claim'[c].category = claim[c].category
                 /\ claim'[c].amount_total = claim[c].amount_total
      BY <3>2 DEF Decide, Claim, Absent
    <3>3. ASSUME NEW k \in Calls, SubmitMark(k)
          PROVE  /\ Committed(g)' \subseteq Committed(g)
                 /\ \A d \in Claims :
                      claim'[d].amount_total = claim[d].amount_total
      <4> DEFINE c == call[k].claim
      <4>1. c \in Claims /\ call[k].seen.approval = "draft"
        BY <3>3 DEF SubmitMark, Passed
      <4>2. /\ call'[k] = Idle /\ call[k].pc = "mark"
            /\ \A j \in Calls \ {k} : call'[j] = call[j]
        BY <3>3 DEF SubmitMark
      <4>3. CASE claim[c] = call[k].seen
        <5>1. claim[c] \in Claim /\ claim[c] # Absent
          BY <4>1, <4>3 DEF Absent
        <5>2. /\ \A d \in Claims \ {c} : claim'[d] = claim[d]
              /\ claim'[c].category = claim[c].category
              /\ claim'[c].amount_total = claim[c].amount_total
          BY <3>3, <4>1, <4>3, <5>1 DEF SubmitMark, Claim
        <5> QED BY <4>1, <4>2, <4>3, <5>2 DEF Committed, Idle
      <4>4. CASE claim[c] # call[k].seen
        <5>1. claim' = claim
          BY <3>3, <4>4 DEF SubmitMark
        <5> QED BY <5>1, <4>2 DEF Committed, Idle
      <4> QED BY <4>3, <4>4
    <3>4. ASSUME NEW k \in Calls,
                 \/ \E c \in Claims : SubmitRead(k, c)
                 \/ SubmitCaps(k) \/ SubmitFails(k)
          PROVE  claim' = claim /\ Committed(g)' \subseteq Committed(g)
      <4>1. claim' = claim /\ \A j \in Calls \ {k} : call'[j] = call[j]
        BY <3>4 DEF SubmitRead, SubmitCaps, SubmitFails
      <4>2. call'[k].pc # "mark"
        <5>1. CASE SubmitCaps(k)
          <6>1. call[k].seen.category \in offered
            BY <5>1 DEF SubmitCaps, IInv, Passed, Submit, Claim, Absent
          <6> QED BY <5>1, <6>1 DEF SubmitCaps, Submit
        <5> QED BY <3>4, <5>1 DEF SubmitRead, SubmitFails, Idle
      <4> QED BY <4>1, <4>2 DEF Committed
    <3>5. CASE claim' = claim /\ call' = call
      BY <3>5 DEF Committed
    <3>6. ASSUME NEW c \in Claims, Create(c) \/ Update(c)
          PROVE  \A d \in Claims \ {c} : claim'[d] = claim[d]
      BY <3>6 DEF Create, Update
    <3>7. ASSUME NEW c \in Claims, Decide(c)
          PROVE  /\ Committed(g)' \subseteq Committed(g)
                 /\ \A d \in Claims :
                      claim'[d].amount_total = claim[d].amount_total
      BY <3>2, <3>7 DEF Committed, Filed
    <3>8. Committed(g)' \in SUBSET Claims
      BY DEF Committed
    <3> QED
      BY <2>3, <3>1, <3>3, <3>4, <3>5, <3>6, <3>7, <3>8
      DEF Next, DeleteCategory, RestoreCategory, vars
  <2> QED BY <2>1, <2>2, <2>3, NoneJoins
<1> QED BY <1>1, <1>2

\* What is submitted and not refused of a month stays within the category's
\* monthly cap, however many submits race, if claims are left alone while they
\* are being submitted and categories stay.
THEOREM MonthCap == CategoriesDeletable = FALSE => (Spec => []WithinMonthCap)
<1> SUFFICES ASSUME CategoriesDeletable = FALSE
             PROVE  Spec => []WithinMonthCap
  OBVIOUS
<1>1. Init => IInv /\ MonthInv
  <2> SUFFICES ASSUME Init  PROVE IInv /\ MonthInv
    OBVIOUS
  <2>1. IInv
    BY CapInitially
  <2>2. ASSUME NEW g \in Categories
        PROVE  Within(SumOf(Committed(g)), CapPerMonth[g])
    <3>1. Committed(g) = {}
      BY DEF Init, Committed, Filed, Absent
    <3>2. SumOf(Committed(g)) = 0
      <4>1. SumOf({}) = SumFunctionOnSet(AmountIn(claim), {})
        BY SumOfIs
      <4> QED BY <3>1, <4>1, SumEmpty
    <3> QED BY <3>2, CapsOK DEF Within
  <2>3. \A k \in Calls : Agrees(call[k])
    BY DEF Init, Agrees, Idle
  <2> QED BY <2>1, <2>2, <2>3 DEF MonthInv
<1>2. IInv /\ MonthInv /\ [Next]_vars => (IInv /\ MonthInv)'
  BY CapKept, MonthKept
<1>3. IInv /\ MonthInv => WithinMonthCap
  <2> DEFINE FiledIn(g) == {c \in Claims : /\ claim[c].category = g
                                           /\ claim[c].approval \in Filed}
             f == AmountIn(claim)
  <2> SUFFICES ASSUME IInv, MonthInv, ~edits, NEW g \in Categories
               PROVE  Within(SumOf(FiledIn(g)), CapPerMonth[g])
    BY DEF WithinMonthCap
  <2>1. FiledIn(g) \in SUBSET Committed(g) /\ Committed(g) \in SUBSET Claims
    BY DEF Committed
  <2>2. IsFiniteSet(Committed(g)) /\ IsFiniteSet(FiledIn(g))
    BY <2>1, ClaimsFinite, FS_Subset
  <2>3. \A c \in Committed(g) : f[c] \in Nat
    <3>1. \A c \in Committed(g) : c \in Claims /\ claim[c].approval # "absent"
      BY DEF Committed, Filed
    <3> QED BY <3>1, AmountsThere DEF IInv, AmountIn
  <2>4. /\ SumOf(Committed(g)) = SumFunctionOnSet(f, Committed(g))
        /\ SumOf(FiledIn(g)) = SumFunctionOnSet(f, FiledIn(g))
    <3> HIDE DEF FiledIn, f
    <3> QED BY <2>1, SumOfIs DEF f
  <2>5. CapPerMonth[g] # Null =>
          CapPerMonth[g] \in Int /\ SumOf(Committed(g)) <= CapPerMonth[g]
    BY CapsOK DEF MonthInv, Within
  <2> HIDE DEF FiledIn, f
  <2>6. SumFunctionOnSet(f, FiledIn(g)) <= SumFunctionOnSet(f, Committed(g))
    BY <2>1, <2>2, <2>3, SumMonotonic
  <2>7. /\ SumFunctionOnSet(f, FiledIn(g)) \in Int
        /\ SumFunctionOnSet(f, Committed(g)) \in Int
    BY <2>1, <2>2, <2>3, SumInt
  <2>8. CapPerMonth[g] # Null => SumOf(FiledIn(g)) <= CapPerMonth[g]
    BY <2>4, <2>5, <2>6, <2>7
  <2> QED BY <2>8 DEF Within
<1> QED BY <1>1, <1>2, <1>3, PTL DEF Spec
===============================================================================
