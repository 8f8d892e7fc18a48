---------------------------- MODULE AgentsProofs ----------------------------
(***************************************************************************)
(* Theorems about the test framework's agents, for any number of failures, *)
(* workers, commands, signatures and bug numbers, and any failures and     *)
(* commands that a test or a tester can give.                              *)
(***************************************************************************)
EXTENDS MCTestAgents, FiniteSetTheorems, TLAPS

-----------------------------------------------------------------------------
(* The rules of a diagnosis (AgentRules), and what follows from a class.   *)

\* What comes from the first of two sequences joined, and from the second.
LEMMA FromFirst ==
  ASSUME NEW S, NEW s \in Seq(S), NEW t \in Seq(S), NEW i \in 1..Len(s)
  PROVE  (s \o t)[i] = s[i]
OBVIOUS
LEMMA FromSecond ==
  ASSUME NEW S, NEW s \in Seq(S), NEW t \in Seq(S), NEW i \in 1..Len(t)
  PROVE  (s \o t)[Len(s) + i] = t[i]
<1>1. Len(s) + i \in (Len(s) + 1)..(Len(s) + Len(t))  OBVIOUS
<1>2. (s \o t)[Len(s) + i] = t[(Len(s) + i) - Len(s)]  BY <1>1
<1>3. (Len(s) + i) - Len(s) = i  OBVIOUS
<1> QED  BY <1>2, <1>3

\* Three sequences of four, four and five.
Long(s, n) == Len(s) = n
LEMMA LongTwo ==
  ASSUME NEW S, NEW A \in Seq(S), NEW B \in Seq(S), NEW m \in Nat, NEW n \in Nat, Long(A, m), Long(B, n)
  PROVE  A \o B \in Seq(S) /\ Long(A \o B, m + n)
<1>1. A \o B \in Seq(S)  OBVIOUS
<1>2. Len(A \o B) = Len(A) + Len(B)  OBVIOUS
<1>3. Len(A) = m /\ Len(B) = n  BY DEF Long
<1> QED  BY <1>1, <1>2, <1>3, Zenon DEF Long
LEMMA FirstOfTwo ==
  ASSUME NEW S, NEW A \in Seq(S), NEW B \in Seq(S), NEW m \in Nat, Long(A, m), NEW i \in 1..m
  PROVE  (A \o B)[i] = A[i]
<1>1. i \in 1..Len(A)  BY DEF Long
<1> QED  BY <1>1, FromFirst
LEMMA AfterFour ==
  ASSUME NEW S, NEW A \in Seq(S), NEW B \in Seq(S), Long(A, 4), NEW i \in 1..Len(B)
  PROVE  (A \o B)[4 + i] = B[i]
<1>1. (A \o B)[Len(A) + i] = B[i]  BY FromSecond
<1>2. Len(A) = 4  BY DEF Long
<1> QED  BY <1>1, <1>2, Zenon
LEMMA AfterEight ==
  ASSUME NEW S, NEW A \in Seq(S), NEW B \in Seq(S), Long(A, 8), NEW i \in 1..Len(B)
  PROVE  (A \o B)[8 + i] = B[i]
<1>1. (A \o B)[Len(A) + i] = B[i]  BY FromSecond
<1>2. Len(A) = 8  BY DEF Long
<1> QED  BY <1>1, <1>2, Zenon

LEMMA LongDomain ==
  ASSUME NEW S, NEW A \in Seq(S), NEW n \in Nat, Long(A, n)
  PROVE  DOMAIN A = 1..n
<1>1. DOMAIN A = 1..Len(A)  OBVIOUS
<1> QED  BY <1>1, Zenon DEF Long

LEMMA OfMore ==
  ASSUME NEW S, NEW T, NEW s \in Seq(S)  PROVE s \in Seq(S \cup T)
OBVIOUS
LEMMA OfFour ==
  ASSUME NEW S, NEW a \in S, NEW b \in S, NEW c \in S, NEW d \in S
  PROVE  <<a, b, c, d>> \in Seq(S) /\ Len(<<a, b, c, d>>) = 4
OBVIOUS
LEMMA OfFive ==
  ASSUME NEW S, NEW a \in S, NEW b \in S, NEW c \in S, NEW d \in S, NEW e \in S
  PROVE  <<a, b, c, d, e>> \in Seq(S) /\ Len(<<a, b, c, d, e>>) = 5
OBVIOUS

\* The rules in order, part by part.
LEMMA AccessRules ==
  /\ AccessAndPlaceRules[1].facts = {"401"} /\ AccessAndPlaceRules[1].words = {"sign-in words"} /\ AccessAndPlaceRules[1].category = "auth-or-session"
  /\ AccessAndPlaceRules[2].facts = {"403"} /\ AccessAndPlaceRules[2].words = {"denied words"} /\ AccessAndPlaceRules[2].category = "permissions-or-rbac"
  /\ AccessAndPlaceRules[3].facts = {"modal missing"} /\ AccessAndPlaceRules[3].words = {"modal words"} /\ AccessAndPlaceRules[3].category = "ui-modal-not-opened"
  /\ AccessAndPlaceRules[4].facts = {"wrong url"} /\ AccessAndPlaceRules[4].words = {"route words"} /\ AccessAndPlaceRules[4].category = "ui-route-or-navigation"
<1>1. AccessAndPlaceRules[1].facts = {"401"} /\ AccessAndPlaceRules[1].words = {"sign-in words"} /\ AccessAndPlaceRules[1].category = "auth-or-session"
  BY DEF AccessAndPlaceRules, Rule
<1>2. AccessAndPlaceRules[2].facts = {"403"} /\ AccessAndPlaceRules[2].words = {"denied words"} /\ AccessAndPlaceRules[2].category = "permissions-or-rbac"
  BY DEF AccessAndPlaceRules, Rule
<1>3. AccessAndPlaceRules[3].facts = {"modal missing"} /\ AccessAndPlaceRules[3].words = {"modal words"} /\ AccessAndPlaceRules[3].category = "ui-modal-not-opened"
  BY DEF AccessAndPlaceRules, Rule
<1>4. AccessAndPlaceRules[4].facts = {"wrong url"} /\ AccessAndPlaceRules[4].words = {"route words"} /\ AccessAndPlaceRules[4].category = "ui-route-or-navigation"
  BY DEF AccessAndPlaceRules, Rule
<1> QED  BY <1>1, <1>2, <1>3, <1>4
LEMMA AccessRulesInTurn == \E S : AccessAndPlaceRules \in Seq(S) /\ Long(AccessAndPlaceRules, 4)
<1> DEFINE A == AccessAndPlaceRules
<1>1. A = <<A[1], A[2], A[3], A[4]>>  BY DEF AccessAndPlaceRules
<1> HIDE DEF A
<1> DEFINE S == {A[1], A[2], A[3], A[4]}
<1>2. A[1] \in S /\ A[2] \in S /\ A[3] \in S /\ A[4] \in S  OBVIOUS
<1> HIDE DEF S
<1>3. <<A[1], A[2], A[3], A[4]>> \in Seq(S) /\ Len(<<A[1], A[2], A[3], A[4]>>) = 4  BY <1>2, OfFour
<1>4. A \in Seq(S) /\ Long(A, 4)  BY <1>1, <1>3 DEF Long
<1> QED  BY <1>4 DEF A

LEMMA ServerRules ==
  /\ ApiRules[1].facts = {"5xx timed out"} /\ ApiRules[1].category = "api-timeout"
  /\ ApiRules[2].facts = {"5xx typed"} /\ ApiRules[2].category = "api-contract-drift"
  /\ ApiRules[3].facts = {"5xx"} /\ ApiRules[3].category = "api-server-error"
  /\ ApiRules[4].facts = {"4xx"} /\ ApiRules[4].category = "api-client-error"
<1>1. ApiRules[1].facts = {"5xx timed out"} /\ ApiRules[1].category = "api-timeout"
  BY DEF ApiRules, Rule
<1>2. ApiRules[2].facts = {"5xx typed"} /\ ApiRules[2].category = "api-contract-drift"
  BY DEF ApiRules, Rule
<1>3. ApiRules[3].facts = {"5xx"} /\ ApiRules[3].category = "api-server-error"
  BY DEF ApiRules, Rule
<1>4. ApiRules[4].facts = {"4xx"} /\ ApiRules[4].category = "api-client-error"
  BY DEF ApiRules, Rule
<1> QED  BY <1>1, <1>2, <1>3, <1>4
LEMMA ServerRulesInTurn == \E S : ApiRules \in Seq(S) /\ Long(ApiRules, 4)
<1> DEFINE A == ApiRules
<1>1. A = <<A[1], A[2], A[3], A[4]>>  BY DEF ApiRules
<1> HIDE DEF A
<1> DEFINE S == {A[1], A[2], A[3], A[4]}
<1>2. A[1] \in S /\ A[2] \in S /\ A[3] \in S /\ A[4] \in S  OBVIOUS
<1> HIDE DEF S
<1>3. <<A[1], A[2], A[3], A[4]>> \in Seq(S) /\ Len(<<A[1], A[2], A[3], A[4]>>) = 4  BY <1>2, OfFour
<1>4. A \in Seq(S) /\ Long(A, 4)  BY <1>1, <1>3 DEF Long
<1> QED  BY <1>4 DEF A

LEMMA PagesRules ==
  /\ PageRules[1].category = "ui-empty-state"
  /\ PageRules[2].category = "ui-delayed-data"
  /\ PageRules[3].category = "ui-contract-or-render"
  /\ PageRules[4].category = "ui-loading-or-network"
  /\ PageRules[5].category = "ui-missing-locator"
<1>1. PageRules[1].category = "ui-empty-state"
  BY DEF PageRules, Rule
<1>2. PageRules[2].category = "ui-delayed-data"
  BY DEF PageRules, Rule
<1>3. PageRules[3].category = "ui-contract-or-render"
  BY DEF PageRules, Rule
<1>4. PageRules[4].category = "ui-loading-or-network"
  BY DEF PageRules, Rule
<1>5. PageRules[5].category = "ui-missing-locator"
  BY DEF PageRules, Rule
<1> QED  BY <1>1, <1>2, <1>3, <1>4, <1>5
LEMMA PagesRulesInTurn == \E S : PageRules \in Seq(S) /\ Long(PageRules, 5)
<1> DEFINE A == PageRules
<1>1. A = <<A[1], A[2], A[3], A[4], A[5]>>  BY DEF PageRules
<1> HIDE DEF A
<1> DEFINE S == {A[1], A[2], A[3], A[4], A[5]}
<1>2. A[1] \in S /\ A[2] \in S /\ A[3] \in S /\ A[4] \in S /\ A[5] \in S  OBVIOUS
<1> HIDE DEF S
<1>3. <<A[1], A[2], A[3], A[4], A[5]>> \in Seq(S) /\ Len(<<A[1], A[2], A[3], A[4], A[5]>>) = 5  BY <1>2, OfFive
<1>4. A \in Seq(S) /\ Long(A, 5)  BY <1>1, <1>3 DEF Long
<1> QED  BY <1>4 DEF A

\* The thirteen rules, each with its class.
LEMMA RulesAre ==
  /\ DOMAIN Rules = 1..13
  /\ \A i \in 1..4 : Rules[i] = AccessAndPlaceRules[i]
  /\ \A i \in 1..4 : Rules[4 + i] = ApiRules[i]
  /\ \A i \in 1..5 : Rules[8 + i] = PageRules[i]
<1> DEFINE A == AccessAndPlaceRules  B == ApiRules  C == PageRules
<1>1. PICK S : A \in Seq(S) /\ Long(A, 4)  BY AccessRulesInTurn
<1>2. PICK T : B \in Seq(T) /\ Long(B, 4)  BY ServerRulesInTurn
<1>3. PICK U : C \in Seq(U) /\ Long(C, 5)  BY PagesRulesInTurn
<1>4. Rules = (A \o B) \o C  BY DEF Rules
<1> HIDE DEF A, B, C
<1> DEFINE all == S \cup T \cup U
<1>5. A \in Seq(all) /\ B \in Seq(all) /\ C \in Seq(all)
  <2>1. A \in Seq(S \cup (T \cup U))  BY <1>1, OfMore
  <2>2. B \in Seq(T \cup (S \cup U))  BY <1>2, OfMore
  <2>3. C \in Seq(U \cup (S \cup T))  BY <1>3, OfMore
  <2>4. /\ all = S \cup (T \cup U) /\ all = T \cup (S \cup U) /\ all = U \cup (S \cup T)  OBVIOUS
  <2> QED  BY <2>1, <2>2, <2>3, <2>4
<1> HIDE DEF all
<1>6. PICK D : D = A \o B  OBVIOUS
<1>7. D \in Seq(all) /\ Long(D, 8)
  <2>1. D \in Seq(all) /\ Long(D, 4 + 4)  BY <1>1, <1>2, <1>5, <1>6, LongTwo
  <2> QED  BY <2>1
<1>8. Rules \in Seq(all) /\ Long(Rules, 13)
  <2>1. Rules \in Seq(all) /\ Long(Rules, 8 + 5)  BY <1>3, <1>4, <1>5, <1>6, <1>7, LongTwo
  <2> QED  BY <2>1
<1>9. ASSUME NEW i \in 1..4  PROVE Rules[i] = A[i]
  <2>1. D[i] = A[i]  BY <1>1, <1>5, <1>6, FirstOfTwo
  <2>2. i \in 1..8  OBVIOUS
  <2>3. Rules[i] = D[i]  BY <1>4, <1>5, <1>6, <1>7, <2>2, FirstOfTwo
  <2> QED  BY <2>1, <2>3
<1>10. ASSUME NEW i \in 1..4  PROVE Rules[4 + i] = B[i]
  <2>0. i \in 1..Len(B)  BY <1>2, Zenon DEF Long
  <2>1. D[4 + i] = B[i]  BY <1>1, <1>5, <1>6, <2>0, AfterFour
  <2>2. 4 + i \in 1..8  OBVIOUS
  <2>3. Rules[4 + i] = D[4 + i]  BY <1>4, <1>5, <1>6, <1>7, <2>2, FirstOfTwo
  <2> QED  BY <2>1, <2>3
<1>11. ASSUME NEW i \in 1..5  PROVE Rules[8 + i] = C[i]
  <2>0. i \in 1..Len(C)  BY <1>3, Zenon DEF Long
  <2> QED  BY <1>3, <1>4, <1>5, <1>6, <1>7, <2>0, AfterEight
<1>12. DOMAIN Rules = 1..13  BY <1>8, LongDomain
<1> QED  BY <1>9, <1>10, <1>11, <1>12, Zenon DEF A, B, C

\* Only some of the rules lead to a class that may be mended.
LEMMA RuleClasses ==
  /\ \A i \in 1..13 : Rules[i].category \in Category
  /\ \A i \in {1, 2, 5, 6, 7, 8} : Rules[i].category \in Diagnosed
<1>1. \A i \in 1..4 : Rules[i].category \in Category
  <2>1. \A i \in 1..4 : AccessAndPlaceRules[i].category \in Category
    <3> SUFFICES ASSUME NEW i \in 1..4  PROVE AccessAndPlaceRules[i].category \in Category
      OBVIOUS
    <3>1. i \in {1, 2, 3, 4}  OBVIOUS
    <3> QED  BY <3>1, AccessRules DEF Category, Diagnosed, Mendable
  <2> QED  BY <2>1, RulesAre
<1>2. \A i \in 1..4 : ApiRules[i].category \in Diagnosed
  <2> SUFFICES ASSUME NEW i \in 1..4  PROVE ApiRules[i].category \in Diagnosed
    OBVIOUS
  <2>1. i \in {1, 2, 3, 4}  OBVIOUS
  <2> QED  BY <2>1, ServerRules DEF Diagnosed
<1>3. \A i \in 5..8 : Rules[i].category \in Diagnosed
  <2> SUFFICES ASSUME NEW i \in 5..8  PROVE Rules[i].category \in Diagnosed
    OBVIOUS
  <2>1. PICK k \in 1..4 : i = 4 + k
    <3>1. i - 4 \in 1..4 /\ i = 4 + (i - 4)  OBVIOUS
    <3> QED  BY <3>1
  <2>2. Rules[i] = ApiRules[k]  BY <2>1, RulesAre
  <2> QED  BY <2>2, <1>2
<1>4. \A i \in 9..13 : Rules[i].category \in Mendable
  <2>1. \A k \in 1..5 : PageRules[k].category \in Mendable
    <3> SUFFICES ASSUME NEW k \in 1..5  PROVE PageRules[k].category \in Mendable
      OBVIOUS
    <3>1. k \in {1, 2, 3, 4, 5}  OBVIOUS
    <3> QED  BY <3>1, PagesRules DEF Mendable
  <2> SUFFICES ASSUME NEW i \in 9..13  PROVE Rules[i].category \in Mendable
    OBVIOUS
  <2>2. PICK k \in 1..5 : i = 8 + k
    <3>1. i - 8 \in 1..5 /\ i = 8 + (i - 8)  OBVIOUS
    <3> QED  BY <3>1
  <2>3. Rules[i] = PageRules[k]  BY <2>2, RulesAre
  <2> QED  BY <2>1, <2>3
<1>5. Rules[1].category \in Diagnosed /\ Rules[2].category \in Diagnosed
  <2>1. Rules[1] = AccessAndPlaceRules[1] /\ Rules[2] = AccessAndPlaceRules[2]  BY RulesAre
  <2> QED  BY <2>1, AccessRules DEF Diagnosed
<1>6. \A i \in 1..13 : Rules[i].category \in Category
  <2> SUFFICES ASSUME NEW i \in 1..13  PROVE Rules[i].category \in Category
    OBVIOUS
  <2>1. i \in 1..4 \/ i \in 5..8 \/ i \in 9..13  OBVIOUS
  <2> QED  BY <2>1, <1>1, <1>3, <1>4 DEF Category
<1>7. \A i \in {5, 6, 7, 8} : Rules[i].category \in Diagnosed  BY <1>3
<1>8. \A i \in {1, 2, 5, 6, 7, 8} : i = 1 \/ i = 2 \/ i \in {5, 6, 7, 8}  OBVIOUS
<1> QED  BY <1>5, <1>6, <1>7, <1>8

Shows(i, signals) == (Rules[i].facts \cup Rules[i].words) \cap signals # {}

\* A rule matches when a fact or a word of it was seen.
LEMMA Matches ==
  ASSUME NEW signals
  PROVE  /\ Matching(signals) \subseteq 1..13
         /\ "401" \in signals \/ "sign-in words" \in signals => 1 \in Matching(signals)
         /\ "403" \in signals \/ "denied words" \in signals => 2 \in Matching(signals)
         /\ 3 \in Matching(signals) => "modal missing" \in signals \/ "modal words" \in signals
         /\ 4 \in Matching(signals) => "wrong url" \in signals \/ "route words" \in signals
         /\ "5xx timed out" \in signals => 5 \in Matching(signals)
         /\ "5xx typed" \in signals => 6 \in Matching(signals)
         /\ "5xx" \in signals => 7 \in Matching(signals)
         /\ "4xx" \in signals => 8 \in Matching(signals)
<1>1. \A i \in 1..13 : i \in Matching(signals) <=> Shows(i, signals)
  BY RulesAre DEF Matching, Shows
<1>2. Matching(signals) \subseteq 1..13
  BY RulesAre DEF Matching
<1>3. "401" \in signals \/ "sign-in words" \in signals => Shows(1, signals)
  <2>1. Rules[1] = AccessAndPlaceRules[1]  BY RulesAre
  <2>2. Rules[1].facts = {"401"} /\ Rules[1].words = {"sign-in words"}
    BY <2>1, AccessRules
  <2> QED  BY <2>2 DEF Shows
<1>4. "403" \in signals \/ "denied words" \in signals => Shows(2, signals)
  <2>1. Rules[2] = AccessAndPlaceRules[2]  BY RulesAre
  <2>2. Rules[2].facts = {"403"} /\ Rules[2].words = {"denied words"}
    BY <2>1, AccessRules
  <2> QED  BY <2>2 DEF Shows
<1>5. Shows(3, signals) => "modal missing" \in signals \/ "modal words" \in signals
  <2>1. Rules[3] = AccessAndPlaceRules[3]  BY RulesAre
  <2>2. Rules[3].facts = {"modal missing"} /\ Rules[3].words = {"modal words"}
    BY <2>1, AccessRules
  <2> QED  BY <2>2 DEF Shows
<1>6. Shows(4, signals) => "wrong url" \in signals \/ "route words" \in signals
  <2>1. Rules[4] = AccessAndPlaceRules[4]  BY RulesAre
  <2>2. Rules[4].facts = {"wrong url"} /\ Rules[4].words = {"route words"}
    BY <2>1, AccessRules
  <2> QED  BY <2>2 DEF Shows
<1>7. "5xx timed out" \in signals => Shows(5, signals)
  <2>1. Rules[5] = ApiRules[1]
    <3>1. Rules[4 + 1] = ApiRules[1]  BY RulesAre
    <3> QED  BY <3>1
  <2>2. Rules[5].facts = {"5xx timed out"}
    BY <2>1, ServerRules
  <2> QED  BY <2>2 DEF Shows
<1>8. "5xx typed" \in signals => Shows(6, signals)
  <2>1. Rules[6] = ApiRules[2]
    <3>1. Rules[4 + 2] = ApiRules[2]  BY RulesAre
    <3> QED  BY <3>1
  <2>2. Rules[6].facts = {"5xx typed"}
    BY <2>1, ServerRules
  <2> QED  BY <2>2 DEF Shows
<1>9. "5xx" \in signals => Shows(7, signals)
  <2>1. Rules[7] = ApiRules[3]
    <3>1. Rules[4 + 3] = ApiRules[3]  BY RulesAre
    <3> QED  BY <3>1
  <2>2. Rules[7].facts = {"5xx"}
    BY <2>1, ServerRules
  <2> QED  BY <2>2 DEF Shows
<1>10. "4xx" \in signals => Shows(8, signals)
  <2>1. Rules[8] = ApiRules[4]
    <3>1. Rules[4 + 4] = ApiRules[4]  BY RulesAre
    <3> QED  BY <3>1
  <2>2. Rules[8].facts = {"4xx"}
    BY <2>1, ServerRules
  <2> QED  BY <2>2 DEF Shows
<1> HIDE DEF Shows
<1>11. 1 \in Matching(signals) <=> Shows(1, signals)  BY <1>1
<1>12. 2 \in Matching(signals) <=> Shows(2, signals)  BY <1>1
<1>13. 3 \in Matching(signals) <=> Shows(3, signals)  BY <1>1
<1>14. 4 \in Matching(signals) <=> Shows(4, signals)  BY <1>1
<1>15. 5 \in Matching(signals) <=> Shows(5, signals)  BY <1>1
<1>16. 6 \in Matching(signals) <=> Shows(6, signals)  BY <1>1
<1>17. 7 \in Matching(signals) <=> Shows(7, signals)  BY <1>1
<1>18. 8 \in Matching(signals) <=> Shows(8, signals)  BY <1>1
<1> QED  BY <1>2, <1>3, <1>4, <1>5, <1>6, <1>7, <1>8, <1>9, <1>10,
            <1>11, <1>12, <1>13, <1>14, <1>15, <1>16, <1>17, <1>18

\* A set of such places has a first one.
LEMMA HasFirst ==
  ASSUME NEW T, T \subseteq 1..13, T # {}
  PROVE  \E k \in T : \A j \in T : k <= j
<1> DEFINE P(n) == \A k \in T : n < k
<1>1. P(0)  OBVIOUS
<1>2. ~ P(13)
  <2>1. PICK k \in T : k \in 1..13  OBVIOUS
  <2> QED  BY <2>1
<1>3. ASSUME NEW n \in 0..12, P(n), ~ P(n + 1)
      PROVE  \E k \in T : \A j \in T : k <= j
  <2>1. PICK k \in T : ~ (n + 1 < k)  BY <1>3
  <2>2. \A j \in T : n < j  BY <1>3
  <2>3. \A j \in T : k <= j  BY <2>1, <2>2
  <2> QED  BY <2>3
<1>4. SUFFICES ASSUME \A n \in 0..12 : P(n) => P(n + 1)  PROVE FALSE
  BY <1>3
<1> HIDE DEF P
<1>5. P(1) /\ P(2) /\ P(3) /\ P(4)
  <2>1. P(0 + 1)  BY <1>1, <1>4
  <2>2. P(1 + 1)  BY <2>1, <1>4
  <2>3. P(2 + 1)  BY <2>2, <1>4
  <2>4. P(3 + 1)  BY <2>3, <1>4
  <2> QED  BY <2>1, <2>2, <2>3, <2>4
<1>6. P(5) /\ P(6) /\ P(7) /\ P(8) /\ P(9)
  <2>1. P(4 + 1)  BY <1>5, <1>4
  <2>2. P(5 + 1)  BY <2>1, <1>4
  <2>3. P(6 + 1)  BY <2>2, <1>4
  <2>4. P(7 + 1)  BY <2>3, <1>4
  <2>5. P(8 + 1)  BY <2>4, <1>4
  <2> QED  BY <2>1, <2>2, <2>3, <2>4, <2>5
<1>7. P(13)
  <2>1. P(9 + 1)  BY <1>6, <1>4
  <2>2. P(10 + 1)  BY <2>1, <1>4
  <2>3. P(11 + 1)  BY <2>2, <1>4
  <2>4. P(12 + 1)  BY <2>3, <1>4
  <2> QED  BY <2>4
<1> QED  BY <1>2, <1>7

LEMMA First ==
  ASSUME NEW signals, Matching(signals) # {}
  PROVE  \E i \in Matching(signals) :
            /\ i \in 1..13 /\ \A j \in Matching(signals) : i <= j
            /\ Classify(signals).category = Rules[i].category
<1> DEFINE i == CHOOSE i \in Matching(signals) : \A j \in Matching(signals) : i <= j
<1>1. \E k \in Matching(signals) : \A j \in Matching(signals) : k <= j
  BY Matches, HasFirst
<1>2. i \in Matching(signals) /\ \A j \in Matching(signals) : i <= j  BY <1>1
<1>3. Classify(signals).category = Rules[i].category
  BY DEF Classify
<1>4. i \in 1..13  BY <1>2, Matches
<1> QED  BY <1>2, <1>3, <1>4

LEMMA Classes ==
  ASSUME NEW signals
  PROVE  Classify(signals).category \in Category
<1>1. CASE Matching(signals) = {}
  BY <1>1 DEF Classify, Unknown, Category, Diagnosed
<1>2. CASE Matching(signals) # {}
  BY <1>2, First, RuleClasses
<1> QED  BY <1>1, <1>2

LEMMA Apart == ASSUME NEW c \in Mendable  PROVE c \notin Diagnosed
BY DEF Mendable, Diagnosed

\* The first rule that matches is one of the first two.
LEMMA LeastIsFirst ==
  ASSUME NEW T, T \subseteq 1..13, 1 \in T \/ 2 \in T, NEW i \in T, \A j \in T : i <= j
  PROVE  i \in {1, 2}
OBVIOUS

SignedOut(signals) ==
  "401" \in signals \/ "403" \in signals \/ "sign-in words" \in signals \/ "denied words" \in signals
\* Who was signed out or refused is not mended.
LEMMA NotSignedOut ==
  ASSUME NEW signals, SignedOut(signals)
  PROVE  Classify(signals).category \in Diagnosed
<1>1. 1 \in Matching(signals) \/ 2 \in Matching(signals)  BY Matches DEF SignedOut
<1>2. Matching(signals) \subseteq 1..13  BY Matches
<1> HIDE DEF SignedOut
<1>3. PICK i \in Matching(signals) :
        /\ i \in 1..13 /\ \A j \in Matching(signals) : i <= j
        /\ Classify(signals).category = Rules[i].category
  BY <1>1, First
<1>4. i \in {1, 2}  BY <1>1, <1>2, <1>3, LeastIsFirst
<1> QED  BY <1>3, <1>4, RuleClasses

LEMMA LeastIsNoPlace ==
  ASSUME NEW T, T \subseteq 1..13, 5 \in T \/ 6 \in T \/ 7 \in T \/ 8 \in T, 3 \notin T, 4 \notin T,
         NEW i \in T, \A j \in T : i <= j
  PROVE  i \in {1, 2, 5, 6, 7, 8}
<1>1. i <= 8 /\ i \in 1..13 /\ i # 3 /\ i # 4  OBVIOUS
<1> QED  BY <1>1

ApiFailed(signals) ==
  "5xx" \in signals \/ "5xx typed" \in signals \/ "5xx timed out" \in signals \/ "4xx" \in signals
Misplaced(signals) ==
  \/ "modal missing" \in signals \/ "modal words" \in signals
  \/ "wrong url" \in signals \/ "route words" \in signals
\* A server that failed is not mended in a page, unless the page is in the wrong place.
LEMMA NotTheServer ==
  ASSUME NEW signals, ApiFailed(signals), ~ Misplaced(signals)
  PROVE  Classify(signals).category \in Diagnosed
<1>1. 5 \in Matching(signals) \/ 6 \in Matching(signals) \/ 7 \in Matching(signals) \/ 8 \in Matching(signals)
  BY Matches DEF ApiFailed
<1>2. 3 \notin Matching(signals) /\ 4 \notin Matching(signals)
  BY Matches DEF Misplaced
<1>3. Matching(signals) \subseteq 1..13  BY Matches
<1>4. PICK i \in Matching(signals) :
        /\ i \in 1..13 /\ \A j \in Matching(signals) : i <= j
        /\ Classify(signals).category = Rules[i].category
  BY <1>1, First
<1>5. i \in {1, 2, 5, 6, 7, 8}  BY <1>1, <1>2, <1>3, <1>4, LeastIsNoPlace
<1> QED  BY <1>4, <1>5, RuleClasses

LEMMA EligibleIsMendable ==
  ASSUME NEW category, Eligible(category)  PROVE category \in Mendable
BY DEF Eligible, Mendable

-----------
\* policy
LEMMA Denied ==
  /\ ProductionPolicy["locatorHeal"].decision = "deny"
  /\ ProductionPolicy["refreshAndRetry"].decision = "deny"
BY DEF ProductionPolicy, StagingPolicy, QaPolicy, Override, Says

\* In production no strategy that clicks is approved.
LEMMA NoClicksInProduction ==
  ASSUME NEW s \in Strategy, NEW confidence, Allows("production", s, confidence)
  PROVE  s \notin Clicks
<1> SUFFICES ASSUME s \in Clicks PROVE FALSE  OBVIOUS
<1>1. Profile(s).action \in {"locatorHeal", "refreshAndRetry"}
  BY DEF Profile, Clicks
<1>2. PolicyMatrix["production"][Profile(s).action].decision = "deny"
  BY <1>1, Denied DEF PolicyMatrix
<1> QED  BY <1>2 DEF Allows, Evaluate, Softened

-----------------------------------------------------------------------------
(* The policy, and ranks in an order.                                      *)

\* Staging differs from production only in what production denies.
LEMMA StagingFirst ==
  ASSUME NEW a \in Action
  PROVE  \/ ProductionPolicy[a].decision = "deny"
         \/ ProductionPolicy[a] = StagingPolicy[a]
<1> DEFINE changes == [locatorHeal     |-> Says("deny", 80, {}),
                       patchApply      |-> Says("deny", 95, {}),
                       refreshAndRetry |-> Says("deny", 75, {}),
                       fixtureAdapt    |-> Says("deny", 95, {})]
<1>1. ProductionPolicy = Override(StagingPolicy, changes)  BY DEF ProductionPolicy
<1>2. \A b \in DOMAIN changes : changes[b].decision = "deny"
  BY DEF Says
<1> HIDE DEF changes
<1>3. a \in DOMAIN StagingPolicy  BY DEF Action, StagingPolicy, Override
<1>4. ProductionPolicy[a] = IF a \in DOMAIN changes THEN changes[a] ELSE StagingPolicy[a]
  BY <1>1, <1>3 DEF Override
<1> QED  BY <1>2, <1>4

\* What the policy allows in production it allows in staging.
LEMMA ProductionAllowsLess ==
  ASSUME NEW q \in Question, Evaluate("production", q) = "allow"
  PROVE  Evaluate("staging", q) = "allow"
<1>1. q.action \in Action  BY DEF Question
<1>2. PolicyMatrix["production"] = ProductionPolicy /\ PolicyMatrix["staging"] = StagingPolicy
  BY DEF PolicyMatrix
<1>3. ProductionPolicy[q.action].decision # "deny"
  <2>1. SUFFICES ASSUME ProductionPolicy[q.action].decision = "deny"  PROVE FALSE
    OBVIOUS
  <2> QED  BY <1>2, <2>1 DEF Evaluate, Softened
<1>4. ProductionPolicy[q.action] = StagingPolicy[q.action]
  BY <1>1, <1>3, StagingFirst
<1> QED  BY <1>2, <1>4 DEF Evaluate

\* Outside QA business data is never touched without a question.
LEMMA BusinessIsAsked ==
  ASSUME NEW q, "business data" \in q.said, NEW e, e # "qa"
  PROVE  Evaluate(e, q) # "allow"
BY DEF Evaluate, Softened

\* Every answer of the policy is strictest in production.
LEMMA AskKeeps ==
  ASSUME Ask  PROVE ProductionIsStrictest'
<1>1. PICK q \in Questions :
        asked' = {[of |-> q, answer |-> [e \in Environment |-> Evaluate(e, q)]]}
  BY DEF Ask
<1>2. q \in Question  BY AgentsAssumption DEF AgentsAssumption
<1> SUFFICES ASSUME NEW a \in asked'
             PROVE  /\ a.answer["production"] = "allow" => a.answer["staging"] = "allow"
                    /\ "business data" \in a.of.said =>
                         a.answer["production"] # "allow" /\ a.answer["staging"] # "allow"
  BY DEF ProductionIsStrictest
<1>3. /\ a.of = q /\ a.answer["production"] = Evaluate("production", q)
      /\ a.answer["staging"] = Evaluate("staging", q)
  BY <1>1 DEF Environment
<1>4. a.answer["production"] = "allow" => a.answer["staging"] = "allow"
  BY <1>2, <1>3, ProductionAllowsLess
<1>5. "business data" \in a.of.said =>
        a.answer["production"] # "allow" /\ a.answer["staging"] # "allow"
  BY <1>3, BusinessIsAsked
<1> QED  BY <1>4, <1>5

-----------------------------------------------------------------------------
\* Ranks in an order.

IsOrder(R, S) ==
  /\ \A i, j \in S : <<i, j>> \in R \/ <<j, i>> \in R
  /\ \A i, j, k \in S : <<i, j>> \in R /\ <<j, k>> \in R => <<i, k>> \in R
  /\ \A i, j \in S : <<i, j>> \in R /\ <<j, i>> \in R => i = j

LEMMA RanksRise ==
  ASSUME NEW S, IsFiniteSet(S), NEW R,
         \A i, j \in S : <<i, j>> \in R \/ <<j, i>> \in R,
         \A i, j, k \in S : <<i, j>> \in R /\ <<j, k>> \in R => <<i, k>> \in R,
         \A i, j \in S : <<i, j>> \in R /\ <<j, i>> \in R => i = j,
         NEW i \in S, NEW j \in S, <<i, j>> \in R, i # j
  PROVE  Cardinality({k \in S : <<k, i>> \in R}) < Cardinality({k \in S : <<k, j>> \in R})
<1> DEFINE A == {k \in S : <<k, i>> \in R}  B == {k \in S : <<k, j>> \in R}
<1>1. A \subseteq B  OBVIOUS
<1>2. j \in B /\ j \notin A  OBVIOUS
<1>3. IsFiniteSet(B)  
  <2>1. B \in SUBSET S  OBVIOUS
  <2> QED  BY <2>1, FS_Subset
<1> HIDE DEF A, B
<1>4. IsFiniteSet(A) /\ Cardinality(A) <= Cardinality(B) /\ (Cardinality(B) = Cardinality(A) => B = A)
  BY <1>1, <1>3, FS_Subset
<1>5. Cardinality(A) \in Nat /\ Cardinality(B) \in Nat  BY <1>3, <1>4, FS_CardinalityType
<1>6. Cardinality(A) # Cardinality(B)  BY <1>2, <1>4
<1>7. Cardinality(A) < Cardinality(B)  BY <1>4, <1>5, <1>6
<1> QED  BY <1>7 DEF A, B

\* How many come not after j.
RankIn(S, R, j) == Cardinality({k \in S : <<k, j>> \in R})
LEMMA RanksAll ==
  ASSUME NEW S, IsFiniteSet(S), NEW R, IsOrder(R, S)
  PROVE  /\ \A i, j \in S : RankIn(S, R, i) < RankIn(S, R, j) => <<i, j>> \in R /\ i # j
         /\ \A n \in 1..Cardinality(S) : \E j \in S : RankIn(S, R, j) = n
<1> DEFINE r == [j \in S |-> Cardinality({k \in S : <<k, j>> \in R})]
<1>1. \A i, j \in S : <<i, j>> \in R /\ i # j => r[i] < r[j]
  BY RanksRise DEF IsOrder
<1>2. Cardinality(S) \in Nat  BY FS_CardinalityType
<1>3. ASSUME NEW j \in S  PROVE r[j] \in 1..Cardinality(S)
  <2> DEFINE B == {k \in S : <<k, j>> \in R}
  <2>1. B \in SUBSET S /\ j \in B  BY DEF IsOrder
  <2>2. r[j] = Cardinality(B)  OBVIOUS
  <2> HIDE DEF B
  <2>3. IsFiniteSet(B) /\ Cardinality(B) <= Cardinality(S)  BY <2>1, FS_Subset
  <2>4. Cardinality(B) \in Nat  BY <2>3, FS_CardinalityType
  <2>5. Cardinality(B) # 0  BY <2>1, <2>3, FS_EmptySet
  <2> QED  BY <1>2, <2>2, <2>3, <2>4, <2>5
<1> HIDE DEF r
<1>4. ASSUME NEW i \in S, NEW j \in S, r[i] < r[j]  PROVE <<i, j>> \in R /\ i # j
  <2>1. r[i] \in Nat /\ r[j] \in Nat  BY <1>2, <1>3
  <2>2. i # j  BY <1>4, <2>1
  <2>3. ~ <<j, i>> \in R
    <3> SUFFICES ASSUME <<j, i>> \in R  PROVE FALSE  OBVIOUS
    <3>1. r[j] < r[i]  BY <1>1, <2>2
    <3> QED  BY <3>1, <1>4, <2>1
  <2> QED  BY <2>2, <2>3 DEF IsOrder
<1>5. \A n \in 1..Cardinality(S) : \E j \in S : r[j] = n
  <2> DEFINE T == 1..Cardinality(S)
  <2>1. r \in [S -> T]  BY <1>3 DEF r
  <2>2. \A i, j \in S : r[i] = r[j] => i = j
    <3> SUFFICES ASSUME NEW i \in S, NEW j \in S, r[i] = r[j], i # j  PROVE FALSE
      OBVIOUS
    <3>1. r[i] < r[j] \/ r[j] < r[i]  BY <1>1 DEF IsOrder
    <3>2. r[i] \in Nat /\ r[j] \in Nat  BY <1>2, <1>3
    <3> QED  BY <3>1, <3>2
  <2>3. r \in Injection(S, T)
    BY <2>1, <2>2 DEF Injection, IsInjective
  <2>4. IsFiniteSet(T) /\ Cardinality(T) = Cardinality(S)
    BY <1>2, FS_Interval
  <2>5. r \in Surjection(S, T)
    BY <2>3, <2>4, FS_Injection
  <2> QED  BY <2>5 DEF Surjection
<1>6. \A j \in S : r[j] = RankIn(S, R, j)  BY DEF r, RankIn
<1> QED  BY <1>4, <1>5, <1>6, Zenon

-----------------------------------------------------------------------------
(* Plans: the approved strategies by priority.                             *)

LEMMA OrderType ==
  ASSUME NEW c  PROVE PreferredOrder(c) \in Seq(Strategy)
<1>1. /\ "contract-recheck" \in Strategy /\ "extend-wait" \in Strategy
      /\ "locator-heal" \in Strategy /\ "refresh-and-retry" \in Strategy
  BY DEF Strategy
<1>2. \A a \in Strategy, b \in Strategy, d \in Strategy :
        <<>> \in Seq(Strategy) /\ <<a>> \in Seq(Strategy) /\ <<a, b>> \in Seq(Strategy) /\ <<a, b, d>> \in Seq(Strategy)
  OBVIOUS
<1> QED  BY <1>1, <1>2, Zenon DEF PreferredOrder

\* The priority of a listed strategy is its place in the list, wherever it was
\* offered; the others follow as offered.
LEMMA Priorities ==
  ASSUME NEW w, NEW s
  PROVE  LET n == Len(PreferredOrder(Class(w).category)) IN
         /\ n \in Nat
         /\ \/ \E p \in 1..n : \A i : Priority(w, s, i) = p
            \/ \A i : Priority(w, s, i) = n + i
<1> DEFINE order == PreferredOrder(Class(w).category)
           listed == {k \in DOMAIN order : order[k] = s}
<1>1. order \in Seq(Strategy)  BY OrderType
<1>2. \A i : Priority(w, s, i) = IF listed # {} THEN CHOOSE k \in listed : TRUE ELSE Len(order) + i
  BY DEF Priority
<1> HIDE DEF order
<1>3. Len(order) \in Nat /\ DOMAIN order = 1..Len(order)  BY <1>1
<1>4. CASE listed = {}  BY <1>2, <1>3, <1>4 DEF order
<1>5. CASE listed # {}
  <2>1. PICK p : p = CHOOSE k \in listed : TRUE  OBVIOUS
  <2>2. p \in listed  BY <1>5, <2>1
  <2>3. p \in 1..Len(order)  BY <1>3, <2>2
  <2>4. \A i : Priority(w, s, i) = p  BY <1>2, <1>5, <2>1
  <2> QED  BY <1>3, <2>3, <2>4 DEF order
<1> QED  BY <1>4, <1>5

LEMMA PriorityIsNat ==
  ASSUME NEW w, NEW s, NEW i \in Nat  PROVE Priority(w, s, i) \in Nat
<1> DEFINE n == Len(PreferredOrder(Class(w).category))
<1>1. n \in Nat /\ ((\E p \in 1..n : \A k : Priority(w, s, k) = p) \/ (\A k : Priority(w, s, k) = n + k))
  BY Priorities
<1> HIDE DEF n
<1>2. CASE \E p \in 1..n : \A k : Priority(w, s, k) = p  BY <1>2
<1>3. CASE \A k : Priority(w, s, k) = n + k  BY <1>1, <1>3
<1> QED  BY <1>1, <1>2, <1>3

LEMMA ApprovedIsFinite ==
  ASSUME NEW w, IsFailure(failure[w])
  PROVE  /\ Approved(w) \subseteq DOMAIN failure[w].strategies
         /\ \A i \in Approved(w) : i \in Nat \ {0} /\ Offered(w, i) \in Strategy
         /\ IsFiniteSet(Approved(w)) /\ Cardinality(Approved(w)) \in Nat
<1>1. failure[w].strategies \in Seq(Strategy)  BY DEF IsFailure
<1>2. DOMAIN failure[w].strategies = 1..Len(failure[w].strategies) /\ Len(failure[w].strategies) \in Nat
  BY <1>1
<1>3. Approved(w) \subseteq DOMAIN failure[w].strategies  BY DEF Approved
<1>4. IsFiniteSet(1..Len(failure[w].strategies))  BY <1>2, FS_Interval
<1>5. IsFiniteSet(Approved(w))  BY <1>2, <1>3, <1>4, FS_Subset
<1>6. Cardinality(Approved(w)) \in Nat  BY <1>5, FS_CardinalityType
<1>7. \A i \in Approved(w) : i \in Nat \ {0} /\ Offered(w, i) \in Strategy
  BY <1>1, <1>2, <1>3 DEF Offered
<1> QED  BY <1>3, <1>5, <1>6, <1>7

\* The approved have a first, a second and so on, by priority.
LEMMA PlacesInTurn ==
  ASSUME NEW w, IsFailure(failure[w])
  PROVE  /\ \A i, j \in Approved(w) : Rank(w, i) < Rank(w, j) => NotAfter(w, i, j) /\ i # j
         /\ \A n \in 1..Cardinality(Approved(w)) : \E i \in Approved(w) : Rank(w, i) = n
<1> DEFINE S == Approved(w)
           p == [i \in S |-> Priority(w, Offered(w, i), i)]
           R == {u \in S \X S : NotAfter(w, u[1], u[2])}
<1>1. S \subseteq Nat /\ IsFiniteSet(S)  BY ApprovedIsFinite
<1>2. \A i \in S : p[i] \in Nat  BY <1>1, PriorityIsNat
<1>3. \A i, j \in S : NotAfter(w, i, j) <=> (p[i] < p[j] \/ (p[i] = p[j] /\ i <= j))
  BY DEF NotAfter
<1>4. \A i, j \in S : <<i, j>> \in R <=> NotAfter(w, i, j)  OBVIOUS
<1>5. \A j \in S : Rank(w, j) = RankIn(S, R, j)
  <2> SUFFICES ASSUME NEW j \in S  PROVE Rank(w, j) = RankIn(S, R, j)  OBVIOUS
  <2>1. {i \in Approved(w) : NotAfter(w, i, j)} = {k \in S : <<k, j>> \in R}  BY <1>4
  <2> QED  BY <2>1 DEF Rank, RankIn
<1> HIDE DEF S, p, R
<1>6. \A i, j \in S : <<i, j>> \in R <=> (p[i] < p[j] \/ (p[i] = p[j] /\ i <= j))
  BY <1>3, <1>4
<1>7. \A i, j \in S : <<i, j>> \in R \/ <<j, i>> \in R
  <2> SUFFICES ASSUME NEW i \in S, NEW j \in S  PROVE <<i, j>> \in R \/ <<j, i>> \in R  OBVIOUS
  <2>1. p[i] \in Nat /\ p[j] \in Nat /\ i \in Nat /\ j \in Nat  BY <1>1, <1>2
  <2>2. p[i] < p[j] \/ (p[i] = p[j] /\ i <= j) \/ p[j] < p[i] \/ (p[j] = p[i] /\ j <= i)  BY <2>1
  <2> QED  BY <1>6, <2>2
<1>8. \A i, j, k \in S : <<i, j>> \in R /\ <<j, k>> \in R => <<i, k>> \in R
  <2> SUFFICES ASSUME NEW i \in S, NEW j \in S, NEW k \in S, <<i, j>> \in R, <<j, k>> \in R
               PROVE  <<i, k>> \in R
    OBVIOUS
  <2>1. /\ p[i] \in Nat /\ p[j] \in Nat /\ p[k] \in Nat
        /\ i \in Nat /\ j \in Nat /\ k \in Nat  BY <1>1, <1>2
  <2>2. p[i] < p[j] \/ (p[i] = p[j] /\ i <= j)  BY <1>6
  <2>3. p[j] < p[k] \/ (p[j] = p[k] /\ j <= k)  BY <1>6
  <2>4. p[i] < p[k] \/ (p[i] = p[k] /\ i <= k)  BY <2>1, <2>2, <2>3
  <2> QED  BY <1>6, <2>4
<1>9. \A i, j \in S : <<i, j>> \in R /\ <<j, i>> \in R => i = j
  <2> SUFFICES ASSUME NEW i \in S, NEW j \in S, <<i, j>> \in R, <<j, i>> \in R
               PROVE  i = j
    OBVIOUS
  <2>1. p[i] \in Nat /\ p[j] \in Nat /\ i \in Nat /\ j \in Nat  BY <1>1, <1>2
  <2>2. p[i] < p[j] \/ (p[i] = p[j] /\ i <= j)  BY <1>6
  <2>3. p[j] < p[i] \/ (p[j] = p[i] /\ j <= i)  BY <1>6
  <2> QED  BY <2>1, <2>2, <2>3
<1>10. IsOrder(R, S)  BY <1>7, <1>8, <1>9 DEF IsOrder
<1>11. /\ \A i, j \in S : RankIn(S, R, i) < RankIn(S, R, j) => <<i, j>> \in R /\ i # j
       /\ \A n \in 1..Cardinality(S) : \E j \in S : RankIn(S, R, j) = n
  <2>1. IsFiniteSet(S)  BY <1>1
  <2> QED  BY <2>1, <1>10, RanksAll
<1>12. \A i, j \in S : Rank(w, i) < Rank(w, j) => NotAfter(w, i, j) /\ i # j
  BY <1>4, <1>5, <1>11
<1>13. \A n \in 1..Cardinality(S) : \E i \in S : Rank(w, i) = n
  BY <1>5, <1>11
<1> QED  BY <1>12, <1>13 DEF S

\* A plan holds the approved in their turn.
LEMMA PlanIs ==
  ASSUME NEW w, IsFailure(failure[w])
  PROVE  /\ Plan(w) \in Seq(Strategy)
         /\ Plan(w) # <<>> => Class(w).category \in Mendable
         /\ \A n \in DOMAIN Plan(w) : \E i \in Approved(w) : Rank(w, i) = n /\ Plan(w)[n] = Offered(w, i)
<1>1. CASE Class(w).category \notin Mendable
  <2>1. Plan(w) = <<>>  BY <1>1 DEF Plan
  <2> QED  BY <2>1
<1>2. CASE Class(w).category \in Mendable
  <2> DEFINE N == Cardinality(Approved(w))
             place(n) == CHOOSE i \in Approved(w) : Rank(w, i) = n
  <2>1. N \in Nat  BY ApprovedIsFinite
  <2>2. \A n \in 1..N : place(n) \in Approved(w) /\ Rank(w, place(n)) = n
    BY PlacesInTurn
  <2>3. Plan(w) = [n \in 1..N |-> Offered(w, place(n))]
    BY <1>2 DEF Plan
  <2> HIDE DEF N, place
  <2>4. \A n \in 1..N : Offered(w, place(n)) \in Strategy
    BY <2>2, ApprovedIsFinite
  <2>5. Plan(w) \in Seq(Strategy) /\ DOMAIN Plan(w) = 1..N
    BY <2>1, <2>3, <2>4
  <2>6. \A n \in 1..N : \E i \in Approved(w) : Rank(w, i) = n /\ Plan(w)[n] = Offered(w, i)
    BY <2>2, <2>3
  <2> QED  BY <1>2, <2>5, <2>6
<1> QED  BY <1>1, <1>2

\* What is planned earlier is another strategy, and one preferred no less.
LEMMA PlanInTurn ==
  ASSUME NEW w, IsFailure(failure[w]), NEW i \in DOMAIN Plan(w), NEW j \in DOMAIN Plan(w), i < j
  PROVE  /\ Plan(w)[i] # Plan(w)[j]
         /\ Priority(w, Plan(w)[i], i) <= Priority(w, Plan(w)[j], j)
<1>1. i \in Nat \ {0} /\ j \in Nat \ {0}
  <2>1. Plan(w) \in Seq(Strategy)  BY PlanIs
  <2> QED  BY <2>1
<1>2. PICK a \in Approved(w) : Rank(w, a) = i /\ Plan(w)[i] = Offered(w, a)  BY PlanIs
<1>3. PICK b \in Approved(w) : Rank(w, b) = j /\ Plan(w)[j] = Offered(w, b)  BY PlanIs
<1>4. NotAfter(w, a, b) /\ a # b
  BY <1>2, <1>3, PlacesInTurn
<1>5. a \in Nat \ {0} /\ b \in Nat \ {0} /\ a \in DOMAIN failure[w].strategies /\ b \in DOMAIN failure[w].strategies
  BY ApprovedIsFinite
<1>6. Plan(w)[i] # Plan(w)[j]
  BY <1>2, <1>3, <1>4, <1>5 DEF IsFailure, Offered
<1> DEFINE s == Offered(w, a)  t == Offered(w, b)  n == Len(PreferredOrder(Class(w).category))
<1>7. /\ n \in Nat
      /\ (\E p \in 1..n : \A k : Priority(w, s, k) = p) \/ (\A k : Priority(w, s, k) = n + k)
      /\ (\E p \in 1..n : \A k : Priority(w, t, k) = p) \/ (\A k : Priority(w, t, k) = n + k)
  BY Priorities
<1>8. Priority(w, s, a) <= Priority(w, t, b)
  <2>1. Priority(w, s, a) \in Nat /\ Priority(w, t, b) \in Nat  BY <1>5, PriorityIsNat
  <2>2. Priority(w, s, a) < Priority(w, t, b) \/ Priority(w, s, a) = Priority(w, t, b)
    BY <1>4 DEF NotAfter
  <2> QED  BY <2>1, <2>2
<1> HIDE DEF s, t, n
<1>9. Priority(w, s, i) <= Priority(w, t, j)
  <2>1. CASE (\E p \in 1..n : \A k : Priority(w, s, k) = p) /\ (\E p \in 1..n : \A k : Priority(w, t, k) = p)
    BY <1>8, <2>1
  <2>2. CASE (\E p \in 1..n : \A k : Priority(w, s, k) = p) /\ (\A k : Priority(w, t, k) = n + k)
    <3>1. PICK p \in 1..n : \A k : Priority(w, s, k) = p  BY <2>2
    <3>2. Priority(w, s, i) = p /\ Priority(w, t, j) = n + j  BY <2>2, <3>1
    <3>3. p <= n + j  BY <1>1, <1>7
    <3> QED  BY <3>2, <3>3
  <2>3. CASE (\A k : Priority(w, s, k) = n + k) /\ (\E p \in 1..n : \A k : Priority(w, t, k) = p)
    <3>1. PICK p \in 1..n : \A k : Priority(w, t, k) = p  BY <2>3
    <3>2. Priority(w, s, a) = n + a /\ Priority(w, t, b) = p  BY <2>3, <3>1
    <3>3. ~ (n + a <= p)  BY <1>5, <1>7
    <3> QED  BY <1>8, <3>2, <3>3
  <2>4. CASE (\A k : Priority(w, s, k) = n + k) /\ (\A k : Priority(w, t, k) = n + k)
    <3>1. Priority(w, s, i) = n + i /\ Priority(w, t, j) = n + j  BY <2>4
    <3>2. n + i <= n + j  BY <1>1, <1>7
    <3> QED  BY <3>1, <3>2
  <2> QED  BY <1>7, <2>1, <2>2, <2>3, <2>4
<1> QED  BY <1>2, <1>3, <1>6, <1>9 DEF s, t

-----------------------------------------------------------------------------
(* Incidents: every step of a router keeps IncidentInv.                    *)

LEMMA ElementOf ==
  ASSUME NEW S, NEW s \in Seq(S), NEW i \in DOMAIN s  PROVE s[i] \in S
OBVIOUS

PlaceIn(order, s, i) ==
  LET listed == {k \in DOMAIN order : order[k] = s}
  IN IF listed # {} THEN CHOOSE k \in listed : TRUE ELSE Len(order) + i

LEMMA SamePlan ==
  ASSUME UNCHANGED <<failure, ofProcess>>
  PROVE  \A w : /\ Class(w)' = Class(w) /\ Plan(w)' = Plan(w) /\ Permitted(w)' = Permitted(w)
                /\ EnvironmentOf(w)' = EnvironmentOf(w)
<1>1. \A w : Class(w)' = Class(w)  BY DEF Class
<1>2. \A w : EnvironmentOf(w)' = EnvironmentOf(w)  BY DEF EnvironmentOf
<1>3. \A w, i : Offered(w, i)' = Offered(w, i)  BY DEF Offered
<1>4. \A w : Approved(w)' = Approved(w)  BY <1>1, <1>2, <1>3 DEF Approved
<1>5. \A w, s, i : Priority(w, s, i)' = Priority(w, s, i)
  <2> SUFFICES ASSUME NEW w, NEW s, NEW i  PROVE Priority(w, s, i)' = Priority(w, s, i)  OBVIOUS
  <2>1. Priority(w, s, i) = PlaceIn(PreferredOrder(Class(w).category), s, i)  BY DEF Priority, PlaceIn
  <2>2. Priority(w, s, i)' = PlaceIn(PreferredOrder(Class(w)'.category), s, i)  BY DEF Priority, PlaceIn
  <2> QED  BY <1>1, <2>1, <2>2
<1>6. \A w, i, j : NotAfter(w, i, j)' <=> NotAfter(w, i, j)  BY <1>3, <1>5 DEF NotAfter
<1>7. \A w, j : Rank(w, j)' = Rank(w, j)
  <2> SUFFICES ASSUME NEW w, NEW j  PROVE Rank(w, j)' = Rank(w, j)  OBVIOUS
  <2>1. {i \in Approved(w)' : NotAfter(w, i, j)'} = {i \in Approved(w) : NotAfter(w, i, j)}  BY <1>4, <1>6
  <2> QED  BY <2>1 DEF Rank
<1>8. \A w, n : (CHOOSE i \in Approved(w)' : Rank(w, i)' = n) = (CHOOSE i \in Approved(w) : Rank(w, i) = n)
  BY <1>4, <1>7
<1>9. \A w : Plan(w)' = Plan(w)
  <2> SUFFICES ASSUME NEW w  PROVE Plan(w)' = Plan(w)  OBVIOUS
  <2> DEFINE offer(n) == Offered(w, CHOOSE i \in Approved(w) : Rank(w, i) = n)
             next(n) == failure'[w].strategies[CHOOSE i \in Approved(w)' : Rank(w, i)' = n]
             N == Cardinality(Approved(w))  M == Cardinality(Approved(w)')
  <2>1. Plan(w) = IF Class(w).category \notin Mendable THEN <<>> ELSE [n \in 1..N |-> offer(n)]
    BY DEF Plan
  <2>2. Plan(w)' = IF Class(w)'.category \notin Mendable THEN <<>> ELSE [n \in 1..M |-> next(n)]
    BY DEF Plan, Offered
  <2>3. M = N  BY <1>4
  <2>4. ASSUME NEW n  PROVE next(n) = offer(n)
    <3>1. (CHOOSE i \in Approved(w)' : Rank(w, i)' = n) = (CHOOSE i \in Approved(w) : Rank(w, i) = n)
      BY <1>8
    <3> QED  BY <3>1 DEF Offered
  <2> HIDE DEF N, M, offer, next
  <2> QED  BY <1>1, <2>1, <2>2, <2>3, <2>4
<1>10. \A w : Permitted(w)' <=> Permitted(w)  BY <1>1 DEF Permitted
<1> QED  BY <1>1, <1>2, <1>9, <1>10

\* What is remembered of a job depends on nothing but what it came to.
LEMMA SameRecord ==
  ASSUME UNCHANGED <<failure, ofProcess>>, NEW w, job'[w].attempts = job[w].attempts,
         job'[w].plan = job[w].plan, job'[w].checked = job[w].checked
  PROVE  /\ Worked(w)' <=> Worked(w)
         /\ FinalStatus(w)' = FinalStatus(w)
         /\ Remembered(w)' = Remembered(w)
<1>1. (Worked(w)' <=> Worked(w)) /\ Worked(w)' = Worked(w)  BY DEF Worked
<1>2. Class(w)' = Class(w)  BY SamePlan
<1>3. RequiresValidation(w)' <=> RequiresValidation(w)  BY <1>2 DEF RequiresValidation
<1>4. FinalStatus(w)' = FinalStatus(w)  BY <1>1, <1>2, <1>3 DEF FinalStatus
<1>5. Used(w)' = Used(w)  BY <1>1 DEF Used
<1> QED  BY <1>1, <1>2, <1>4, <1>5 DEF Remembered

LEMMA RecordType ==
  ASSUME IncidentTypeOK, NEW w \in Incident  PROVE Remembered(w) \in Memories
<1>1. job[w] \in Jobs  BY DEF IncidentTypeOK
<1>2. job[w].attempts \in Seq([strategy : Strategy, worked : BOOLEAN])  BY <1>1 DEF Jobs
<1>3. Used(w) \in Strategy \cup {"none"} /\ Worked(w) \in BOOLEAN
  <2>1. CASE job[w].attempts = <<>>  BY <2>1 DEF Used, Worked
  <2>2. CASE job[w].attempts # <<>>
    <3>1. Len(job[w].attempts) \in DOMAIN job[w].attempts  BY <1>2, <2>2
    <3>2. job[w].attempts[Len(job[w].attempts)] \in [strategy : Strategy, worked : BOOLEAN]
      BY <1>2, <3>1, ElementOf
    <3> QED  BY <2>2, <3>2 DEF Used, Worked
  <2> QED  BY <2>1, <2>2
<1>4. FinalStatus(w) \in {"mitigated", "escalate", "unresolved"}  BY DEF FinalStatus
<1>5. Class(w).category \in Category  BY Classes DEF Class
<1> QED  BY <1>3, <1>4, <1>5 DEF Remembered, Memories

-----------------------------------------------------------------------------
\* What JobInv says of one job.
OneJob(w, j) ==
  /\ j.plan \in {<<>>, Plan(w)}
  /\ j.step \in {"absent", "start", "collect"} => j.plan = <<>>
  /\ Len(j.attempts) <= Len(j.plan)
  /\ \A i \in DOMAIN j.attempts :
       /\ j.attempts[i].strategy = j.plan[i]
       /\ j.attempts[i].worked => i = Len(j.attempts)
  /\ j.step = "recover" =>
       /\ Len(j.attempts) < Len(j.plan)
       /\ \A i \in DOMAIN j.attempts : ~ j.attempts[i].worked
  /\ j.step \in {"absent", "start", "collect", "recover", "validate"} => j.checked = "not"
  /\ j.checked = "passed" => j.met
  /\ j.step = "repair" => failure[w].environment # "production"

LEMMA EachJob == JobInv <=> \A w \in Incident : OneJob(w, job[w])
BY DEF JobInv, OneJob

LEMMA SameJob ==
  ASSUME UNCHANGED <<failure, ofProcess>>
  PROVE  JobInv' <=> \A w \in Incident : OneJob(w, job'[w])
<1>1. \A w : Plan(w)' = Plan(w)  BY SamePlan
<1> QED  BY <1>1 DEF JobInv, OneJob

\* A job goes on to where it neither rewrites the memory nor has ended.
LEMMA JobMoves ==
  ASSUME IncidentInv, NEW w \in Incident, NEW new \in Jobs, job' = [job EXCEPT ![w] = new],
         UNCHANGED <<failure, ofProcess, memory, crossed>>, patches' \subseteq Incident,
         page' \in [Incident -> BOOLEAN], drifted' \in [Incident -> 0..MaxDrift], broken' \in 0..MaxBreaks,
         reports' \in [{failure[v].scenario : v \in Incident} -> Incident \cup {"none"}],
         OneJob(w, new), new.read = job[w].read,
         \A v \in patches' \ patches : failure[v].environment # "production" /\ Permitted(v),
         job[w].step \notin {"cut", "write", "done"}, new.step \notin {"cut", "write", "done"}
  PROVE  IncidentInv'
<1>1. /\ job \in [Incident -> Jobs] /\ job'[w] = new
      /\ \A v \in Incident : v # w => job'[v] = job[v]
  BY DEF IncidentInv, IncidentTypeOK
<1>0. IncidentTypeOK'  BY <1>1 DEF IncidentInv, IncidentTypeOK
<1>2. JobInv'
  <2>1. \A v \in Incident : OneJob(v, job[v])  BY EachJob DEF IncidentInv
  <2>2. \A v \in Incident : OneJob(v, job'[v])  BY <1>1, <2>1
  <2> QED  BY <2>2, SameJob
<1>3. PatchInv'
  <2>1. \A v : Permitted(v)' <=> Permitted(v)  BY SamePlan
  <2> QED  BY <2>1 DEF IncidentInv, PatchInv
<1>4. \A v \in Incident :
        /\ At(v, "done")' <=> At(v, "done")
        /\ At(v, "cut")' <=> At(v, "cut")
        /\ At(v, "write")' <=> At(v, "write")
        /\ At(v, "done") => Remembered(v)' = Remembered(v)
        /\ job'[v].read = job[v].read
  BY <1>1, SameRecord DEF At
<1>5. WrittenInv'
  <2>1. \A r : IsWritten(r) => IsWritten(r)'  BY <1>4 DEF IsWritten
  <2> QED  BY <1>4, <2>1 DEF IncidentInv, WrittenInv
<1>6. TurnInv'
  <2>1. Rewriting' = Rewriting  BY <1>4 DEF Rewriting, At
  <2>2. \A rs : Complete(rs)' <=> Complete(rs)  BY <1>4 DEF Complete
  <2> QED  BY <1>4, <2>1, <2>2 DEF IncidentInv, TurnInv
<1> QED  BY <1>0, <1>2, <1>3, <1>5, <1>6 DEF IncidentInv

\* What a step of one router leaves alone.
Quietly == UNCHANGED <<failure, ofProcess, drifted, broken>>

LEMMA JobIs ==
  ASSUME IncidentInv, NEW w \in Incident
  PROVE  /\ job[w] \in Jobs /\ OneJob(w, job[w]) /\ IsFailure(failure[w])
         /\ page \in [Incident -> BOOLEAN] /\ drifted \in [Incident -> 0..MaxDrift]
         /\ broken \in 0..MaxBreaks /\ patches \subseteq Incident
         /\ reports \in [{failure[v].scenario : v \in Incident} -> Incident \cup {"none"}]
         /\ job \in [Incident -> Jobs]
<1>1. OneJob(w, job[w])  BY EachJob DEF IncidentInv
<1> QED  BY <1>1 DEF IncidentInv, IncidentTypeOK

LEMMA StartKeeps ==
  ASSUME IncidentInv, NEW w \in Incident, Start(w), Quietly  PROVE IncidentInv'
<1> DEFINE new == [job[w] EXCEPT !.step = "collect"]
<1>1. job[w] \in Jobs /\ OneJob(w, job[w])  BY JobIs
<1>2. new \in Jobs  BY <1>1 DEF Jobs, Steps
<1>3. job' = [job EXCEPT ![w] = new]  BY <1>1, JobIs DEF Start, Goes
<1>4. OneJob(w, new) /\ new.read = job[w].read /\ new.step = "collect"
  BY <1>1 DEF OneJob, Jobs, Start, At
<1> HIDE DEF new
<1> QED  BY <1>2, <1>3, <1>4, JobIs, JobMoves DEF Start, At, Quietly

LEMMA CollectKeeps ==
  ASSUME IncidentInv, NEW w \in Incident, Collect(w), Quietly  PROVE IncidentInv'
<1> DEFINE to == IF Plan(w) # <<>> THEN "recover" ELSE BeforeRepair(w)
           new == [job[w] EXCEPT !.plan = Plan(w), !.step = to]
<1>1. job[w] \in Jobs /\ OneJob(w, job[w]) /\ job[w].step = "collect"  BY JobIs DEF Collect, At
<1>2. Plan(w) \in Seq(Strategy)  BY JobIs, PlanIs
<1>3. /\ to \in {"recover", "report", "repair"}
      /\ to = "recover" => Plan(w) # <<>>
      /\ to = "repair" => failure[w].environment # "production"
  BY DEF BeforeRepair
<1> HIDE DEF to
<1>4. new \in Jobs  BY <1>1, <1>2, <1>3 DEF Jobs, Steps
<1>5. job' = [job EXCEPT ![w] = new]  BY <1>1, JobIs DEF Collect, to
<1>6. /\ new.plan = Plan(w) /\ new.step = to /\ new.attempts = job[w].attempts
      /\ new.checked = "not" /\ new.read = job[w].read
  BY <1>1 DEF Jobs, OneJob
<1>7. job[w].attempts = <<>>
  <2>1. Len(job[w].attempts) <= 0  BY <1>1 DEF OneJob
  <2> QED  BY <1>1, <2>1 DEF Jobs
<1> HIDE DEF new
<1>8. Len(Plan(w)) \in Nat /\ (Plan(w) # <<>> => 0 < Len(Plan(w)))  BY <1>2
<1>9. OneJob(w, new)
  BY <1>3, <1>6, <1>7, <1>8 DEF OneJob
<1> QED  BY <1>1, <1>3, <1>4, <1>5, <1>6, <1>9, JobIs, JobMoves DEF Collect, Quietly

\* A strategy comes to a success or not, and leaves a page that meets its
\* contract or not.
LEMMA OutcomesAre ==
  ASSUME NEW w \in Incident, page[w] \in BOOLEAN, NEW s, NEW o \in Outcomes(w, s)
  PROVE  o[1] \in BOOLEAN /\ o[2] \in BOOLEAN
<1>1. HealOutcomes(w) \subseteq BOOLEAN \X BOOLEAN
  <2>1. <<FALSE, page[w]>> \in BOOLEAN \X BOOLEAN  OBVIOUS
  <2> QED  BY <2>1, Zenon DEF HealOutcomes
<1>2. (BOOLEAN \X {page[w]}) \subseteq BOOLEAN \X BOOLEAN /\ {<<page[w], page[w]>>} \subseteq BOOLEAN \X BOOLEAN
  OBVIOUS
<1>3. Outcomes(w, s) \in {HealOutcomes(w), BOOLEAN \X BOOLEAN, BOOLEAN \X {page[w]}, {<<page[w], page[w]>>}}
  BY DEF Outcomes
<1>4. o \in BOOLEAN \X BOOLEAN  BY <1>1, <1>2, <1>3
<1> QED  BY <1>4

LEMMA NextOfPlan ==
  ASSUME IncidentInv, NEW w \in Incident, job[w].step = "recover"
  PROVE  LET n == Len(job[w].attempts) IN
         /\ n \in Nat /\ Len(job[w].plan) \in Nat /\ n < Len(job[w].plan)
         /\ job[w].plan[n + 1] \in Strategy
<1>1. job[w] \in Jobs /\ OneJob(w, job[w])  BY JobIs
<1>2. job[w].plan \in Seq(Strategy) /\ Len(job[w].attempts) \in Nat  BY <1>1 DEF Jobs
<1>3. Len(job[w].attempts) < Len(job[w].plan)  BY <1>1 DEF OneJob
<1>4. Len(job[w].attempts) + 1 \in DOMAIN job[w].plan  BY <1>2, <1>3
<1> QED  BY <1>2, <1>3, <1>4, ElementOf

LEMMA TryKeeps ==
  ASSUME IncidentInv, NEW w \in Incident, Try(w), Quietly  PROVE IncidentInv'
<1> DEFINE n == Len(job[w].attempts)
           s == job[w].plan[n + 1]
<1>1. job[w] \in Jobs /\ OneJob(w, job[w]) /\ job[w].step = "recover"  BY JobIs DEF Try, At
<1>2. n \in Nat /\ Len(job[w].plan) \in Nat /\ n < Len(job[w].plan) /\ s \in Strategy
  BY <1>1, NextOfPlan
<1>3. PICK o \in Outcomes(w, s) :
        /\ page' = [page EXCEPT ![w] = o[2]]
        /\ job' = [job EXCEPT
             ![w].attempts = Append(@, [strategy |-> s, worked |-> o[1]]),
             ![w].met = IF s = "contract-recheck" THEN o[1] ELSE s \notin Clicks /\ @,
             ![w].step =
               IF o[1] /\ failure[w].contract /\ RequiresValidation(w) THEN "validate"
               ELSE IF o[1] \/ Len(job[w].attempts) + 1 = Len(job[w].plan) THEN BeforeRepair(w)
               ELSE "recover"]
  BY DEF Try
<1>4. o[1] \in BOOLEAN /\ o[2] \in BOOLEAN
  <2>1. page[w] \in BOOLEAN  BY JobIs
  <2> QED  BY <1>3, <2>1, OutcomesAre
<1> DEFINE try == [strategy |-> s, worked |-> o[1]]
           tried == Append(job[w].attempts, try)
           met == IF s = "contract-recheck" THEN o[1] ELSE s \notin Clicks /\ job[w].met
           to == IF o[1] /\ failure[w].contract /\ RequiresValidation(w) THEN "validate"
                 ELSE IF o[1] \/ n + 1 = Len(job[w].plan) THEN BeforeRepair(w)
                 ELSE "recover"
           new == [job[w] EXCEPT !.attempts = tried, !.met = met, !.step = to]
<1>5. job' = [job EXCEPT ![w] = new]  BY <1>1, <1>3, JobIs
<1>6. page' \in [Incident -> BOOLEAN]  BY <1>3, <1>4, JobIs
<1>7. try \in [strategy : Strategy, worked : BOOLEAN] /\ try.strategy = s /\ try.worked = o[1]
  BY <1>2, <1>4
<1>8. met \in BOOLEAN  BY <1>1, <1>4 DEF Jobs
<1>9. /\ to \in {"validate", "recover", "report", "repair"}
      /\ to = "recover" => ~ o[1] /\ n + 1 # Len(job[w].plan)
      /\ to = "repair" => failure[w].environment # "production"
  BY DEF BeforeRepair
<1> HIDE DEF try, met, to
<1>10. job[w].attempts \in Seq([strategy : Strategy, worked : BOOLEAN])  BY <1>1 DEF Jobs
<1>11. /\ tried \in Seq([strategy : Strategy, worked : BOOLEAN])
       /\ Len(tried) = n + 1 /\ DOMAIN tried = 1..(n + 1)
       /\ tried[n + 1] = try
       /\ \A i \in 1..n : tried[i] = job[w].attempts[i]
  BY <1>7, <1>10
<1> HIDE DEF tried
<1>12. new \in Jobs  BY <1>1, <1>8, <1>9, <1>11 DEF Jobs, Steps
<1>13. /\ new.plan = job[w].plan /\ new.step = to /\ new.attempts = tried
       /\ new.checked = "not" /\ new.read = job[w].read
  BY <1>1 DEF Jobs, OneJob
<1> HIDE DEF new
<1>14. DOMAIN job[w].attempts = 1..n  BY <1>10
<1>15. \A i \in 1..n : job[w].attempts[i].strategy = job[w].plan[i] /\ ~ job[w].attempts[i].worked
  BY <1>1, <1>14 DEF OneJob
<1>16. \A i \in DOMAIN tried :
         /\ tried[i].strategy = job[w].plan[i]
         /\ tried[i].worked => i = n + 1 /\ o[1]
  <2> SUFFICES ASSUME NEW i \in DOMAIN tried
               PROVE  tried[i].strategy = job[w].plan[i] /\ (tried[i].worked => i = n + 1 /\ o[1])
    OBVIOUS
  <2>1. CASE i \in 1..n  BY <1>11, <1>15, <2>1
  <2>2. CASE i = n + 1  BY <1>7, <1>11, <2>2
  <2>3. i \in 1..n \/ i = n + 1  BY <1>2, <1>11
  <2> QED  BY ZenonT(60), <2>1, <2>2, <2>3
<1>17. job[w].plan \in {<<>>, Plan(w)}  BY <1>1 DEF OneJob
<1>18. Len(tried) <= Len(job[w].plan) /\ (n + 1 # Len(job[w].plan) => Len(tried) < Len(job[w].plan))
  BY <1>2, <1>11
<1> HIDE DEF n, s
<1>19. OneJob(w, new)
  BY <1>9, <1>11, <1>13, <1>16, <1>17, <1>18 DEF OneJob
<1> QED  BY <1>1, <1>5, <1>6, <1>9, <1>12, <1>13, <1>19, JobIs, JobMoves DEF Try, Quietly

LEMMA ValidateKeeps ==
  ASSUME IncidentInv, NEW w \in Incident, Validate(w), Quietly  PROVE IncidentInv'
<1> DEFINE to == BeforeRepair(w)
           new == [job[w] EXCEPT !.checked = IF page[w] THEN "passed" ELSE "failed",
                                 !.met = page[w], !.step = to]
<1>1. job[w] \in Jobs /\ OneJob(w, job[w]) /\ job[w].step = "validate"  BY JobIs DEF Validate, At
<1>2. page[w] \in BOOLEAN  BY JobIs
<1>3. to \in {"report", "repair"} /\ (to = "repair" => failure[w].environment # "production")
  BY DEF BeforeRepair
<1>4. job' = [job EXCEPT ![w] = new]  BY <1>1, JobIs DEF Validate
<1> HIDE DEF to
<1>5. new \in Jobs  BY <1>1, <1>2, <1>3 DEF Jobs, Steps
<1>6. /\ new.plan = job[w].plan /\ new.step = to /\ new.attempts = job[w].attempts
      /\ new.checked = "passed" => new.met
      /\ new.read = job[w].read
  BY <1>1, <1>2 DEF Jobs
<1> HIDE DEF new
<1>7. OneJob(w, new)  BY <1>1, <1>3, <1>6 DEF OneJob
<1> QED  BY <1>1, <1>3, <1>4, <1>5, <1>6, <1>7, JobIs, JobMoves DEF Validate, Quietly

LEMMA RepairKeeps ==
  ASSUME IncidentInv, NEW w \in Incident, Repair(w), Quietly  PROVE IncidentInv'
<1> DEFINE to == IF Permitted(w) /\ failure[w].contract THEN "verify" ELSE "report"
           new == [job[w] EXCEPT !.step = to]
<1>1. job[w] \in Jobs /\ OneJob(w, job[w]) /\ job[w].step = "repair"  BY JobIs DEF Repair, At
<1>2. to \in {"verify", "report"}  OBVIOUS
<1>3. job' = [job EXCEPT ![w] = new]  BY <1>1, JobIs DEF Repair, Goes
<1> HIDE DEF to
<1>4. new \in Jobs  BY <1>1, <1>2 DEF Jobs, Steps
<1>5. OneJob(w, new) /\ new.read = job[w].read /\ new.step = to
  BY <1>1, <1>2 DEF OneJob, Jobs
<1> HIDE DEF new
<1>6. patches' \subseteq Incident /\ \A v \in patches' \ patches : v = w /\ Permitted(w)
  BY JobIs DEF Repair
<1>7. failure[w].environment # "production"  BY <1>1 DEF OneJob
<1> QED  BY <1>1, <1>2, <1>3, <1>4, <1>5, <1>6, <1>7, JobIs, JobMoves DEF Repair, Quietly

LEMMA VerifyKeeps ==
  ASSUME IncidentInv, NEW w \in Incident, Verify(w), Quietly  PROVE IncidentInv'
<1> DEFINE new == [job[w] EXCEPT !.step = "report"]
<1>1. job[w] \in Jobs /\ OneJob(w, job[w]) /\ job[w].step = "verify"  BY JobIs DEF Verify, At
<1>2. new \in Jobs  BY <1>1 DEF Jobs, Steps
<1>3. job' = [job EXCEPT ![w] = new]  BY <1>1, JobIs DEF Verify, Goes
<1>4. OneJob(w, new) /\ new.read = job[w].read /\ new.step = "report"
  BY <1>1 DEF OneJob, Jobs
<1> HIDE DEF new
<1> QED  BY <1>1, <1>2, <1>3, <1>4, JobIs, JobMoves DEF Verify, Quietly

LEMMA ReportKeeps ==
  ASSUME IncidentInv, NEW w \in Incident, Report(w), Quietly  PROVE IncidentInv'
<1> DEFINE new == [job[w] EXCEPT !.step = "recall"]
<1>1. job[w] \in Jobs /\ OneJob(w, job[w]) /\ job[w].step = "report"  BY JobIs DEF Report, At
<1>2. new \in Jobs  BY <1>1 DEF Jobs, Steps
<1>3. job' = [job EXCEPT ![w] = new]  BY <1>1, JobIs DEF Report, Goes
<1>4. OneJob(w, new) /\ new.read = job[w].read /\ new.step = "recall"
  BY <1>1 DEF OneJob, Jobs
<1> HIDE DEF new
<1>5. reports' \in [{failure[v].scenario : v \in Incident} -> Incident \cup {"none"}]
  <2>1. reports \in [{failure[v].scenario : v \in Incident} -> Incident \cup {"none"}]  BY JobIs
  <2> QED  BY <2>1 DEF Report
<1> QED  BY <1>1, <1>2, <1>3, <1>4, <1>5, JobIs, JobMoves DEF Report, Quietly

LEMMA OldIsApart ==
  ASSUME NEW w \in Incident
  PROVE  Old.incident # w /\ Old \in Memories
<1>1. Old.incident # w  BY IncidentAssumption DEF Old
<1>2. Old \in Memories
  <2>1. "ui-missing-locator" \in Category /\ "locator-heal" \in Strategy  BY DEF Category, Mendable, Strategy
  <2> QED  BY <2>1 DEF Old, Memories
<1> QED  BY <1>1, <1>2

\* One router goes on, and neither its record nor its end changes.
LEMMA RewriteMoves ==
  ASSUME IncidentInv, NEW w \in Incident, NEW new \in Jobs, job' = [job EXCEPT ![w] = new],
         UNCHANGED <<failure, ofProcess, page, reports, patches, drifted>>,
         broken' \in 0..MaxBreaks, crossed' \in BOOLEAN,
         memory' \in [whole : BOOLEAN, records : Seq(Memories)],
         new.plan = job[w].plan, new.attempts = job[w].attempts, new.checked = job[w].checked,
         new.met = job[w].met, job[w].step \notin {"absent", "start"},
         new.step \in {"cut", "write", "done", "stopped"}
  PROVE  /\ IncidentTypeOK' /\ JobInv' /\ PatchInv'
         /\ job'[w] = new /\ \A v \in Incident : v # w => job'[v] = job[v]
         /\ \A v \in Incident : Remembered(v)' = Remembered(v)
<1>1. /\ job \in [Incident -> Jobs] /\ job'[w] = new
      /\ \A v \in Incident : v # w => job'[v] = job[v]
  BY DEF IncidentInv, IncidentTypeOK
<1>2. IncidentTypeOK'  BY <1>1 DEF IncidentInv, IncidentTypeOK
<1>3. JobInv'
  <2>1. \A v \in Incident : OneJob(v, job[v])  BY EachJob DEF IncidentInv
  <2>2. OneJob(w, new)  BY <2>1 DEF OneJob
  <2>3. \A v \in Incident : OneJob(v, job'[v])  BY <1>1, <2>1, <2>2
  <2> QED  BY <2>3, SameJob
<1>4. PatchInv'
  <2>1. \A v : Permitted(v)' <=> Permitted(v)  BY SamePlan
  <2> QED  BY <2>1 DEF IncidentInv, PatchInv
<1>5. \A v \in Incident : Remembered(v)' = Remembered(v)
  <2> SUFFICES ASSUME NEW v \in Incident  PROVE Remembered(v)' = Remembered(v)  OBVIOUS
  <2>1. /\ job'[v].attempts = job[v].attempts /\ job'[v].plan = job[v].plan
        /\ job'[v].checked = job[v].checked
    BY <1>1
  <2> QED  BY <2>1, SameRecord
<1> QED  BY <1>1, <1>2, <1>3, <1>4, <1>5

LEMMA ReadAllType ==
  ASSUME IncidentInv
  PROVE  /\ ReadAll \in Seq(Memories) /\ \A i \in DOMAIN ReadAll : IsWritten(ReadAll[i])
         /\ memory.whole => ReadAll = memory.records
<1>1. memory \in [whole : BOOLEAN, records : Seq(Memories)]  BY DEF IncidentInv, IncidentTypeOK
<1>2. \A i \in DOMAIN memory.records : IsWritten(memory.records[i])  BY DEF IncidentInv, WrittenInv
<1>3. CASE memory.whole  BY <1>1, <1>2, <1>3 DEF ReadAll
<1>4. CASE ~ memory.whole
  <2>1. ReadAll = <<>>  BY <1>4 DEF ReadAll
  <2> QED  BY <1>4, <2>1
<1> QED  BY <1>3, <1>4

LEMMA RecallKeeps ==
  ASSUME IncidentInv, NEW w \in Incident, Recall(w), Quietly  PROVE IncidentInv'
<1> DEFINE new == [job[w] EXCEPT !.read = ReadAll, !.step = "cut"]
<1>1. job[w] \in Jobs /\ job[w].step = "recall"  BY JobIs DEF Recall, At
<1>2. new \in Jobs  BY <1>1, ReadAllType DEF Jobs, Steps
<1>3. job' = [job EXCEPT ![w] = new]  BY <1>1, JobIs DEF Recall
<1>4. /\ new.plan = job[w].plan /\ new.attempts = job[w].attempts /\ new.checked = job[w].checked
      /\ new.met = job[w].met /\ new.step = "cut" /\ new.read = ReadAll
  BY <1>1 DEF Jobs
<1> HIDE DEF new
<1>5. crossed \in BOOLEAN /\ crossed' \in BOOLEAN  BY DEF Recall, IncidentInv, IncidentTypeOK
<1>6. memory \in [whole : BOOLEAN, records : Seq(Memories)]  BY DEF IncidentInv, IncidentTypeOK
<1>7. /\ IncidentTypeOK' /\ JobInv' /\ PatchInv'
      /\ job'[w] = new /\ \A v \in Incident : v # w => job'[v] = job[v]
      /\ \A v \in Incident : Remembered(v)' = Remembered(v)
  BY ZenonT(60), <1>1, <1>2, <1>3, <1>4, <1>5, <1>6, JobIs, RewriteMoves DEF Recall, Quietly
<1>8. /\ \A v \in Incident : At(v, "done")' <=> At(v, "done")
      /\ \A v \in Incident : At(v, "write")' <=> At(v, "write")
      /\ \A v \in Incident : v # w => (At(v, "cut")' <=> At(v, "cut"))
  BY <1>1, <1>4, <1>7 DEF At
<1>9. WrittenInv'
  <2>1. \A r : IsWritten(r) => IsWritten(r)'  BY <1>7, <1>8 DEF IsWritten
  <2>2. \A i \in DOMAIN memory.records : IsWritten(memory.records[i])  BY DEF IncidentInv, WrittenInv
  <2>3. \A v \in Incident : \A i \in DOMAIN job'[v].read : IsWritten(job'[v].read[i])
    <3> SUFFICES ASSUME NEW v \in Incident, NEW i \in DOMAIN job'[v].read
                 PROVE  IsWritten(job'[v].read[i])
      OBVIOUS
    <3>1. CASE v = w  BY <1>4, <1>7, <3>1, ReadAllType
    <3>2. CASE v # w
      <4>1. job'[v] = job[v]  BY <1>7, <3>2
      <4> QED  BY <4>1 DEF IncidentInv, WrittenInv
    <3> QED  BY <3>1, <3>2
  <2>4. memory' = memory  BY DEF Recall
  <2> QED  BY <2>1, <2>2, <2>3, <2>4 DEF WrittenInv
<1>10. TurnInv'
  <2> SUFFICES ASSUME ~ crossed'
               PROVE  /\ \A v, u \in Rewriting' : v = u
                      /\ \A v \in Incident :
                           /\ At(v, "cut")' => memory'.whole /\ job'[v].read = memory'.records
                           /\ At(v, "write")' => Complete(job[v].read)'
                      /\ IF memory'.whole THEN Complete(memory.records)' ELSE \E v \in Incident : At(v, "write")'
    BY DEF TurnInv
  <2>1. ~ crossed /\ Rewriting = {} /\ memory' = memory  BY DEF Recall
  <2>2. \A v \in Incident : ~ At(v, "cut") /\ ~ At(v, "write")  BY <2>1 DEF Rewriting, At
  <2>3. memory.whole /\ Complete(memory.records)
    BY <2>1, <2>2 DEF IncidentInv, TurnInv
  <2>4. \A v \in Rewriting' : v = w  BY <1>8, <2>2 DEF Rewriting, At
  <2>5. \A rs : Complete(rs)' <=> Complete(rs)  BY <1>8 DEF Complete
  <2>6. \A v \in Incident : At(v, "cut")' => v = w  BY <1>8, <2>2
  <2>7. job'[w].read = memory.records  BY <1>4, <1>7, <2>3, ReadAllType
  <2> QED  BY <1>8, <2>1, <2>2, <2>3, <2>4, <2>5, <2>6, <2>7
<1> QED  BY <1>7, <1>9, <1>10 DEF IncidentInv

LEMMA CutKeeps ==
  ASSUME IncidentInv, NEW w \in Incident, Cut(w), Quietly  PROVE IncidentInv'
<1> DEFINE new == [job[w] EXCEPT !.step = "write"]
<1>1. job[w] \in Jobs /\ job[w].step = "cut" /\ At(w, "cut")  BY JobIs DEF Cut, At
<1>2. new \in Jobs  BY <1>1 DEF Jobs, Steps
<1>3. job' = [job EXCEPT ![w] = new]  BY <1>1, JobIs DEF Cut, Goes
<1>4. /\ new.plan = job[w].plan /\ new.attempts = job[w].attempts /\ new.checked = job[w].checked
      /\ new.met = job[w].met /\ new.step = "write" /\ new.read = job[w].read
  BY <1>1 DEF Jobs
<1> HIDE DEF new
<1>5. crossed' \in BOOLEAN  BY DEF Cut, IncidentInv, IncidentTypeOK
<1>6. memory' = [whole |-> FALSE, records |-> <<>>]  BY DEF Cut
<1>7. memory' \in [whole : BOOLEAN, records : Seq(Memories)]  BY <1>6
<1>8. /\ IncidentTypeOK' /\ JobInv' /\ PatchInv'
      /\ job'[w] = new /\ \A v \in Incident : v # w => job'[v] = job[v]
      /\ \A v \in Incident : Remembered(v)' = Remembered(v)
  BY <1>1, <1>2, <1>3, <1>4, <1>5, <1>7, JobIs, RewriteMoves DEF Cut, Quietly
<1>9. /\ \A v \in Incident : At(v, "done")' <=> At(v, "done")
      /\ \A v \in Incident : v # w => (At(v, "write")' <=> At(v, "write"))
      /\ \A v \in Incident : At(v, "cut")' => At(v, "cut") /\ v # w
      /\ At(w, "write")'
      /\ \A v \in Incident : job'[v].read = job[v].read
  BY <1>1, <1>4, <1>8 DEF At
<1>10. WrittenInv'
  <2>1. \A r : IsWritten(r) => IsWritten(r)'  BY <1>8, <1>9 DEF IsWritten
  <2>2. \A v \in Incident : \A i \in DOMAIN job[v].read : IsWritten(job[v].read[i])
    BY DEF IncidentInv, WrittenInv
  <2>3. memory'.records = <<>>  BY <1>6
  <2>4. \A i \in DOMAIN memory'.records : IsWritten(memory.records[i])'  BY <2>3
  <2>5. \A v \in Incident : \A i \in DOMAIN job'[v].read : IsWritten(job[v].read[i])'
    <3> SUFFICES ASSUME NEW v \in Incident, NEW i \in DOMAIN job'[v].read
                 PROVE  IsWritten(job[v].read[i])'
      OBVIOUS
    <3>1. job'[v].read = job[v].read  BY <1>9
    <3>2. IsWritten(job[v].read[i])  BY <2>2, <3>1
    <3> QED  BY <2>1, <3>1, <3>2
  <2> QED  BY <2>4, <2>5 DEF WrittenInv
<1>11. TurnInv'
  <2> SUFFICES ASSUME ~ crossed'
               PROVE  /\ \A v, u \in Rewriting' : v = u
                      /\ \A v \in Incident :
                           /\ At(v, "cut")' => memory'.whole /\ job'[v].read = memory'.records
                           /\ At(v, "write")' => Complete(job[v].read)'
                      /\ IF memory'.whole THEN Complete(memory.records)' ELSE \E v \in Incident : At(v, "write")'
    BY DEF TurnInv
  <2>1. ~ crossed  BY DEF Cut
  <2>2. \A v \in Rewriting : v = w
    <3>1. w \in Rewriting  BY <1>1 DEF Rewriting
    <3> QED  BY <2>1, <3>1 DEF IncidentInv, TurnInv
  <2>3. \A v \in Incident : v # w => ~ At(v, "cut") /\ ~ At(v, "write")  BY <2>2 DEF Rewriting, At
  <2>4. Complete(job[w].read)  BY <1>1, <2>1 DEF IncidentInv, TurnInv
  <2>5. \A rs : Complete(rs)' <=> Complete(rs)  BY <1>9 DEF Complete
  <2>6. \A v \in Rewriting' : v = w  BY <1>8, <2>3 DEF Rewriting, At
  <2>7. ~ memory'.whole  BY <1>6
  <2> QED  BY <1>9, <2>3, <2>4, <2>5, <2>6, <2>7
<1> QED  BY <1>8, <1>10, <1>11 DEF IncidentInv

\* One more record, of an incident that was not among them.
LEMMA AddedIsComplete ==
  ASSUME IncidentInv, NEW w \in Incident, ~ At(w, "done"), NEW rs \in Seq(Memories), Complete(rs),
         NEW r \in Memories, r.incident = w,
         \A v \in Incident : At(v, "done")' <=> (At(v, "done") \/ v = w)
  PROVE  Complete(Append(rs, r))'
<1> DEFINE n == Len(rs)
           all == Append(rs, r)
<1>1. /\ n \in Nat /\ DOMAIN rs = 1..n /\ DOMAIN all = 1..(n + 1)
      /\ all[n + 1] = r /\ \A i \in 1..n : all[i] = rs[i]
  OBVIOUS
<1>2. rs # <<>> /\ rs[1] = Old  BY DEF Complete
<1>3. all # <<>> /\ all[1] = Old  BY <1>1, <1>2
<1> HIDE DEF n, all
<1>4. ASSUME NEW v \in Incident
      PROVE  IF At(v, "done")'
             THEN \E i \in DOMAIN all : \A j \in DOMAIN all : all[j].incident = v <=> j = i
             ELSE \A j \in DOMAIN all : all[j].incident # v
  <2>1. CASE v = w
    <3>1. \A j \in DOMAIN rs : rs[j].incident # w  BY DEF Complete
    <3>2. \A j \in 1..(n + 1) : all[j].incident = w <=> j = n + 1  BY <1>1, <3>1
    <3>3. n + 1 \in DOMAIN all  BY <1>1
    <3> QED  BY <1>1, <2>1, <3>2, <3>3
  <2>2. CASE v # w /\ At(v, "done")
    <3>1. PICK i \in DOMAIN rs : \A j \in DOMAIN rs : rs[j].incident = v <=> j = i  BY <2>2 DEF Complete
    <3>2. \A j \in 1..(n + 1) : all[j].incident = v <=> j = i  BY <1>1, <2>2, <3>1
    <3> QED  BY <1>1, <2>2, <3>1, <3>2
  <2>3. CASE v # w /\ ~ At(v, "done")
    <3>1. \A j \in DOMAIN rs : rs[j].incident # v  BY <2>3 DEF Complete
    <3>2. \A j \in 1..(n + 1) : all[j].incident # v  BY <1>1, <2>3, <3>1
    <3> QED  BY <1>1, <2>3, <3>2
  <2> QED  BY <2>1, <2>2, <2>3
<1> QED  BY <1>3, <1>4 DEF Complete, all

LEMMA WriteKeeps ==
  ASSUME IncidentInv, NEW w \in Incident, Write(w), Quietly  PROVE IncidentInv'
<1> DEFINE new == [job[w] EXCEPT !.step = "done"]
           all == Append(job[w].read, Remembered(w))
<1>1. job[w] \in Jobs /\ job[w].step = "write" /\ At(w, "write")  BY JobIs DEF Write, At
<1>2. new \in Jobs  BY <1>1 DEF Jobs, Steps
<1>3. job' = [job EXCEPT ![w] = new]  BY <1>1, JobIs DEF Write, Goes
<1>4. /\ new.plan = job[w].plan /\ new.attempts = job[w].attempts /\ new.checked = job[w].checked
      /\ new.met = job[w].met /\ new.step = "done" /\ new.read = job[w].read
  BY <1>1 DEF Jobs
<1> HIDE DEF new
<1>5. crossed' \in BOOLEAN  BY DEF Write, IncidentInv, IncidentTypeOK
<1>6. memory' = [whole |-> TRUE, records |-> all]  BY DEF Write
<1>7. Remembered(w) \in Memories /\ job[w].read \in Seq(Memories)
  BY <1>1, RecordType DEF IncidentInv, Jobs
<1>8. /\ all \in Seq(Memories)
      /\ \A i \in DOMAIN all : all[i] = Remembered(w) \/ (i \in DOMAIN job[w].read /\ all[i] = job[w].read[i])
  BY <1>7
<1> HIDE DEF all
<1>9. memory' \in [whole : BOOLEAN, records : Seq(Memories)]  BY <1>6, <1>8
<1>10. /\ IncidentTypeOK' /\ JobInv' /\ PatchInv'
       /\ job'[w] = new /\ \A v \in Incident : v # w => job'[v] = job[v]
       /\ \A v \in Incident : Remembered(v)' = Remembered(v)
  BY <1>1, <1>2, <1>3, <1>4, <1>5, <1>9, JobIs, RewriteMoves DEF Write, Quietly
<1>11. /\ \A v \in Incident : At(v, "done")' <=> (At(v, "done") \/ v = w)
       /\ \A v \in Incident : At(v, "write")' => At(v, "write") /\ v # w
       /\ \A v \in Incident : At(v, "cut")' => At(v, "cut") /\ v # w
       /\ \A v \in Incident : job'[v].read = job[v].read
  BY <1>1, <1>4, <1>10 DEF At
<1>12. WrittenInv'
  <2>1. \A r : IsWritten(r) => IsWritten(r)'  BY <1>10, <1>11 DEF IsWritten
  <2>2. \A v \in Incident : \A i \in DOMAIN job[v].read : IsWritten(job[v].read[i])
    BY DEF IncidentInv, WrittenInv
  <2>3. \A v \in Incident : \A i \in DOMAIN job'[v].read : IsWritten(job[v].read[i])'
    <3> SUFFICES ASSUME NEW v \in Incident, NEW i \in DOMAIN job'[v].read
                 PROVE  IsWritten(job[v].read[i])'
      OBVIOUS
    <3>1. job'[v].read = job[v].read  BY <1>11
    <3>2. IsWritten(job[v].read[i])  BY <2>2, <3>1
    <3> QED  BY <2>1, <3>1, <3>2
  <2>4. IsWritten(Remembered(w))'
    <3>1. At(w, "done")'  BY <1>11
    <3>2. Remembered(w)' = Remembered(w)'  OBVIOUS
    <3> QED  BY <3>1, <3>2 DEF IsWritten
  <2>5. \A i \in DOMAIN memory'.records : IsWritten(memory.records[i])'
    <3> SUFFICES ASSUME NEW i \in DOMAIN memory'.records
                 PROVE  IsWritten(memory.records[i])'
      OBVIOUS
    <3>1. memory'.records = all  BY <1>6
    <3>2. CASE all[i] = Remembered(w)
      <4>1. memory'.records[i] = Remembered(w)'  BY <1>10, <3>1, <3>2
      <4> QED  BY <2>4, <4>1
    <3>3. CASE i \in DOMAIN job[w].read /\ all[i] = job[w].read[i]
      <4>1. IsWritten(job[w].read[i])  BY <2>2, <3>3
      <4> QED  BY <2>1, <3>1, <3>3, <4>1
    <3> QED  BY <1>8, <3>1, <3>2, <3>3
  <2> QED  BY <2>3, <2>5 DEF WrittenInv
<1>13. TurnInv'
  <2> SUFFICES ASSUME ~ crossed'
               PROVE  /\ \A v, u \in Rewriting' : v = u
                      /\ \A v \in Incident :
                           /\ At(v, "cut")' => memory'.whole /\ job'[v].read = memory'.records
                           /\ At(v, "write")' => Complete(job[v].read)'
                      /\ IF memory'.whole THEN Complete(memory.records)' ELSE \E v \in Incident : At(v, "write")'
    BY DEF TurnInv
  <2>1. ~ crossed  BY DEF Write
  <2>2. \A v \in Rewriting : v = w
    <3>1. w \in Rewriting  BY <1>1 DEF Rewriting
    <3> QED  BY <2>1, <3>1 DEF IncidentInv, TurnInv
  <2>3. \A v \in Incident : ~ At(v, "cut")' /\ ~ At(v, "write")'
    BY <1>11, <2>2 DEF Rewriting, At
  <2>4. Complete(job[w].read)  BY <1>1, <2>1 DEF IncidentInv, TurnInv
  <2>5. ~ At(w, "done")  BY <1>1 DEF At
  <2>6. Remembered(w).incident = w  BY DEF Remembered
  <2>7. Complete(Append(job[w].read, Remembered(w)))'
    <3>1. memory'.records = Append(job[w].read, Remembered(w))  BY <1>6 DEF all
    <3>2. job[w].read \in Seq(Memories) /\ Remembered(w) \in Memories  BY <1>7
    <3> DEFINE rs == job[w].read  r == Remembered(w)
    <3>3. job'[w].read = rs /\ Remembered(w)' = r  BY <1>10, <1>11
    <3>4. rs \in Seq(Memories) /\ r \in Memories /\ Complete(rs) /\ r.incident = w  BY <2>4, <2>6, <3>2
    <3> QED  BY <1>11, <2>5, <3>3, <3>4, AddedIsComplete
  <2>8. memory'.whole /\ Complete(memory.records)'
    <3>1. memory'.whole /\ memory'.records = all  BY <1>6
    <3>2. all = Append(job'[w].read, Remembered(w)')  BY <1>10, <1>11 DEF all
    <3> QED  BY <2>7, <3>1, <3>2
  <2>9. Rewriting' = {}  BY <2>3 DEF Rewriting, At
  <2> QED  BY <2>3, <2>8, <2>9
<1> QED  BY <1>10, <1>12, <1>13 DEF IncidentInv

LEMMA StopsKeeps ==
  ASSUME IncidentInv, NEW w \in Incident, Stops(w)  PROVE IncidentInv'
<1> DEFINE new == [job[w] EXCEPT !.step = "stopped"]
<1>1. job[w] \in Jobs /\ job[w].step \notin {"absent", "start", "done", "stopped"}  BY JobIs DEF Stops, Under
<1>2. new \in Jobs  BY <1>1 DEF Jobs, Steps
<1>3. job' = [job EXCEPT ![w] = new]  BY <1>1, JobIs DEF Stops, Goes
<1>4. /\ new.plan = job[w].plan /\ new.attempts = job[w].attempts /\ new.checked = job[w].checked
      /\ new.met = job[w].met /\ new.step = "stopped" /\ new.read = job[w].read
  BY <1>1 DEF Jobs
<1> HIDE DEF new
<1>5. crossed \in BOOLEAN /\ crossed' \in BOOLEAN /\ memory' = memory
  BY DEF Stops, IncidentInv, IncidentTypeOK, At
<1>6. memory' \in [whole : BOOLEAN, records : Seq(Memories)]  BY <1>5 DEF IncidentInv, IncidentTypeOK
<1>7. broken' \in 0..MaxBreaks  BY IncidentAssumption DEF Stops, IncidentInv, IncidentTypeOK
<1>8. /\ IncidentTypeOK' /\ JobInv' /\ PatchInv'
      /\ job'[w] = new /\ \A v \in Incident : v # w => job'[v] = job[v]
      /\ \A v \in Incident : Remembered(v)' = Remembered(v)
  BY <1>1, <1>2, <1>3, <1>4, <1>5, <1>6, <1>7, RewriteMoves DEF Stops
<1>9. /\ \A v \in Incident : At(v, "done")' <=> At(v, "done")
      /\ \A v \in Incident : At(v, "write")' <=> At(v, "write") /\ v # w
      /\ \A v \in Incident : At(v, "cut")' <=> At(v, "cut") /\ v # w
      /\ \A v \in Incident : job'[v].read = job[v].read
  BY <1>1, <1>4, <1>8 DEF At
<1>10. WrittenInv'
  <2>1. \A r : IsWritten(r) => IsWritten(r)'  BY <1>8, <1>9 DEF IsWritten
  <2>2. \A v \in Incident : \A i \in DOMAIN job[v].read : IsWritten(job[v].read[i])
    BY DEF IncidentInv, WrittenInv
  <2>3. \A v \in Incident : \A i \in DOMAIN job'[v].read : IsWritten(job[v].read[i])'
    <3> SUFFICES ASSUME NEW v \in Incident, NEW i \in DOMAIN job'[v].read
                 PROVE  IsWritten(job[v].read[i])'
      OBVIOUS
    <3>1. job'[v].read = job[v].read  BY <1>9
    <3>2. IsWritten(job[v].read[i])  BY <2>2, <3>1
    <3> QED  BY <2>1, <3>1, <3>2
  <2>4. \A i \in DOMAIN memory'.records : IsWritten(memory.records[i])'
    <3> SUFFICES ASSUME NEW i \in DOMAIN memory'.records
                 PROVE  IsWritten(memory.records[i])'
      OBVIOUS
    <3>1. IsWritten(memory.records[i])  BY <1>5 DEF IncidentInv, WrittenInv
    <3> QED  BY <1>5, <2>1, <3>1
  <2> QED  BY <2>3, <2>4 DEF WrittenInv
<1>11. TurnInv'
  <2> SUFFICES ASSUME ~ crossed'
               PROVE  /\ \A v, u \in Rewriting' : v = u
                      /\ \A v \in Incident :
                           /\ At(v, "cut")' => memory'.whole /\ job'[v].read = memory'.records
                           /\ At(v, "write")' => Complete(job[v].read)'
                      /\ IF memory'.whole THEN Complete(memory.records)' ELSE \E v \in Incident : At(v, "write")'
    BY DEF TurnInv
  <2>1. ~ crossed /\ ~ At(w, "write")  BY DEF Stops
  <2>2. \A v \in Rewriting' : v \in Rewriting  BY <1>8, <1>9 DEF Rewriting, At
  <2>3. \A v, u \in Rewriting : v = u  BY <2>1 DEF IncidentInv, TurnInv
  <2>4. \A rs : Complete(rs)' <=> Complete(rs)  BY <1>9 DEF Complete
  <2>5. \A v \in Incident :
          /\ At(v, "cut") => memory.whole /\ job[v].read = memory.records
          /\ At(v, "write") => Complete(job[v].read)
    BY <2>1 DEF IncidentInv, TurnInv
  <2>6. IF memory.whole THEN Complete(memory.records) ELSE \E v \in Incident : At(v, "write")
    BY <2>1 DEF IncidentInv, TurnInv
  <2>7. IF memory'.whole THEN Complete(memory.records)' ELSE \E v \in Incident : At(v, "write")'
    BY <1>5, <1>9, <2>1, <2>4, <2>6
  <2>8. \A v \in Incident :
          /\ At(v, "cut")' => memory'.whole /\ job'[v].read = memory'.records
          /\ At(v, "write")' => Complete(job[v].read)'
    BY <1>5, <1>9, <2>4, <2>5
  <2> QED  BY <2>2, <2>3, <2>7, <2>8
<1> QED  BY <1>8, <1>10, <1>11 DEF IncidentInv

LEMMA QuietKeeps ==
  ASSUME IncidentInv, UNCHANGED <<failure, ofProcess, job, memory, reports, patches, crossed>>,
         page' \in [Incident -> BOOLEAN], drifted' \in [Incident -> 0..MaxDrift], broken' \in 0..MaxBreaks
  PROVE  IncidentInv'
<1>1. IncidentTypeOK'  BY DEF IncidentInv, IncidentTypeOK
<1>2. JobInv'
  <2>1. \A v \in Incident : OneJob(v, job'[v])  BY EachJob DEF IncidentInv
  <2> QED  BY <2>1, SameJob
<1>3. PatchInv'
  <2>1. \A v : Permitted(v)' <=> Permitted(v)  BY SamePlan
  <2> QED  BY <2>1 DEF IncidentInv, PatchInv
<1>4. \A v, s : At(v, s)' <=> At(v, s)  BY DEF At
<1>5. \A v : Remembered(v)' = Remembered(v)  BY SameRecord
<1>6. \A r : IsWritten(r)' <=> IsWritten(r)  BY <1>4, <1>5 DEF IsWritten
<1>7. \A rs : Complete(rs)' <=> Complete(rs)  BY <1>4 DEF Complete
<1>8. WrittenInv'  BY <1>6 DEF IncidentInv, WrittenInv
<1>9. TurnInv'
  <2>1. Rewriting' = Rewriting  BY DEF Rewriting
  <2> QED  BY <1>4, <1>7, <2>1 DEF IncidentInv, TurnInv
<1> QED  BY <1>1, <1>2, <1>3, <1>8, <1>9 DEF IncidentInv

LEMMA DriftsKeeps ==
  ASSUME IncidentInv, NEW w \in Incident, Drifts(w)  PROVE IncidentInv'
<1>1. page' \in [Incident -> BOOLEAN]  BY JobIs DEF Drifts
<1>2. drifted' \in [Incident -> 0..MaxDrift]
  <2>1. drifted[w] \in 0..MaxDrift /\ drifted[w] < MaxDrift /\ MaxDrift \in Nat  BY JobIs, IncidentAssumption DEF Drifts
  <2>2. drifted[w] + 1 \in 0..MaxDrift  BY <2>1
  <2> QED  BY <2>2, JobIs DEF Drifts
<1>3. broken' \in 0..MaxBreaks  BY JobIs DEF Drifts
<1> QED  BY <1>1, <1>2, <1>3, QuietKeeps DEF Drifts

\* Every step of a router, of a page or a stop keeps IncidentInv.
LEMMA IncidentKeeps ==
  ASSUME IncidentInv, IncidentNext \/ UNCHANGED incidentVars  PROVE IncidentInv'
<1>1. CASE IncidentNext
  <2>1. PICK w \in Incident : Route(w) \/ Stops(w) \/ Drifts(w)  BY <1>1 DEF IncidentNext
  <2>2. CASE Route(w)
    <3>1. Quietly  BY <2>2 DEF Route, Quietly
    <3> QED  BY <2>2, <3>1, StartKeeps, CollectKeeps, TryKeeps, ValidateKeeps, RepairKeeps,
                VerifyKeeps, ReportKeeps, RecallKeeps, CutKeeps, WriteKeeps DEF Route
  <2> QED  BY <2>1, <2>2, StopsKeeps, DriftsKeeps
<1>2. CASE UNCHANGED incidentVars
  <2>1. page' = page /\ drifted' = drifted /\ broken' = broken
        /\ UNCHANGED <<failure, ofProcess, job, memory, reports, patches, crossed>>
    BY <1>2 DEF incidentVars
  <2>2. page \in [Incident -> BOOLEAN] /\ drifted \in [Incident -> 0..MaxDrift] /\ broken \in 0..MaxBreaks
    BY DEF IncidentInv, IncidentTypeOK
  <2> QED  BY <2>1, <2>2, QuietKeeps
<1> QED  BY <1>1, <1>2

\* IncidentInv holds when the failures are those a test can give.
LEMMA IncidentStarts ==
  ASSUME \A w \in Incident : IsFailure(failure[w]), ofProcess \in Environment \cup {"none"}, IncidentInit
  PROVE  IncidentInv
<1>1. \A w \in Incident : job[w] = [NewJob EXCEPT !.step =
        IF failure[w].scenario = "none" THEN "absent" ELSE "start"]
  BY DEF IncidentInit
<1>2. /\ \A w \in Incident : /\ job[w].step \in {"absent", "start"} /\ job[w].plan = <<>>
                             /\ job[w].attempts = <<>> /\ job[w].checked = "not"
                             /\ job[w].met = FALSE /\ job[w].read = <<>>
  BY <1>1 DEF NewJob
<1>3. IncidentTypeOK
  <2>1. \A w \in Incident : job[w] \in Jobs
    <3> SUFFICES ASSUME NEW w \in Incident  PROVE job[w] \in Jobs  OBVIOUS
    <3> DEFINE s == IF failure[w].scenario = "none" THEN "absent" ELSE "start"
    <3>1. job[w] = [step |-> s, plan |-> <<>>, attempts |-> <<>>, checked |-> "not", met |-> FALSE, read |-> <<>>]
      BY <1>1 DEF NewJob
    <3>2. s \in Steps  BY DEF Steps
    <3> HIDE DEF s
    <3> QED  BY <3>1, <3>2 DEF Jobs
  <2>2. job \in [Incident -> Jobs]  BY <2>1 DEF IncidentInit
  <2>3. memory \in [whole : BOOLEAN, records : Seq(Memories)]
    <3>1. Old \in Memories  BY DEF Old, Memories, Category, Mendable, Strategy
    <3> QED  BY <3>1 DEF IncidentInit
  <2>4. 0 \in 0..MaxBreaks /\ 0 \in 0..MaxDrift  BY IncidentAssumption
  <2> QED  BY <2>2, <2>3, <2>4 DEF IncidentTypeOK, IncidentInit
<1>4. JobInv  BY <1>2 DEF JobInv
<1>5. PatchInv  BY DEF PatchInv, IncidentInit
<1>6. memory.whole /\ memory.records = <<Old>> /\ DOMAIN memory.records = {1}  BY DEF IncidentInit
<1>7. WrittenInv
  <2>1. \A w \in Incident : DOMAIN job[w].read = {}  BY <1>2
  <2>2. IsWritten(Old)  BY DEF IsWritten
  <2> QED  BY <1>6, <2>1, <2>2 DEF WrittenInv
<1>8. TurnInv
  <2>1. \A w \in Incident : ~ At(w, "cut") /\ ~ At(w, "write") /\ ~ At(w, "done")  BY <1>2 DEF At
  <2>2. \A w \in Incident : Old.incident # w  BY OldIsApart
  <2>3. Complete(memory.records)  BY <1>6, <2>1, <2>2 DEF Complete
  <2>4. Rewriting = {}  BY <2>1 DEF Rewriting, At
  <2> QED  BY <1>6, <2>1, <2>3, <2>4 DEF TurnInv
<1> QED  BY <1>3, <1>4, <1>5, <1>7, <1>8 DEF IncidentInv

-----------------------------------------------------------------------------
(* What IncidentInv says of the bounds and of the memory.                  *)

\* What was tried was planned, and in the order of the plan.
LEMMA TriedAsPlanned ==
  ASSUME IncidentInv, NEW w \in Incident, NEW i \in DOMAIN job[w].attempts
  PROVE  /\ job[w].plan = Plan(w) /\ Plan(w) # <<>> /\ Plan(w) \in Seq(Strategy)
         /\ i \in DOMAIN Plan(w) /\ i \in Nat \ {0}
         /\ job[w].attempts[i].strategy = Plan(w)[i] /\ Plan(w)[i] \in Strategy
<1>1. job[w] \in Jobs /\ OneJob(w, job[w])  BY JobIs
<1>2. /\ job[w].attempts \in Seq([strategy : Strategy, worked : BOOLEAN])
      /\ job[w].plan \in Seq(Strategy)
  BY <1>1 DEF Jobs
<1>3. /\ i \in Nat \ {0} /\ i <= Len(job[w].attempts) /\ Len(job[w].attempts) \in Nat
      /\ Len(job[w].plan) \in Nat /\ DOMAIN job[w].plan = 1..Len(job[w].plan)
  BY <1>2
<1>4. Len(job[w].attempts) <= Len(job[w].plan) /\ job[w].plan \in {<<>>, Plan(w)}
  BY <1>1 DEF OneJob
<1>5. i \in DOMAIN job[w].plan  BY <1>3, <1>4
<1>6. job[w].plan # <<>>  BY <1>5
<1>7. job[w].attempts[i].strategy = job[w].plan[i]  BY <1>1 DEF OneJob
<1>8. job[w].plan[i] \in Strategy  BY <1>2, <1>5, ElementOf
<1> QED  BY <1>2, <1>3, <1>4, <1>5, <1>6, <1>7, <1>8

LEMMA NotTriedSignedOut ==
  ASSUME NEW signals, ~ SignedOut(signals)
  PROVE  signals \cap {"401", "403", "sign-in words", "denied words"} = {}
BY DEF SignedOut

\* Nothing is tried on one who is signed out, and nothing clicks in production.
LEMMA HandsAreOff ==
  ASSUME IncidentInv  PROVE HandsOff
<1> SUFFICES ASSUME NEW w \in Incident, job[w].attempts # <<>>
             PROVE  /\ failure[w].signals \cap {"401", "403", "sign-in words", "denied words"} = {}
                    /\ EnvironmentOf(w) = "production" =>
                         \A i \in DOMAIN job[w].attempts : job[w].attempts[i].strategy \notin Clicks
  BY DEF HandsOff
<1>1. job[w] \in Jobs  BY JobIs
<1>2. job[w].attempts \in Seq([strategy : Strategy, worked : BOOLEAN])  BY <1>1 DEF Jobs
<1>3. 1 \in DOMAIN job[w].attempts  BY <1>2
<1>4. Plan(w) # <<>>  BY <1>3, TriedAsPlanned
<1>5. Class(w).category \in Mendable  BY <1>4, JobIs, PlanIs
<1>6. ~ SignedOut(failure[w].signals)
  <2>1. Class(w).category \notin Diagnosed  BY <1>5, Apart
  <2> QED  BY <2>1, NotSignedOut DEF Class
<1>7. failure[w].signals \cap {"401", "403", "sign-in words", "denied words"} = {}
  BY <1>6, NotTriedSignedOut
<1>8. ASSUME EnvironmentOf(w) = "production", NEW i \in DOMAIN job[w].attempts
      PROVE  job[w].attempts[i].strategy \notin Clicks
  <2>1. i \in DOMAIN Plan(w) /\ job[w].attempts[i].strategy = Plan(w)[i] /\ Plan(w)[i] \in Strategy
    BY <1>8, TriedAsPlanned
  <2>2. PICK k \in Approved(w) : Plan(w)[i] = Offered(w, k)  BY <2>1, JobIs, PlanIs
  <2>3. Allows("production", Plan(w)[i], Class(w).confidence)  BY <1>8, <2>2 DEF Approved
  <2> QED  BY <2>1, <2>3, NoClicksInProduction
<1> QED  BY <1>7, <1>8

\* The first success ends the attempts, each of another strategy and in turn.
LEMMA FirstIsLast ==
  ASSUME IncidentInv  PROVE StopsAtTheFirst
<1> SUFFICES ASSUME NEW w \in Incident, NEW i \in DOMAIN job[w].attempts, NEW j \in DOMAIN job[w].attempts, i < j
             PROVE  /\ ~ job[w].attempts[i].worked
                    /\ job[w].attempts[i].strategy # job[w].attempts[j].strategy
                    /\ Priority(w, job[w].attempts[i].strategy, i) <= Priority(w, job[w].attempts[j].strategy, j)
  BY Zenon DEF StopsAtTheFirst
<1>1. OneJob(w, job[w]) /\ job[w] \in Jobs  BY JobIs
<1>2. j <= Len(job[w].attempts) /\ j \in Nat /\ i \in Nat /\ Len(job[w].attempts) \in Nat
  <2>1. job[w].attempts \in Seq([strategy : Strategy, worked : BOOLEAN])  BY <1>1 DEF Jobs
  <2> QED  BY <2>1
<1>3. i # Len(job[w].attempts)  BY <1>2
<1>4. ~ job[w].attempts[i].worked  BY <1>1, <1>3 DEF OneJob
<1>5. /\ i \in DOMAIN Plan(w) /\ job[w].attempts[i].strategy = Plan(w)[i]
      /\ j \in DOMAIN Plan(w) /\ job[w].attempts[j].strategy = Plan(w)[j]
  BY TriedAsPlanned
<1>6. Plan(w)[i] # Plan(w)[j] /\ Priority(w, Plan(w)[i], i) <= Priority(w, Plan(w)[j], j)
  BY <1>5, JobIs, PlanInTurn
<1> QED  BY <1>4, <1>5, <1>6

\* What is reported mitigated was recovered and, where asked, checked.
LEMMA WasSeen ==
  ASSUME IncidentInv  PROVE MitigatedWasSeen
<1> SUFFICES ASSUME NEW w \in Incident, FinalStatus(w) = "mitigated"
             PROVE  /\ Worked(w)
                    /\ (failure[w].contract /\ Class(w).category \in Validated) => job[w].met
  BY DEF MitigatedWasSeen
<1>1. OneJob(w, job[w]) /\ job[w] \in Jobs  BY JobIs
<1>2. Worked(w) /\ (job[w].checked = "passed" \/ ~ (failure[w].contract /\ RequiresValidation(w)))
  BY DEF FinalStatus
<1>3. job[w].checked = "passed" => job[w].met  BY <1>1 DEF OneJob
<1>4. job[w].plan # <<>>
  <2>1. job[w].attempts \in Seq([strategy : Strategy, worked : BOOLEAN])  BY <1>1 DEF Jobs
  <2>2. job[w].attempts # <<>>  BY <1>2 DEF Worked
  <2>3. 1 \in DOMAIN job[w].attempts  BY <2>1, <2>2
  <2> QED  BY <2>3, TriedAsPlanned
<1> QED  BY <1>2, <1>3, <1>4 DEF RequiresValidation

LEMMA FailedApi ==
  ASSUME NEW signals, signals \cap {"5xx", "5xx typed", "5xx timed out", "4xx"} # {}
  PROVE  ApiFailed(signals)
BY DEF ApiFailed

LEMMA PlaceWentWrong ==
  ASSUME NEW signals, Misplaced(signals)
  PROVE  signals \cap {"modal missing", "modal words", "wrong url", "route words"} # {}
BY DEF Misplaced

\* No patch is planned in production, for access, or for a failing server alone.
LEMMA ForReview ==
  ASSUME IncidentInv  PROVE PatchesAreForReview
<1> SUFFICES ASSUME NEW w \in patches
             PROVE  /\ failure[w].environment # "production"
                    /\ failure[w].signals \cap {"401", "403", "sign-in words", "denied words"} = {}
                    /\ failure[w].signals \cap {"5xx", "5xx typed", "5xx timed out", "4xx"} # {} =>
                         failure[w].signals \cap {"modal missing", "modal words", "wrong url", "route words"} # {}
  BY DEF PatchesAreForReview
<1>1. failure[w].environment # "production" /\ Permitted(w)  BY DEF IncidentInv, PatchInv
<1>2. Class(w).category \notin Diagnosed
  <2>1. Class(w).category \in Mendable  BY <1>1, EligibleIsMendable DEF Permitted
  <2> QED  BY <2>1, Apart
<1>3. ~ SignedOut(failure[w].signals)  BY <1>2, NotSignedOut DEF Class
<1>4. ApiFailed(failure[w].signals) => Misplaced(failure[w].signals)  BY <1>2, NotTheServer DEF Class
<1>5. failure[w].signals \cap {"401", "403", "sign-in words", "denied words"} = {}
  BY <1>3, NotTriedSignedOut
<1>6. ASSUME failure[w].signals \cap {"5xx", "5xx typed", "5xx timed out", "4xx"} # {}
      PROVE  failure[w].signals \cap {"modal missing", "modal words", "wrong url", "route words"} # {}
  <2>1. ApiFailed(failure[w].signals)  BY <1>6, FailedApi
  <2>2. Misplaced(failure[w].signals)  BY <1>4, <2>1
  <2> QED  BY <2>2, PlaceWentWrong
<1> QED  BY <1>1, <1>5, <1>6, Zenon

\* The memory keeps every incident once while its writers take turns.
LEMMA InTurn ==
  ASSUME IncidentInv  PROVE RememberedInTurn
<1> SUFFICES ASSUME ~ crossed, memory.whole
             PROVE  /\ memory.records # <<>> /\ memory.records[1] = Old
                    /\ \A w \in Incident : At(w, "done") =>
                         Cardinality({i \in DOMAIN memory.records : memory.records[i].incident = w}) = 1
  BY DEF RememberedInTurn
<1>1. Complete(memory.records)  BY DEF IncidentInv, TurnInv
<1>2. ASSUME NEW w \in Incident, At(w, "done")
      PROVE  Cardinality({i \in DOMAIN memory.records : memory.records[i].incident = w}) = 1
  <2>1. PICK i \in DOMAIN memory.records :
          \A j \in DOMAIN memory.records : memory.records[j].incident = w <=> j = i
    BY <1>1, <1>2 DEF Complete
  <2>2. {k \in DOMAIN memory.records : memory.records[k].incident = w} = {i}  BY <2>1
  <2> QED  BY <2>2, FS_Singleton
<1> QED  BY <1>1, <1>2 DEF Complete

\* A strategy that the memory advises has worked for the category.
LEMMA WorkedBefore ==
  ASSUME IncidentInv  PROVE AdviceWorked
<1> SUFFICES ASSUME NEW c \in Category, NEW s \in SuccessfulStrategies(c)
             PROVE  \/ c = Old.category /\ s = Old.strategyUsed
                    \/ \E w \in Incident :
                         /\ Class(w).category = c
                         /\ \E i \in DOMAIN job[w].attempts :
                              job[w].attempts[i].strategy = s /\ job[w].attempts[i].worked
  BY DEF AdviceWorked
<1>1. PICK k \in DOMAIN ReadAll : ReadAll[k].category = c /\ ReadAll[k].recovered /\ ReadAll[k].strategyUsed = s
  BY DEF SuccessfulStrategies
<1>2. IsWritten(ReadAll[k])  BY ReadAllType
<1>3. CASE ReadAll[k] = Old  BY <1>1, <1>3
<1>4. ASSUME NEW w \in Incident, ReadAll[k] = Remembered(w)
      PROVE  /\ Class(w).category = c
             /\ \E i \in DOMAIN job[w].attempts :
                  job[w].attempts[i].strategy = s /\ job[w].attempts[i].worked
  <2>1. Class(w).category = c /\ Worked(w) /\ Used(w) = s  BY <1>1, <1>4 DEF Remembered
  <2>2. job[w].attempts \in Seq([strategy : Strategy, worked : BOOLEAN])  BY JobIs DEF Jobs
  <2>3. job[w].attempts # <<>> /\ job[w].attempts[Len(job[w].attempts)].worked  BY <2>1 DEF Worked
  <2>4. Len(job[w].attempts) \in DOMAIN job[w].attempts  BY <2>2, <2>3
  <2> QED  BY <2>1, <2>3, <2>4 DEF Used
<1> QED  BY <1>2, <1>3, <1>4 DEF IsWritten

-----------------------------------------------------------------------------
(* Bug reports: commands, sessions and looks.                              *)

\* A manual check looks first, then reruns; a scenario's reruns are all.
LEMMA LooksAre ==
  ASSUME NEW c, IsCommand(command[c])
  PROVE  LET n == Cardinality(Runs(c)) IN
         /\ n \in Nat \ {0} /\ DOMAIN Looks(c) = 1..n /\ Len(Looks(c)) = n
         /\ \A i \in 1..n : Looks(c)[i] \in Runs(c)
         /\ \A i, j \in 1..n : Looks(c)[i] = Looks(c)[j] => i = j
         /\ \A run \in Runs(c) : \E i \in 1..n : Looks(c)[i] = run
<1> DEFINE n == Cardinality(Runs(c))  r == command[c].reruns
<1>1. r \in Nat \ {0}  BY DEF IsCommand
<1>2. CASE Manual(c)
  <2>1. Runs(c) = 0..r  BY <1>2 DEF Runs
  <2>2. n = r + 1  BY <1>1, <2>1, FS_Interval
  <2>3. Looks(c) = [i \in 1..n |-> i - 1]  BY <1>2 DEF Looks
  <2> HIDE DEF n, r
  <2>4. n \in Nat \ {0} /\ DOMAIN Looks(c) = 1..n /\ Len(Looks(c)) = n  BY <1>1, <2>2, <2>3
  <2>5. \A i \in 1..n : Looks(c)[i] = i - 1  BY <2>3
  <2>6. \A i \in 1..n : Looks(c)[i] \in Runs(c)  BY <1>1, <2>1, <2>2, <2>5
  <2>7. \A i, j \in 1..n : Looks(c)[i] = Looks(c)[j] => i = j  BY <2>4, <2>5
  <2>8. ASSUME NEW run \in Runs(c)  PROVE \E i \in 1..n : Looks(c)[i] = run
    <3>1. run + 1 \in 1..n /\ (run + 1) - 1 = run  BY <1>1, <2>1, <2>2
    <3> QED  BY <2>5, <3>1
  <2> QED  BY <2>4, <2>6, <2>7, <2>8 DEF n
<1>3. CASE ~ Manual(c)
  <2>1. Runs(c) = 1..r  BY <1>3 DEF Runs
  <2>2. n = r  BY <1>1, <2>1, FS_Interval
  <2>3. Looks(c) = [i \in 1..n |-> i]  BY <1>3 DEF Looks
  <2> HIDE DEF n, r
  <2>4. n \in Nat \ {0} /\ DOMAIN Looks(c) = 1..n /\ Len(Looks(c)) = n  BY <1>1, <2>2, <2>3
  <2>5. \A i \in 1..n : Looks(c)[i] = i  BY <2>3
  <2> QED  BY <2>1, <2>2, <2>4, <2>5 DEF n
<1> QED  BY <1>2, <1>3

\* What a command is does not change.
LEMMA SameCommand ==
  ASSUME command' = command
  PROVE  \A c : /\ Runs(c)' = Runs(c) /\ Looks(c)' = Looks(c) /\ (Manual(c)' <=> Manual(c))
                /\ \A run : Folder(c, run)' = Folder(c, run)
                /\ \A n : Mine(c, n)' = Mine(c, n)
<1>1. \A c : (Manual(c)' <=> Manual(c)) /\ Manual(c)' = Manual(c)  BY DEF Manual
<1>2. \A c : Runs(c)' = Runs(c)  BY <1>1 DEF Runs
<1>3. \A c : Looks(c)' = Looks(c)  BY <1>1, <1>2 DEF Looks
<1>4. \A c, run : Folder(c, run)' = Folder(c, run)  BY <1>1 DEF Folder
<1>5. \A c, n : Mine(c, n)' = Mine(c, n)  BY <1>3, <1>4 DEF Mine
<1> QED  BY <1>1, <1>2, <1>3, <1>4, <1>5

\* What may wait under pending/.
Waiting == UNION {{[folder |-> Folder(c, run), by |-> c] : run \in Runs(c)} : c \in Command}

LEMMA WaitingOf ==
  ASSUME NEW c \in Command, NEW run \in Runs(c)
  PROVE  [folder |-> Folder(c, run), by |-> c] \in Waiting
BY DEF Waiting

LEMMA SessionIs ==
  ASSUME BugInv, NEW c \in Command
  PROVE  /\ IsCommand(command[c]) /\ session[c] \in Sessions /\ session \in [Command -> Sessions]
         /\ index \in Indexes /\ records \in [BugId -> BugRecords] /\ pending \subseteq Waiting
         /\ stops \in 0..MaxStops /\ mixed \in BOOLEAN /\ damaged \in BOOLEAN /\ together \subseteq Command
BY DEF BugInv, BugTypeOK, Waiting

LEMMA TypeMoves ==
  ASSUME BugInv, NEW c \in Command, NEW new \in Sessions, command' = command, session' = [session EXCEPT ![c] = new],
         index' \in Indexes, records' \in [BugId -> BugRecords], pending' \subseteq Waiting,
         stops' \in 0..MaxStops, mixed' \in BOOLEAN, damaged' \in BOOLEAN, together' \subseteq Command
  PROVE  /\ BugTypeOK' /\ session'[c] = new
         /\ \A d \in Command : d # c => session'[d] = session[d]
<1>1. session \in [Command -> Sessions]  BY SessionIs
<1>2. session' \in [Command -> Sessions] /\ session'[c] = new
      /\ \A d \in Command : d # c => session'[d] = session[d]
  BY <1>1
<1>3. Waiting' = Waiting
  <2>1. \A d : Runs(d)' = Runs(d) /\ \A run : Folder(d, run)' = Folder(d, run)  BY SameCommand
  <2>2. \A d : {[folder |-> Folder(d, run)', by |-> d] : run \in Runs(d)'} = {[folder |-> Folder(d, run), by |-> d] : run \in Runs(d)}
    BY <2>1
  <2> QED  BY <2>2 DEF Waiting
<1>4. \A d \in Command : IsCommand(command'[d])  BY DEF BugInv, BugTypeOK
<1>5. pending' \subseteq Waiting'  BY <1>3
<1> QED  BY <1>2, <1>4, <1>5 DEF BugTypeOK, Waiting

-----------------------------------------------------------------------------
\* Every look of d, as its session has them, found the bug.
Found(d, seen) == Len(seen) = Cardinality(Runs(d)) /\ \A k \in DOMAIN seen : seen[k]

LookSteps == {"absent", "start", "look", "find", "discard", "done", "stopped"}
\* What LookInv says of one session.
OneLook(c, s) ==
  /\ s.step \in {"absent", "start"} => s.seen = <<>>
  /\ s.step = "look" => Len(s.seen) < Cardinality(Runs(c))
  /\ s.step = "discard" => Len(s.seen) = Cardinality(Runs(c))
  /\ s.step = "find" \/ s.step \notin LookSteps \/ s.outcome \in {"created", "updated"} => Found(c, s.seen)
  /\ s.outcome \in {"created", "updated"} => s.step = "done"
  /\ s.step = "record" => s.bug # 0
  /\ s.new => s.step \in {"cut record", "write record", "cut index", "write index", "stopped"}

LEMMA SavingIs ==
  ASSUME NEW c \in Command  PROVE c \in Saving <=> session[c].step \notin LookSteps
BY DEF Saving, Away, LookSteps

LEMMA NextSavingIs ==
  ASSUME NEW c \in Command  PROVE c \in Saving' <=> session'[c].step \notin LookSteps
BY DEF Saving, Away, LookSteps

LEMMA EachLook ==
  ASSUME LookInv, NEW c \in Command
  PROVE  /\ OneLook(c, session[c])
         /\ \A i \in DOMAIN session[c].draft.sightings : Confirmed(session[c].draft.sightings[i])
<1>1. c \in Saving <=> session[c].step \notin LookSteps  BY SavingIs
<1>2. session[c].new => session[c].step \in {"cut record", "write record", "cut index", "write index", "stopped"}
  BY DEF LookInv, Files, Writing, Is
<1> QED  BY <1>1, <1>2 DEF LookInv, OneLook, Found, Confirmed, Is, Filed

LEMMA SightingOf ==
  ASSUME NEW s \in Seq(Command), NEW i \in DOMAIN s  PROVE s[i] \in Command
OBVIOUS

LEMMA LookMoves ==
  ASSUME BugInv, NEW c \in Command, NEW new \in Sessions, command' = command,
         session'[c] = new, \A d \in Command : d # c => session'[d] = session[d],
         OneLook(c, new), new.seen = session[c].seen \/ session[c].step = "look",
         \A i \in DOMAIN new.draft.sightings : Confirmed(new.draft.sightings[i]),
         \A b \in BugId : records'[b] \in {records[b], NoRecord, session[c].draft}
  PROVE  LookInv'
<1>1. LookInv  BY DEF BugInv
<1>2. \A d : Runs(d)' = Runs(d)  BY SameCommand
<1>3. ASSUME NEW d, Confirmed(d), d \in Command  PROVE Confirmed(d)'
  <2>1. CASE d # c \/ new.seen = session[c].seen
    <3>1. session'[d].seen = session[d].seen  BY <1>3, <2>1
    <3> QED  BY <1>2, <1>3, <3>1 DEF Confirmed
  <2>2. CASE d = c /\ session[c].step = "look"
    <3>1. Len(session[c].seen) < Cardinality(Runs(c)) /\ Len(session[c].seen) = Cardinality(Runs(c))
      BY <1>1, <1>3, <2>2 DEF LookInv, Is, Confirmed
    <3>2. Cardinality(Runs(c)) \in Nat  BY SessionIs, LooksAre
    <3> QED  BY <3>1, <3>2
  <2> QED  BY <2>1, <2>2
<1>4. \A d \in Command : OneLook(d, session'[d])  BY <1>1, EachLook
<1>5. ASSUME NEW d \in Command  PROVE
        /\ (Is(d, "absent") \/ Is(d, "start") => session[d].seen = <<>>)'
        /\ (Is(d, "look") => Len(session[d].seen) < Cardinality(Runs(d)))'
        /\ (Is(d, "discard") => Len(session[d].seen) = Cardinality(Runs(d)))'
        /\ (Is(d, "find") \/ d \in Saving \/ Filed(d) => Confirmed(d))'
        /\ (Filed(d) => Is(d, "done"))'
        /\ (Is(d, "record") => session[d].bug # 0)'
        /\ (session[d].new => Files(d) \/ Is(d, "stopped"))'
  <2>1. OneLook(d, session'[d])  BY <1>4
  <2>2. d \in Saving' <=> session'[d].step \notin LookSteps  BY NextSavingIs
  <2>3. Found(d, session'[d].seen) => Confirmed(d)'  BY <1>2 DEF Found, Confirmed
  <2>4. session'[d].new => (Files(d) \/ Is(d, "stopped"))'
    BY <2>1 DEF OneLook, Files, Writing, Is
  <2> QED  BY <1>2, <2>1, <2>2, <2>3, <2>4 DEF OneLook, Is, Filed
<1>6. ASSUME NEW d \in Command, NEW i \in DOMAIN session'[d].draft.sightings
      PROVE  Confirmed(session[d].draft.sightings[i])'
  <2> DEFINE e == session'[d].draft.sightings[i]
  <2>1. Confirmed(e)  BY <1>1, EachLook
  <2>2. session'[d] \in Sessions  BY SessionIs
  <2>3. session'[d].draft.sightings \in Seq(Command)  BY <2>2 DEF Sessions, BugRecords
  <2>4. e \in Command  BY <2>3, SightingOf
  <2> QED  BY <1>3, <2>1, <2>4
<1>7. ASSUME NEW b \in BugId, NEW i \in DOMAIN records'[b].sightings
      PROVE  Confirmed(records[b].sightings[i])'
  <2> DEFINE e == records'[b].sightings[i]
  <2>1. DOMAIN NoRecord.sightings = {}  BY DEF NoRecord
  <2>2. CASE records'[b] = records[b]
    <3>1. Confirmed(e)  BY <1>1, <2>2 DEF LookInv
    <3>2. records[b] \in BugRecords  BY SessionIs
    <3>3. records[b].sightings \in Seq(Command)  BY <3>2 DEF BugRecords
    <3>4. e \in Command  BY <2>2, <3>3, SightingOf
    <3> QED  BY <1>3, <3>1, <3>4
  <2>3. CASE records'[b] = session[c].draft
    <3>1. Confirmed(e)  BY <1>1, <2>3, EachLook
    <3>2. session[c] \in Sessions  BY SessionIs
    <3>3. session[c].draft.sightings \in Seq(Command)  BY <3>2 DEF Sessions, BugRecords
    <3>4. e \in Command  BY <2>3, <3>3, SightingOf
    <3> QED  BY <1>3, <3>1, <3>4
  <2>4. CASE records'[b] = NoRecord
    <3>1. i \in DOMAIN NoRecord.sightings  BY <2>4
    <3> QED  BY <2>1, <3>1
  <2> QED  BY <2>2, <2>3, <2>4
<1> QED  BY <1>5, <1>6, <1>7 DEF LookInv

-----------------------------------------------------------------------------
(* The evidence of a sighting.                                             *)

\* What EvidenceInv says of one command, of its session s, what waits and what
\* is kept.
Adds(s) == s.step = "move" \/ (s.step \in {"cut record", "write record"} /\ ~ s.new)
GoingOn(s) == s.step \notin Away \cup {"discard"}
SaidFiled(s) == s.outcome \in {"created", "updated"}
OwnerIn(f, P) == {p \in P : p.folder = f}
MovedAll(c, s, P, K) ==
  /\ \A n \in 1..s.moved : <<s.bug, c, Looks(c)[n], c>> \in K
  /\ \A n \in (s.moved + 1)..Len(s.seen) : OwnerIn(Folder(c, Looks(c)[n]), P) = {Mine(c, n)}
  /\ \A p \in P : p.by = c => \E n \in (s.moved + 1)..Len(s.seen) : p = Mine(c, n)
Counts(c, s, P) ==
  /\ s.step \in {"absent", "start"} => s.moved = 0 /\ \A p \in P : p.by # c
  /\ GoingOn(s) /\ ~ Adds(s) => s.moved = 0
  /\ s.step = "move" => s.moved < Len(s.seen)
  /\ (Adds(s) /\ s.step # "move") \/ SaidFiled(s) => s.moved = Len(s.seen)
Evidence(c, s, P, K, T) ==
  /\ Counts(c, s, P)
  /\ (GoingOn(s) \/ SaidFiled(s)) /\ c \notin T => MovedAll(c, s, P, K)
Pairs ==
  \A c, d \in Command :
    c # d /\ Manual(c) /\ Manual(d) /\ command[c].page = command[d].page
      /\ session[c].step \notin Away /\ session[d].step \notin Away => c \in together

LEMMA EachEvidence ==
  ASSUME EvidenceInv
  PROVE  Pairs /\ \A c \in Command : Evidence(c, session[c], pending, kept, together)
<1>1. \A f : Owner(f) = OwnerIn(f, pending)  BY DEF Owner, OwnerIn
<1>2. \A c \in Command :
        /\ AddsTo(c) <=> Adds(session[c])
        /\ Going(c) <=> GoingOn(session[c])
        /\ Filed(c) <=> SaidFiled(session[c])
        /\ \A s : Is(c, s) <=> session[c].step = s
  BY DEF AddsTo, Adds, Going, GoingOn, Filed, SaidFiled, Is, Writing
<1>3. ASSUME NEW c \in Command  PROVE Counts(c, session[c], pending)
  BY <1>2 DEF EvidenceInv, Counts
<1>4. ASSUME NEW c \in Command, GoingOn(session[c]) \/ SaidFiled(session[c]), c \notin together
      PROVE  MovedAll(c, session[c], pending, kept)
  BY <1>1, <1>2, <1>4 DEF EvidenceInv, MovedAll
<1> QED  BY <1>3, <1>4 DEF EvidenceInv, Pairs, Evidence

LEMMA NextEvidence ==
  ASSUME command' = command, Pairs', \A c \in Command : Evidence(c, session'[c], pending', kept', together')
  PROVE  EvidenceInv'
<1>1. \A f : Owner(f)' = OwnerIn(f, pending')  BY DEF Owner, OwnerIn
<1>2. \A c \in Command :
        /\ AddsTo(c)' <=> Adds(session'[c])
        /\ Going(c)' <=> GoingOn(session'[c])
        /\ Filed(c)' <=> SaidFiled(session'[c])
        /\ \A s : Is(c, s)' <=> session'[c].step = s
  BY DEF AddsTo, Adds, Going, GoingOn, Filed, SaidFiled, Is, Writing
<1>3. \A c : /\ Looks(c)' = Looks(c)
             /\ \A run : Folder(c, run)' = Folder(c, run)
             /\ \A n : Mine(c, n)' = Mine(c, n)
  BY SameCommand
<1>4. ASSUME NEW c \in Command
      PROVE  /\ (Is(c, "absent") \/ Is(c, "start") => session[c].moved = 0 /\ \A p \in pending : p.by # c)'
             /\ (Going(c) /\ ~ AddsTo(c) => session[c].moved = 0)'
             /\ (Is(c, "move") => session[c].moved < Len(session[c].seen))'
             /\ ((AddsTo(c) /\ ~ Is(c, "move")) \/ Filed(c) => session[c].moved = Len(session[c].seen))'
  BY <1>2 DEF Evidence, Counts
<1>5. ASSUME NEW c \in Command, (Going(c) \/ Filed(c))', c \notin together'
      PROVE  /\ \A n \in 1..session'[c].moved : <<session'[c].bug, c, Looks(c)[n]', c>> \in kept'
             /\ \A n \in (session'[c].moved + 1)..Len(session'[c].seen) :
                  Owner(Folder(c, Looks(c)[n]))' = {Mine(c, n)}'
             /\ \A p \in pending' : p.by = c =>
                  \E n \in (session'[c].moved + 1)..Len(session'[c].seen) : p = Mine(c, n)'
  <2>1. MovedAll(c, session'[c], pending', kept')  BY <1>2, <1>5 DEF Evidence
  <2>2. Looks(c)' = Looks(c)  BY <1>3
  <2>3. \A n : Folder(c, Looks(c)[n])' = Folder(c, Looks(c)[n]) /\ Mine(c, n)' = Mine(c, n)
    BY <1>3, <2>2
  <2>4. \A n : Owner(Folder(c, Looks(c)[n]))' = OwnerIn(Folder(c, Looks(c)[n]), pending')
    BY <2>3 DEF Owner, OwnerIn
  <2> QED  BY <2>1, <2>2, <2>3, <2>4 DEF MovedAll
<1> QED  BY <1>4, <1>5 DEF EvidenceInv, Pairs

\* Two that are under way at once have folders of their own, unless both check
\* one page by hand.
LEMMA FoldersApart ==
  ASSUME BugInv, NEW c \in Command, NEW d \in Command, c # d, session[c].step \notin Away,
         session[d].step \notin Away, d \notin together, NEW r, NEW s
  PROVE  Folder(c, r) # Folder(d, s)
<1>1. /\ command[c].page \notin Command /\ command[d].page \notin Command
  BY SessionIs DEF IsCommand
<1>2. ~ (Manual(c) /\ Manual(d) /\ command[c].page = command[d].page)
  BY DEF BugInv, EvidenceInv
<1> QED  BY <1>1, <1>2 DEF Folder

\* What c does leaves the evidence of the others alone.
LEMMA OthersKeep ==
  ASSUME NEW c, NEW d, c # d, NEW s, NEW P, NEW K, NEW T, Evidence(d, s, P, K, T),
         NEW P1, NEW K1, NEW T1, K \subseteq K1, T \subseteq T1,
         \A p \in P1 \ P : p.by = c,
         GoingOn(s) /\ d \notin T1 =>
           \A n \in (s.moved + 1)..Len(s.seen) :
             OwnerIn(Folder(d, Looks(d)[n]), P1) = OwnerIn(Folder(d, Looks(d)[n]), P),
         SaidFiled(s) => s.step = "done" /\ s.moved \in Nat
  PROVE  Evidence(d, s, P1, K1, T1)
<1>1. Counts(d, s, P1)  BY DEF Evidence, Counts
<1>2. ASSUME GoingOn(s) \/ SaidFiled(s), d \notin T1  PROVE MovedAll(d, s, P1, K1)
  <2>1. MovedAll(d, s, P, K)  BY <1>2 DEF Evidence
  <2>2. \A n \in (s.moved + 1)..Len(s.seen) : OwnerIn(Folder(d, Looks(d)[n]), P1) = {Mine(d, n)}
    <3>1. CASE GoingOn(s)  BY <1>2, <2>1, <3>1 DEF MovedAll
    <3>2. CASE SaidFiled(s)
      <4>1. s.moved = Len(s.seen) /\ s.moved \in Nat  BY <3>2 DEF Evidence, Counts
      <4>2. (s.moved + 1)..Len(s.seen) = {}  BY <4>1
      <4> QED  BY <4>2
    <3> QED  BY <1>2, <3>1, <3>2
  <2>3. \A n \in 1..s.moved : <<s.bug, d, Looks(d)[n], d>> \in K1  BY <2>1 DEF MovedAll
  <2>4. \A p \in P1 : p.by = d => \E n \in (s.moved + 1)..Len(s.seen) : p = Mine(d, n)
    BY <2>1 DEF MovedAll
  <2> QED  BY <2>2, <2>3, <2>4 DEF MovedAll
<1> QED  BY <1>1, <1>2 DEF Evidence

LEMMA PairsStay ==
  ASSUME BugInv, NEW c \in Command, command' = command, together \subseteq together',
         \A d \in Command : d # c => session'[d] = session[d],
         session[c].step \notin Away
  PROVE  Pairs'
<1>1. \A d : Manual(d)' <=> Manual(d)  BY SameCommand
<1>2. Pairs  BY EachEvidence DEF BugInv
<1> QED  BY <1>1, <1>2 DEF Pairs

\* c goes on, and touches no folder.
LEMMA EvidenceStays ==
  ASSUME BugInv, NEW c \in Command, NEW new \in Sessions, UNCHANGED <<command, pending, kept, together>>,
         session'[c] = new, \A d \in Command : d # c => session'[d] = session[d],
         session[c].step \notin Away, session[c].step # "discard",
         new.step \notin {"absent", "start"}, new.seen = session[c].seen, new.moved = session[c].moved,
         new.bug = session[c].bug \/ ~ Adds(session[c]),
         GoingOn(new) /\ ~ Adds(new) => ~ Adds(session[c]),
         new.step = "move" => session[c].step = "move" \/ (~ Adds(session[c]) /\ new.seen # <<>>),
         (Adds(new) /\ new.step # "move") \/ SaidFiled(new) => Adds(session[c]) /\ session[c].step # "move"
  PROVE  EvidenceInv'
<1>1. Pairs /\ \A d \in Command : Evidence(d, session[d], pending, kept, together)
  BY EachEvidence DEF BugInv
<1>2. Pairs'  BY PairsStay
<1>3. session[c] \in Sessions  BY SessionIs
<1>4. session[c].moved \in Nat /\ session[c].seen \in Seq(BOOLEAN)  BY <1>3 DEF Sessions
<1>5. GoingOn(session[c])  BY DEF GoingOn
<1>6. Counts(c, new, pending)
  <2>1. Counts(c, session[c], pending)  BY <1>1 DEF Evidence
  <2>2. ~ Adds(session[c]) => session[c].moved = 0  BY <1>5, <2>1 DEF Counts
  <2>3. new.seen # <<>> => 0 < Len(new.seen)  BY <1>4
  <2> QED  BY <2>1, <2>2, <2>3 DEF Counts
<1>7. ASSUME c \notin together  PROVE MovedAll(c, new, pending, kept)
  <2>1. MovedAll(c, session[c], pending, kept)  BY <1>1, <1>5, <1>7 DEF Evidence
  <2>2. CASE new.bug = session[c].bug  BY <2>1, <2>2 DEF MovedAll
  <2>3. CASE ~ Adds(session[c])
    <3>1. session[c].moved = 0  BY <1>1, <1>5, <2>3 DEF Evidence, Counts
    <3>2. 1..new.moved = {}  BY <3>1
    <3> QED  BY <2>1, <3>2 DEF MovedAll
  <2> QED  BY <2>2, <2>3
<1>8. Evidence(c, new, pending, kept, together)  BY <1>6, <1>7 DEF Evidence
<1>9. \A d \in Command : Evidence(d, session'[d], pending, kept, together)  BY <1>1, <1>8
<1> QED  BY <1>2, <1>9, NextEvidence

-----------------------------------------------------------------------------
(* Every step keeps the types, the looks and the evidence.                 *)

\* All but the books (BooksInv), and that the others stand still.
Sound(c) ==
  /\ BugTypeOK' /\ LookInv' /\ EvidenceInv'
  /\ session'[c] \in Sessions
  /\ \A d \in Command : d # c => session'[d] = session[d]

LEMMA ReadIndexType ==
  ASSUME BugInv, NEW c \in Command
  PROVE  /\ ReadIndex \in Indexes
         /\ ReadIndex.signatures[command[c].signature] \in {0} \cup BugId
         /\ ReadIndex.sequence + 1 \in BugId => Counted(ReadIndex, c) \in Indexes
<1>1. NoIndex \in Indexes  BY DEF NoIndex, Indexes
<1>2. ReadIndex \in Indexes  BY <1>1, SessionIs DEF ReadIndex
<1>3. command[c].signature \in Signature  BY SessionIs DEF IsCommand
<1>4. ReadIndex.signatures[command[c].signature] \in {0} \cup BugId  BY <1>2, <1>3 DEF Indexes
<1>5. ASSUME ReadIndex.sequence + 1 \in BugId  PROVE Counted(ReadIndex, c) \in Indexes
  <2>1. [ReadIndex.signatures EXCEPT ![command[c].signature] = ReadIndex.sequence + 1] \in [Signature -> {0} \cup BugId]
    BY <1>2, <1>3, <1>5 DEF Indexes
  <2> QED  BY <1>2, <1>5, <2>1 DEF Counted, Indexes
<1> QED  BY <1>2, <1>4, <1>5

LEMMA FindSound ==
  ASSUME BugInv, NEW c \in Command, Find(c), UNCHANGED <<command, stops, together>>  PROVE Sound(c)
<1> DEFINE bug == ReadIndex.signatures[command[c].signature]
           to == IF bug = 0 THEN "create" ELSE "record"
           new == [session[c] EXCEPT !.bug = bug, !.step = to]
<1>1. session[c] \in Sessions /\ session[c].step = "find"  BY SessionIs DEF Find, Is
<1>2. bug \in {0} \cup BugId  BY ReadIndexType
<1>3. to \in {"create", "record"} /\ (to = "record" => bug # 0)  OBVIOUS
<1>4. session' = [session EXCEPT ![c] = new]  BY <1>1, SessionIs DEF Find
<1> HIDE DEF bug, to
<1>5. new \in Sessions  BY <1>1, <1>2, <1>3 DEF Sessions
<1>6. /\ new.bug = bug /\ new.step = to /\ new.seen = session[c].seen /\ new.moved = session[c].moved
      /\ new.draft = session[c].draft /\ new.new = session[c].new /\ new.outcome = session[c].outcome
  BY <1>1 DEF Sessions
<1> HIDE DEF new
<1>7. OneLook(c, session[c]) /\ \A i \in DOMAIN new.draft.sightings : Confirmed(new.draft.sightings[i])
  BY <1>6, EachLook DEF BugInv
<1>8. mixed' \in BOOLEAN  BY SessionIs DEF Find
<1>9. /\ BugTypeOK' /\ session'[c] = new
      /\ \A d \in Command : d # c => session'[d] = session[d]
  BY <1>4, <1>5, <1>8, SessionIs, TypeMoves DEF Find
<1>10. OneLook(c, new)  BY <1>1, <1>3, <1>6, <1>7 DEF OneLook
<1>11. LookInv'  BY <1>5, <1>6, <1>7, <1>9, <1>10, LookMoves DEF Find
<1>12. EvidenceInv'
  <2>1. new.outcome \notin {"created", "updated"}  BY <1>3, <1>6, <1>10 DEF OneLook
  <2>2. ~ Adds(new) /\ ~ Adds(session[c]) /\ ~ SaidFiled(new)  BY <1>1, <1>3, <1>6, <2>1 DEF Adds, SaidFiled
  <2> QED  BY <1>1, <1>3, <1>5, <1>6, <1>9, <2>2, EvidenceStays DEF Find, Away
<1> QED  BY <1>5, <1>9, <1>11, <1>12 DEF Sound

LEMMA ReadRecordSound ==
  ASSUME BugInv, NEW c \in Command, ReadRecord(c), UNCHANGED <<command, stops, together>>  PROVE Sound(c)
<1> DEFINE old == records[session[c].bug]
           draft == IF old.whole THEN [old EXCEPT !.sightings = Append(@, c)] ELSE session[c].draft
           to == IF old.whole THEN "move" ELSE "create"
           new == [session[c] EXCEPT !.draft = draft, !.step = to]
<1>1. session[c] \in Sessions /\ session[c].step = "record"  BY SessionIs DEF ReadRecord, Is
<1>2. OneLook(c, session[c]) /\ \A i \in DOMAIN session[c].draft.sightings : Confirmed(session[c].draft.sightings[i])
  BY EachLook DEF BugInv
<1>3. session[c].bug \in BugId  BY <1>1, <1>2 DEF OneLook, Sessions
<1>4. old \in BugRecords  BY <1>3, SessionIs
<1>5. old.sightings \in Seq(Command)  BY <1>4 DEF BugRecords
<1>6. Append(old.sightings, c) \in Seq(Command)
      /\ \A i \in DOMAIN Append(old.sightings, c) :
           Append(old.sightings, c)[i] = c \/ (i \in DOMAIN old.sightings /\ Append(old.sightings, c)[i] = old.sightings[i])
  BY <1>5
<1>7. draft \in BugRecords
  <2>1. session[c].draft \in BugRecords  BY <1>1 DEF Sessions
  <2> QED  BY <1>4, <1>6, <2>1 DEF BugRecords
<1>8. \A i \in DOMAIN draft.sightings : Confirmed(draft.sightings[i])
  <2>1. \A i \in DOMAIN old.sightings : Confirmed(old.sightings[i])  BY <1>3 DEF BugInv, LookInv
  <2>2. Confirmed(c)
    <3>1. c \in Saving  BY <1>1, SavingIs DEF LookSteps
    <3> QED  BY <3>1 DEF BugInv, LookInv
  <2>3. CASE old.whole
    <3>1. draft.sightings = Append(old.sightings, c)  BY <1>4, <2>3 DEF BugRecords
    <3> QED  BY <1>6, <2>1, <2>2, <3>1
  <2>4. CASE ~ old.whole  BY <1>2, <2>4
  <2> QED  BY <2>3, <2>4
<1>9. to \in {"create", "move"}  OBVIOUS
<1>10. session' = [session EXCEPT ![c] = new]  BY <1>1, SessionIs DEF ReadRecord
<1> HIDE DEF draft, to
<1>11. new \in Sessions  BY <1>1, <1>7, <1>9 DEF Sessions
<1>12. /\ new.bug = session[c].bug /\ new.step = to /\ new.seen = session[c].seen /\ new.moved = session[c].moved
       /\ new.draft = draft /\ new.new = session[c].new /\ new.outcome = session[c].outcome
  BY <1>1 DEF Sessions
<1> HIDE DEF new
<1>13. /\ BugTypeOK' /\ session'[c] = new
       /\ \A d \in Command : d # c => session'[d] = session[d]
  BY <1>10, <1>11, SessionIs, TypeMoves DEF ReadRecord
<1>14. OneLook(c, new)  BY <1>1, <1>2, <1>9, <1>12 DEF OneLook, LookSteps
<1>15. LookInv'  BY <1>8, <1>11, <1>12, <1>13, <1>14, LookMoves DEF ReadRecord
<1>16. EvidenceInv'
  <2>1. new.outcome \notin {"created", "updated"}  BY <1>9, <1>12, <1>14 DEF OneLook
  <2>2. ~ Adds(session[c]) /\ ~ SaidFiled(new)  BY <1>1, <2>1 DEF Adds, SaidFiled
  <2>3. new.seen # <<>>
    <3>1. Len(new.seen) = Cardinality(Runs(c))  BY <1>9, <1>12, <1>14 DEF OneLook, LookSteps, Found
    <3>2. Cardinality(Runs(c)) # 0  BY SessionIs, LooksAre
    <3> QED  BY <3>1, <3>2
  <2>4. ~ (Adds(new) /\ new.step # "move")  BY <1>9, <1>12 DEF Adds
  <2> QED  BY <1>1, <1>9, <1>11, <1>12, <1>13, <2>2, <2>3, <2>4, EvidenceStays DEF ReadRecord, Away
<1> QED  BY <1>11, <1>13, <1>15, <1>16 DEF Sound

LEMMA CreateSound ==
  ASSUME BugInv, NEW c \in Command, Create(c), UNCHANGED <<command, stops, together>>  PROVE Sound(c)
<1> DEFINE draft == [whole |-> TRUE, signature |-> command[c].signature, sightings |-> <<c>>]
           counted == Counted(ReadIndex, c)
           bug == ReadIndex.sequence + 1
           new == [session[c] EXCEPT !.index = counted, !.bug = bug, !.new = TRUE, !.step = "cut record",
                                     !.draft = draft]
<1>1. session[c] \in Sessions /\ session[c].step = "create"  BY SessionIs DEF Create, Is
<1>2. OneLook(c, session[c])  BY EachLook DEF BugInv
<1>3. bug \in BugId /\ counted \in Indexes  BY ReadIndexType DEF Create
<1>4. draft \in BugRecords /\ draft.sightings = <<c>>
  <2>1. command[c].signature \in Signature  BY SessionIs DEF IsCommand
  <2>2. <<c>> \in Seq(Command)  OBVIOUS
  <2> QED  BY <2>1, <2>2 DEF BugRecords
<1>5. session' = [session EXCEPT ![c] = new]  BY <1>1, SessionIs DEF Create
<1> HIDE DEF draft, counted, bug
<1>6. new \in Sessions  BY <1>1, <1>3, <1>4 DEF Sessions
<1>7. /\ new.step = "cut record" /\ new.seen = session[c].seen /\ new.moved = session[c].moved
      /\ new.draft = draft /\ new.new = TRUE /\ new.outcome = session[c].outcome
  BY <1>1 DEF Sessions
<1> HIDE DEF new
<1>8. /\ BugTypeOK' /\ session'[c] = new
      /\ \A d \in Command : d # c => session'[d] = session[d]
  BY <1>5, <1>6, SessionIs, TypeMoves DEF Create
<1>9. OneLook(c, new)  BY <1>1, <1>2, <1>7 DEF OneLook, LookSteps
<1>10. \A i \in DOMAIN new.draft.sightings : Confirmed(new.draft.sightings[i])
  <2>1. Confirmed(c)
    <3>1. c \in Saving  BY <1>1, SavingIs DEF LookSteps
    <3> QED  BY <3>1 DEF BugInv, LookInv
  <2>2. \A i \in DOMAIN <<c>> : <<c>>[i] = c  OBVIOUS
  <2> QED  BY <1>4, <1>7, <2>1, <2>2
<1>11. LookInv'  BY <1>6, <1>7, <1>8, <1>9, <1>10, LookMoves DEF Create
<1>12. EvidenceInv'
  <2>1. new.outcome \notin {"created", "updated"}  BY <1>7, <1>9 DEF OneLook
  <2>2. ~ Adds(session[c]) /\ ~ Adds(new) /\ ~ SaidFiled(new)  BY <1>1, <1>7, <2>1 DEF Adds, SaidFiled
  <2> QED  BY <1>1, <1>6, <1>7, <1>8, <2>2, EvidenceStays DEF Create, Away
<1> QED  BY <1>6, <1>8, <1>11, <1>12 DEF Sound

LEMMA CutRecordSound ==
  ASSUME BugInv, NEW c \in Command, CutRecord(c), UNCHANGED <<command, stops, together>>  PROVE Sound(c)
<1> DEFINE new == [session[c] EXCEPT !.step = "write record"]
<1>1. session[c] \in Sessions /\ session[c].step = "cut record"  BY SessionIs DEF CutRecord, Is
<1>2. OneLook(c, session[c]) /\ \A i \in DOMAIN session[c].draft.sightings : Confirmed(session[c].draft.sightings[i])
  BY EachLook DEF BugInv
<1>3. session' = [session EXCEPT ![c] = new]  BY <1>1, SessionIs DEF CutRecord
<1>4. new \in Sessions  BY <1>1 DEF Sessions
<1>5. /\ new.bug = session[c].bug /\ new.step = "write record" /\ new.seen = session[c].seen
      /\ new.moved = session[c].moved /\ new.draft = session[c].draft /\ new.new = session[c].new
      /\ new.outcome = session[c].outcome
  BY <1>1 DEF Sessions
<1> HIDE DEF new
<1>6. records' \in [BugId -> BugRecords] /\ \A b \in BugId : records'[b] \in {records[b], NoRecord}
  <2>1. NoRecord \in BugRecords  BY DEF NoRecord, BugRecords
  <2> QED  BY <2>1, SessionIs DEF CutRecord
<1>7. /\ BugTypeOK' /\ session'[c] = new
      /\ \A d \in Command : d # c => session'[d] = session[d]
  BY <1>3, <1>4, <1>6, SessionIs, TypeMoves DEF CutRecord
<1>8. OneLook(c, new)  BY <1>1, <1>2, <1>5 DEF OneLook, LookSteps
<1>9. LookInv'  BY <1>2, <1>4, <1>5, <1>6, <1>7, <1>8, LookMoves
<1>10. EvidenceInv'
  <2>1. ~ SaidFiled(new) /\ (Adds(new) <=> Adds(session[c]))
    BY <1>1, <1>5, <1>8 DEF OneLook, SaidFiled, Adds
  <2> QED  BY <1>1, <1>4, <1>5, <1>7, <2>1, EvidenceStays DEF CutRecord, Away
<1> QED  BY <1>4, <1>7, <1>9, <1>10 DEF Sound

LEMMA WriteRecordSound ==
  ASSUME BugInv, NEW c \in Command, WriteRecord(c), UNCHANGED <<command, stops, together>>  PROVE Sound(c)
<1> DEFINE to == IF session[c].new THEN "cut index" ELSE "done"
           outcome == IF session[c].new THEN session[c].outcome
                      ELSE IF Len(session[c].draft.sightings) = 1 THEN "created" ELSE "updated"
           new == [session[c] EXCEPT !.step = to, !.outcome = outcome]
<1>1. session[c] \in Sessions /\ session[c].step = "write record"  BY SessionIs DEF WriteRecord, Is
<1>2. OneLook(c, session[c]) /\ \A i \in DOMAIN session[c].draft.sightings : Confirmed(session[c].draft.sightings[i])
  BY EachLook DEF BugInv
<1>3. session[c].outcome \notin {"created", "updated"}  BY <1>1, <1>2 DEF OneLook
<1>4. /\ session[c].new => to = "cut index" /\ outcome = session[c].outcome
      /\ ~ session[c].new => to = "done" /\ outcome \in {"created", "updated"}
  OBVIOUS
<1>5. session' = [session EXCEPT ![c] = new]  BY <1>1, SessionIs DEF WriteRecord
<1> HIDE DEF to, outcome
<1>6. new \in Sessions  BY <1>1, <1>4 DEF Sessions
<1>7. /\ new.bug = session[c].bug /\ new.step = to /\ new.seen = session[c].seen
      /\ new.moved = session[c].moved /\ new.draft = session[c].draft /\ new.new = session[c].new
      /\ new.outcome = outcome
  BY <1>1 DEF Sessions
<1> HIDE DEF new
<1>8. /\ records' \in [BugId -> BugRecords]
      /\ \A b \in BugId : records'[b] \in {records[b], session[c].draft}
  <2>1. session[c].draft \in BugRecords  BY <1>1 DEF Sessions
  <2> QED  BY <2>1, SessionIs DEF WriteRecord
<1>9. /\ BugTypeOK' /\ session'[c] = new
      /\ \A d \in Command : d # c => session'[d] = session[d]
  BY <1>5, <1>6, <1>8, SessionIs, TypeMoves DEF WriteRecord
<1>10. OneLook(c, new)  BY <1>1, <1>2, <1>3, <1>4, <1>7 DEF OneLook, LookSteps
<1>11. LookInv'  BY <1>2, <1>6, <1>7, <1>8, <1>9, <1>10, LookMoves
<1>12. EvidenceInv'
  <2>1. SaidFiled(new) => Adds(session[c])  BY <1>1, <1>3, <1>4, <1>7 DEF SaidFiled, Adds
  <2>2. ~ Adds(new)  BY <1>4, <1>7 DEF Adds
  <2>3. GoingOn(new) => ~ Adds(session[c])  BY <1>1, <1>4, <1>7 DEF GoingOn, Away, Adds
  <2> QED  BY <1>1, <1>4, <1>6, <1>7, <1>9, <2>1, <2>2, <2>3, EvidenceStays DEF WriteRecord, Away
<1> QED  BY <1>6, <1>9, <1>11, <1>12 DEF Sound

LEMMA CutIndexSound ==
  ASSUME BugInv, NEW c \in Command, CutIndex(c), UNCHANGED <<command, stops, together>>  PROVE Sound(c)
<1> DEFINE new == [session[c] EXCEPT !.step = "write index"]
<1>1. session[c] \in Sessions /\ session[c].step = "cut index"  BY SessionIs DEF CutIndex, Is
<1>2. OneLook(c, session[c]) /\ \A i \in DOMAIN session[c].draft.sightings : Confirmed(session[c].draft.sightings[i])
  BY EachLook DEF BugInv
<1>3. session' = [session EXCEPT ![c] = new]  BY <1>1, SessionIs DEF CutIndex
<1>4. new \in Sessions  BY <1>1 DEF Sessions
<1>5. /\ new.bug = session[c].bug /\ new.step = "write index" /\ new.seen = session[c].seen
      /\ new.moved = session[c].moved /\ new.draft = session[c].draft /\ new.new = session[c].new
      /\ new.outcome = session[c].outcome
  BY <1>1 DEF Sessions
<1> HIDE DEF new
<1>6. index' \in Indexes  BY SessionIs DEF CutIndex, Indexes
<1>7. /\ BugTypeOK' /\ session'[c] = new
      /\ \A d \in Command : d # c => session'[d] = session[d]
  BY <1>3, <1>4, <1>6, SessionIs, TypeMoves DEF CutIndex
<1>8. OneLook(c, new)  BY <1>1, <1>2, <1>5 DEF OneLook, LookSteps
<1>9. LookInv'  BY <1>2, <1>4, <1>5, <1>7, <1>8, LookMoves DEF CutIndex
<1>10. EvidenceInv'
  <2>1. ~ SaidFiled(new) /\ ~ Adds(new) /\ ~ Adds(session[c])
    BY <1>1, <1>5, <1>8 DEF OneLook, SaidFiled, Adds
  <2> QED  BY <1>1, <1>4, <1>5, <1>7, <2>1, EvidenceStays DEF CutIndex, Away
<1> QED  BY <1>4, <1>7, <1>9, <1>10 DEF Sound

LEMMA WriteIndexSound ==
  ASSUME BugInv, NEW c \in Command, WriteIndex(c), UNCHANGED <<command, stops, together>>  PROVE Sound(c)
<1> DEFINE new == [session[c] EXCEPT !.step = "move", !.new = FALSE]
<1>1. session[c] \in Sessions /\ session[c].step = "write index"  BY SessionIs DEF WriteIndex, Is
<1>2. OneLook(c, session[c]) /\ \A i \in DOMAIN session[c].draft.sightings : Confirmed(session[c].draft.sightings[i])
  BY EachLook DEF BugInv
<1>3. session' = [session EXCEPT ![c] = new]  BY <1>1, SessionIs DEF WriteIndex
<1>4. new \in Sessions  BY <1>1 DEF Sessions
<1>5. /\ new.bug = session[c].bug /\ new.step = "move" /\ new.seen = session[c].seen
      /\ new.moved = session[c].moved /\ new.draft = session[c].draft /\ new.new = FALSE
      /\ new.outcome = session[c].outcome
  BY <1>1 DEF Sessions
<1> HIDE DEF new
<1>6. index' \in Indexes  BY <1>1 DEF WriteIndex, Sessions
<1>7. /\ BugTypeOK' /\ session'[c] = new
      /\ \A d \in Command : d # c => session'[d] = session[d]
  BY <1>3, <1>4, <1>6, SessionIs, TypeMoves DEF WriteIndex
<1>8. OneLook(c, new)  BY <1>1, <1>2, <1>5 DEF OneLook, LookSteps
<1>9. LookInv'  BY <1>2, <1>4, <1>5, <1>7, <1>8, LookMoves DEF WriteIndex
<1>10. EvidenceInv'
  <2>1. ~ SaidFiled(new) /\ ~ Adds(session[c]) /\ new.step = "move"
    BY <1>1, <1>5, <1>8 DEF OneLook, SaidFiled, Adds
  <2>2. new.seen # <<>>
    <3>1. Len(new.seen) = Cardinality(Runs(c))  BY <1>5, <1>8 DEF OneLook, LookSteps, Found
    <3>2. Cardinality(Runs(c)) # 0  BY SessionIs, LooksAre
    <3> QED  BY <3>1, <3>2
  <2>3. Adds(new)  BY <1>5 DEF Adds
  <2> QED  BY <1>1, <1>4, <1>5, <1>7, <2>1, <2>2, <2>3, EvidenceStays DEF WriteIndex, Away
<1> QED  BY <1>4, <1>7, <1>9, <1>10 DEF Sound

\* A command that is stopped has filed nothing; its folders are nobody's.
LEMMA EvidenceOfStopped ==
  ASSUME BugInv, NEW c \in Command, UNCHANGED <<command, pending, kept, together>>,
         session[c].step \notin Away, session'[c].step = "stopped", ~ SaidFiled(session'[c]),
         \A d \in Command : d # c => session'[d] = session[d]
  PROVE  EvidenceInv'
<1>1. Pairs /\ \A d \in Command : Evidence(d, session[d], pending, kept, together)
  BY EachEvidence DEF BugInv
<1>2. Pairs'  BY PairsStay
<1>3. Evidence(c, session'[c], pending, kept, together)
  BY DEF Evidence, Counts, GoingOn, Adds, Away
<1>4. \A d \in Command : Evidence(d, session'[d], pending, kept, together)  BY <1>1, <1>3
<1> QED  BY <1>2, <1>4, NextEvidence

LEMMA IsStoppedSound ==
  ASSUME BugInv, NEW c \in Command, IsStopped(c)  PROVE Sound(c)
<1> DEFINE new == [session[c] EXCEPT !.step = "stopped"]
<1>1. session[c] \in Sessions /\ session[c].step \notin Away  BY SessionIs DEF IsStopped
<1>2. OneLook(c, session[c]) /\ \A i \in DOMAIN session[c].draft.sightings : Confirmed(session[c].draft.sightings[i])
  BY EachLook DEF BugInv
<1>3. session' = [session EXCEPT ![c] = new]  BY <1>1, SessionIs DEF IsStopped
<1>4. new \in Sessions  BY <1>1 DEF Sessions
<1>5. /\ new.bug = session[c].bug /\ new.step = "stopped" /\ new.seen = session[c].seen
      /\ new.moved = session[c].moved /\ new.draft = session[c].draft /\ new.new = session[c].new
      /\ new.outcome = session[c].outcome
  BY <1>1 DEF Sessions
<1> HIDE DEF new
<1>6. stops' \in 0..MaxStops /\ damaged' \in BOOLEAN
  <2>1. stops \in 0..MaxStops /\ stops < MaxStops /\ MaxStops \in Nat  BY SessionIs, BugAssumption DEF IsStopped
  <2>2. stops' = stops + 1  BY DEF IsStopped
  <2>3. stops' \in 0..MaxStops  BY <2>1, <2>2
  <2>4. damaged' \in BOOLEAN  BY SessionIs DEF IsStopped
  <2> QED  BY <2>3, <2>4
<1>7. /\ BugTypeOK' /\ session'[c] = new
      /\ \A d \in Command : d # c => session'[d] = session[d]
  BY <1>3, <1>4, <1>6, SessionIs, TypeMoves DEF IsStopped
<1>8. session[c].step # "done"  BY <1>1 DEF Away
<1>9. OneLook(c, new)  BY <1>2, <1>5, <1>8 DEF OneLook, LookSteps
<1>10. LookInv'  BY <1>2, <1>4, <1>5, <1>7, <1>9, LookMoves DEF IsStopped
<1>11. EvidenceInv'
  <2>1. ~ SaidFiled(session'[c])  BY <1>5, <1>7, <1>9 DEF OneLook, SaidFiled
  <2> QED  BY <1>1, <1>5, <1>7, <2>1, EvidenceOfStopped DEF IsStopped
<1> QED  BY <1>4, <1>7, <1>10, <1>11 DEF Sound

LEMMA BeginSound ==
  ASSUME BugInv, NEW c \in Command, Begin(c), UNCHANGED <<command, stops>>  PROVE Sound(c)
<1> DEFINE to == IF command[c].skipped THEN "done" ELSE "look"
           outcome == IF command[c].skipped THEN "skipped" ELSE None
           new == [session[c] EXCEPT !.step = to, !.outcome = outcome]
<1>1. session[c] \in Sessions /\ session[c].step = "start"  BY SessionIs DEF Begin, Is
<1>2. OneLook(c, session[c]) /\ \A i \in DOMAIN session[c].draft.sightings : Confirmed(session[c].draft.sightings[i])
  BY EachLook DEF BugInv
<1>3. to \in {"done", "look"} /\ outcome \in {"skipped", None} /\ outcome \notin {"created", "updated"}
  BY BugAssumption
<1>4. session' = [session EXCEPT ![c] = new]  BY <1>1, SessionIs DEF Begin
<1> HIDE DEF to, outcome
<1>5. new \in Sessions  BY <1>1, <1>3 DEF Sessions
<1>6. /\ new.bug = session[c].bug /\ new.step = to /\ new.seen = session[c].seen
      /\ new.moved = session[c].moved /\ new.draft = session[c].draft /\ new.new = session[c].new
      /\ new.outcome = outcome
  BY <1>1 DEF Sessions
<1> HIDE DEF new
<1>7. together' \subseteq Command /\ together \subseteq together'  BY SessionIs DEF Begin
<1>8. /\ BugTypeOK' /\ session'[c] = new
      /\ \A d \in Command : d # c => session'[d] = session[d]
  BY <1>4, <1>5, <1>7, SessionIs, TypeMoves DEF Begin
<1>9. new.seen = <<>>  BY <1>1, <1>2, <1>6 DEF OneLook
<1>10. OneLook(c, new)
  <2>1. Cardinality(Runs(c)) \in Nat \ {0}  BY SessionIs, LooksAre
  <2>2. Len(new.seen) = 0  BY <1>9
  <2>3. ~ session[c].new  BY <1>1, <1>2 DEF OneLook
  <2>4. new.step = "look" => Len(new.seen) < Cardinality(Runs(c))  BY <2>1, <2>2
  <2> QED  BY <1>3, <1>6, <2>3, <2>4 DEF OneLook, LookSteps
<1>11. LookInv'  BY <1>2, <1>5, <1>6, <1>8, <1>10, LookMoves DEF Begin
<1>12. Pairs /\ \A d \in Command : Evidence(d, session[d], pending, kept, together)
  BY EachEvidence DEF BugInv
<1>13. Pairs'
  <2>1. \A d : Manual(d)' <=> Manual(d)  BY SameCommand
  <2> SUFFICES ASSUME NEW a \in Command, NEW b \in Command, a # b, Manual(a), Manual(b),
                      command[a].page = command[b].page,
                      session'[a].step \notin Away, session'[b].step \notin Away
               PROVE  a \in together'
    BY <2>1 DEF Pairs
  <2>2. CASE a # c /\ b # c  BY <1>7, <1>8, <1>12, <2>2 DEF Pairs
  <2>3. CASE a = c
    <3>1. session[b].step \notin Away  BY <1>8, <2>3
    <3>2. b \in Beside(c)  BY <2>3, <3>1 DEF Beside
    <3>3. a \in {d \in Command : Beside(c) # {} /\ d \in Beside(c) \cup {c}}  BY <2>3, <3>2
    <3> QED  BY <3>3 DEF Begin
  <2>4. CASE b = c
    <3>1. session[a].step \notin Away  BY <1>8, <2>4
    <3>2. a \in Beside(c)  BY <2>4, <3>1 DEF Beside
    <3>3. a \in {d \in Command : Beside(c) # {} /\ d \in Beside(c) \cup {c}}  BY <3>2
    <3> QED  BY <3>3 DEF Begin
  <2> QED  BY <2>2, <2>3, <2>4
<1>14. pending' = pending /\ kept' = kept  BY DEF Begin
<1>15. Evidence(c, new, pending', kept', together')
  <2>1. session[c].moved = 0 /\ \A p \in pending : p.by # c  BY <1>1, <1>12 DEF Evidence, Counts
  <2>2. ~ SaidFiled(new) /\ ~ Adds(new)  BY <1>3, <1>6 DEF SaidFiled, Adds
  <2>3. Counts(c, new, pending)  BY <1>3, <1>6, <2>1, <2>2 DEF Counts
  <2>4. MovedAll(c, new, pending, kept)
    <3>1. new.moved = 0 /\ Len(new.seen) = 0  BY <1>6, <1>9, <2>1
    <3>2. 1..new.moved = {} /\ (new.moved + 1)..Len(new.seen) = {}  BY <3>1
    <3> QED  BY <2>1, <3>2 DEF MovedAll
  <2> QED  BY <1>14, <2>3, <2>4 DEF Evidence
<1>16. \A d \in Command : Evidence(d, session'[d], pending', kept', together')
  <2> SUFFICES ASSUME NEW d \in Command, d # c
               PROVE  Evidence(d, session[d], pending', kept', together')
    BY <1>8, <1>15
  <2>1. Evidence(d, session[d], pending, kept, together)  BY <1>12
  <2>2. OneLook(d, session[d]) /\ session[d] \in Sessions  BY EachLook, SessionIs DEF BugInv
  <2>3. SaidFiled(session[d]) => session[d].step = "done" /\ session[d].moved \in Nat
    BY <2>2 DEF OneLook, SaidFiled, Sessions
  <2>4. \A p \in pending' \ pending : p.by = c  BY <1>14
  <2>5. \A n : OwnerIn(Folder(d, Looks(d)[n]), pending') = OwnerIn(Folder(d, Looks(d)[n]), pending)
    BY <1>14
  <2>6. kept \subseteq kept' /\ together \subseteq together'  BY <1>7, <1>14
  <2> HIDE DEF new
  <2> QED  BY ZenonT(60), <2>1, <2>3, <2>4, <2>5, <2>6, OthersKeep
<1>17. EvidenceInv'  BY <1>13, <1>16, NextEvidence
<1> QED  BY <1>5, <1>8, <1>11, <1>17 DEF Sound

\* c puts something into one of its folders, or takes it away.
LEMMA OthersStay ==
  ASSUME BugInv, NEW c \in Command, session[c].step \notin Away, together' = together,
         NEW run, NEW X, \A p \in X : p.by = c /\ p.folder = Folder(c, run),
         pending' = (pending \ Owner(Folder(c, run))) \cup X, kept \subseteq kept',
         \A d \in Command : d # c => session'[d] = session[d]
  PROVE  \A d \in Command : d # c => Evidence(d, session'[d], pending', kept', together')
<1> SUFFICES ASSUME NEW d \in Command, d # c
             PROVE  Evidence(d, session[d], pending', kept', together')
  OBVIOUS
<1>1. Evidence(d, session[d], pending, kept, together)  BY EachEvidence DEF BugInv
<1>2. OneLook(d, session[d]) /\ session[d] \in Sessions  BY EachLook, SessionIs DEF BugInv
<1>3. SaidFiled(session[d]) => session[d].step = "done" /\ session[d].moved \in Nat
  BY <1>2 DEF OneLook, SaidFiled, Sessions
<1>4. \A p \in pending' \ pending : p.by = c  OBVIOUS
<1>5. ASSUME GoingOn(session[d]), d \notin together', NEW n
      PROVE  OwnerIn(Folder(d, Looks(d)[n]), pending') = OwnerIn(Folder(d, Looks(d)[n]), pending)
  <2>1. session[d].step \notin Away  BY <1>5 DEF GoingOn
  <2>2. Folder(d, Looks(d)[n]) # Folder(c, run)  BY <1>5, <2>1, FoldersApart
  <2>3. pending' = (pending \ OwnerIn(Folder(c, run), pending)) \cup X  BY DEF Owner, OwnerIn
  <2>4. \A p \in X : p.folder = Folder(c, run)  OBVIOUS
  <2> DEFINE f == Folder(c, run)  g == Folder(d, Looks(d)[n])
  <2> HIDE DEF f, g
  <2>5. (\A p \in X : p.folder = f) /\ g # f  BY <2>2, <2>4 DEF f, g
  <2>6. OwnerIn(g, (pending \ OwnerIn(f, pending)) \cup X) = OwnerIn(g, pending)
    BY <2>5 DEF OwnerIn
  <2> QED  BY <2>3, <2>6 DEF f, g
<1> QED  BY ZenonT(60), <1>1, <1>3, <1>4, <1>5, OthersKeep

LEMMA DiscardSound ==
  ASSUME BugInv, NEW c \in Command, Discard(c), UNCHANGED <<command, stops, together>>  PROVE Sound(c)
<1> DEFINE run == PendingDirs(c)[session[c].moved + 1]
<1>1. session[c] \in Sessions /\ session[c].step = "discard"  BY SessionIs DEF Discard, Is
<1>2. OneLook(c, session[c]) /\ \A i \in DOMAIN session[c].draft.sightings : Confirmed(session[c].draft.sightings[i])
  BY EachLook DEF BugInv
<1>3. PICK new \in Sessions :
        /\ session' = [session EXCEPT ![c] = new]
        /\ new.step \in {"stopped", "done", "discard"} /\ new.outcome \in {session[c].outcome, "unconfirmed"}
        /\ new.seen = session[c].seen /\ new.draft = session[c].draft /\ new.new = session[c].new
  <2>1. CASE Owner(Folder(c, run)) = {}
    <3> DEFINE new == [session[c] EXCEPT !.step = "stopped"]
    <3>1. session' = [session EXCEPT ![c] = new]  BY <1>1, <2>1, SessionIs DEF Discard
    <3>2. new \in Sessions  BY <1>1 DEF Sessions
    <3>3. /\ new.step = "stopped" /\ new.outcome = session[c].outcome
          /\ new.seen = session[c].seen /\ new.draft = session[c].draft /\ new.new = session[c].new
      BY <1>1 DEF Sessions
    <3> HIDE DEF new
    <3> QED  BY <3>1, <3>2, <3>3
  <2>2. CASE Owner(Folder(c, run)) # {}
    <3> DEFINE last == session[c].moved + 1 = Len(PendingDirs(c))
               outcome == IF last THEN "unconfirmed" ELSE session[c].outcome
               to == IF last THEN "done" ELSE session[c].step
               new == [session[c] EXCEPT !.moved = session[c].moved + 1, !.outcome = outcome, !.step = to]
    <3>1. session' = [session EXCEPT ![c] = new]  BY <1>1, <2>2, SessionIs DEF Discard
    <3>2. outcome \in {session[c].outcome, "unconfirmed"} /\ to \in {"done", "discard"}  BY <1>1
    <3> HIDE DEF outcome, to
    <3> HIDE DEF last
    <3>6. session[c].moved \in Nat  BY <1>1 DEF Sessions
    <3>3. session[c].moved + 1 \in Nat  BY <3>6
    <3>5. new \in Sessions  BY <1>1, <3>2, <3>3 DEF Sessions
    <3>4. /\ new.step = to /\ new.outcome = outcome
          /\ new.seen = session[c].seen /\ new.draft = session[c].draft /\ new.new = session[c].new
      BY <1>1 DEF Sessions
    <3> HIDE DEF new
    <3> QED  BY <3>1, <3>2, <3>4, <3>5
  <2> QED  BY <2>1, <2>2
<1>4. pending' = pending \/ pending' = pending \ Owner(Folder(c, run))  BY DEF Discard
<1>5. pending' \subseteq Waiting  BY <1>4, SessionIs
<1>6. /\ BugTypeOK' /\ session'[c] = new
      /\ \A d \in Command : d # c => session'[d] = session[d]
  BY <1>3, <1>5, SessionIs, TypeMoves DEF Discard
<1>7. session[c].outcome \notin {"created", "updated"}  BY <1>1, <1>2 DEF OneLook
<1>8. OneLook(c, new)  BY <1>1, <1>2, <1>3, <1>7 DEF OneLook, LookSteps
<1>9. LookInv'  BY <1>2, <1>3, <1>6, <1>8, LookMoves DEF Discard
<1>10. Pairs'  BY <1>1, <1>6, PairsStay DEF Away
<1>11. Evidence(c, new, pending', kept', together')
  BY <1>3, <1>7 DEF Evidence, Counts, GoingOn, SaidFiled, Adds, Away
<1>12. \A d \in Command : d # c => Evidence(d, session'[d], pending', kept', together')
  <2>1. kept' = kept  BY DEF Discard
  <2>2. session[c].step \notin Away  BY <1>1 DEF Away
  <2>3. CASE pending' = pending
    <3>1. \A d \in Command : Evidence(d, session[d], pending, kept, together)  BY EachEvidence DEF BugInv
    <3> QED  BY <1>6, <2>1, <2>3, <3>1
  <2>4. CASE pending' = pending \ Owner(Folder(c, run))
    <3> DEFINE nothing == {}
    <3>1. pending' = (pending \ Owner(Folder(c, run))) \cup nothing  BY <2>4
    <3>2. \A p \in nothing : p.by = c /\ p.folder = Folder(c, run)  OBVIOUS
    <3>3. kept \subseteq kept' /\ together' = together  BY <2>1
    <3>4. \A d \in Command : d # c => session'[d] = session[d]  BY <1>6
    <3> HIDE DEF run, nothing
    <3> QED  BY <2>2, <3>1, <3>2, <3>3, <3>4, OthersStay
  <2> QED  BY <1>4, <2>3, <2>4
<1>13. EvidenceInv'  BY <1>6, <1>10, <1>11, <1>12, NextEvidence
<1> QED  BY <1>3, <1>6, <1>9, <1>13 DEF Sound

LEMMA LookNext ==
  ASSUME BugInv, NEW c \in Command, session[c].step = "look"
  PROVE  LET n == Len(session[c].seen) + 1 IN
         /\ n \in 1..Cardinality(Runs(c)) /\ Cardinality(Runs(c)) \in Nat \ {0}
         /\ Looks(c)[n] \in Runs(c)
         /\ session[c].moved = 0
<1>1. session[c] \in Sessions /\ OneLook(c, session[c])  BY SessionIs, EachLook DEF BugInv
<1>2. Len(session[c].seen) \in Nat
  <2>1. session[c].seen \in Seq(BOOLEAN)  BY <1>1 DEF Sessions
  <2> QED  BY <2>1
<1>3. Len(session[c].seen) < Cardinality(Runs(c))  BY <1>1 DEF OneLook
<1>4. Cardinality(Runs(c)) \in Nat \ {0}  BY SessionIs, LooksAre
<1>5. Len(session[c].seen) + 1 \in 1..Cardinality(Runs(c))  BY <1>2, <1>3, <1>4
<1>6. Looks(c)[Len(session[c].seen) + 1] \in Runs(c)  BY <1>5, SessionIs, LooksAre
<1>7. session[c].moved = 0
  <2>1. Evidence(c, session[c], pending, kept, together)  BY EachEvidence DEF BugInv
  <2> QED  BY <2>1 DEF Evidence, Counts, GoingOn, Adds, Away
<1> QED  BY <1>4, <1>5, <1>6, <1>7

\* One more look: what was seen before still waits, and the new sighting too.
LEMMA OneMoreWaits ==
  ASSUME NEW c, NEW s, NEW new, NEW P, NEW K, MovedAll(c, s, P, K), IsCommand(command[c]),
         s.moved = 0, new.moved = 0, Len(s.seen) \in Nat, Len(new.seen) = Len(s.seen) + 1,
         Len(new.seen) <= Cardinality(Runs(c)),
         NEW P1, P1 = (P \ OwnerIn(Folder(c, Looks(c)[Len(new.seen)]), P)) \cup {Mine(c, Len(new.seen))}
  PROVE  MovedAll(c, new, P1, K)
<1> DEFINE n == Len(s.seen)
           f(k) == Folder(c, Looks(c)[k])
<1>1. n \in Nat /\ Len(new.seen) = n + 1 /\ n + 1 <= Cardinality(Runs(c)) /\ Cardinality(Runs(c)) \in Nat
  BY LooksAre
<1>2. \A k \in 1..n : f(k) # f(n + 1)
  <2> SUFFICES ASSUME NEW k \in 1..n, f(k) = f(n + 1)  PROVE FALSE  OBVIOUS
  <2>1. Looks(c)[k] = Looks(c)[n + 1]  BY DEF Folder
  <2>2. k \in 1..Cardinality(Runs(c)) /\ n + 1 \in 1..Cardinality(Runs(c)) /\ k # n + 1  BY <1>1
  <2> QED  BY <2>1, <2>2, LooksAre
<1>3. \A k : Mine(c, k).folder = f(k) /\ Mine(c, k).by = c  BY DEF Mine
<1>4. \A k \in 1..n : OwnerIn(f(k), P) = {Mine(c, k)}  BY SMTT(60) DEF MovedAll
<1>5. \A p \in P : p.by = c => \E k \in 1..n : p = Mine(c, k)  BY DEF MovedAll
<1>6. P1 = (P \ OwnerIn(f(n + 1), P)) \cup {Mine(c, n + 1)}  BY <1>1
<1> HIDE DEF n, f
<1>7. \A k \in 1..n : OwnerIn(f(k), P1) = {Mine(c, k)}
  <2> SUFFICES ASSUME NEW k \in 1..n  PROVE OwnerIn(f(k), P1) = OwnerIn(f(k), P)  BY <1>4
  <2>1. f(k) # f(n + 1) /\ Mine(c, n + 1).folder = f(n + 1)  BY <1>2, <1>3
  <2> QED  BY <1>6, <2>1 DEF OwnerIn
<1>8. OwnerIn(f(n + 1), P1) = {Mine(c, n + 1)}
  BY <1>3, <1>6 DEF OwnerIn
<1>9. \A p \in P1 : p.by = c => \E k \in 1..(n + 1) : p = Mine(c, k)
  <2> SUFFICES ASSUME NEW p \in P1, p.by = c  PROVE \E k \in 1..(n + 1) : p = Mine(c, k)  OBVIOUS
  <2>1. CASE p = Mine(c, n + 1)  BY <1>1, <2>1
  <2>2. CASE p \in P
    <3>1. PICK k \in 1..n : p = Mine(c, k)  BY <1>5, <2>2
    <3>2. k \in 1..(n + 1)  BY <1>1
    <3> QED  BY <3>1, <3>2
  <2> QED  BY <1>6, <2>1, <2>2
<1>10. \A k \in 1..(n + 1) : OwnerIn(f(k), P1) = {Mine(c, k)}
  <2>1. \A k \in 1..(n + 1) : k \in 1..n \/ k = n + 1  BY <1>1
  <2> QED  BY <1>7, <1>8, <2>1
<1>11. new.moved + 1 = 1 /\ 1..new.moved = {}  OBVIOUS
<1> QED  BY <1>1, <1>9, <1>10, <1>11 DEF MovedAll, f

LEMMA LookSound ==
  ASSUME BugInv, NEW c \in Command, Look(c), UNCHANGED <<command, stops, together>>  PROVE Sound(c)
<1> DEFINE n == Len(session[c].seen) + 1
           run == Looks(c)[n]
           N == Cardinality(Runs(c))
<1>1. session[c] \in Sessions /\ session[c].step = "look"  BY SessionIs DEF Look, Is
<1>2. OneLook(c, session[c]) /\ \A i \in DOMAIN session[c].draft.sightings : Confirmed(session[c].draft.sightings[i])
  BY EachLook DEF BugInv
<1>3. n \in 1..N /\ N \in Nat \ {0} /\ run \in Runs(c) /\ session[c].moved = 0  BY <1>1, LookNext
<1>4. session[c].seen \in Seq(BOOLEAN)  BY <1>1 DEF Sessions
<1>5. \A b \in BOOLEAN : Append(session[c].seen, b) \in Seq(BOOLEAN) /\ Len(Append(session[c].seen, b)) = n
  BY <1>4
<1>6. PICK b \in BOOLEAN :
        LET seen == Append(session[c].seen, b) IN
        /\ session' = [session EXCEPT
             ![c].seen = seen,
             ![c].outcome = IF Looks(c)[Len(seen)] = 0 /\ ~ b THEN "no-issue-detected" ELSE @,
             ![c].step = IF Looks(c)[Len(seen)] = 0 /\ ~ b THEN "done"
                         ELSE IF Len(seen) < Cardinality(Runs(c)) THEN "look"
                         ELSE IF AllConfirmed(c, seen) THEN "find"
                         ELSE "discard"]
        /\ pending' = (pending \ Owner(Folder(c, Looks(c)[Len(seen)])))
                        \cup {[folder |-> Folder(c, Looks(c)[Len(seen)]), by |-> c]}
  BY DEF Look
<1> DEFINE seen == Append(session[c].seen, b)
           outcome == IF run = 0 /\ ~ b THEN "no-issue-detected" ELSE session[c].outcome
           to == IF run = 0 /\ ~ b THEN "done"
                 ELSE IF n < N THEN "look"
                 ELSE IF AllConfirmed(c, seen) THEN "find"
                 ELSE "discard"
           new == [session[c] EXCEPT !.seen = seen, !.outcome = outcome, !.step = to]
<1>7. seen \in Seq(BOOLEAN) /\ Len(seen) = n  BY <1>5
<1>8. session' = [session EXCEPT ![c] = new]  BY <1>1, <1>6, <1>7, SessionIs
<1>9. /\ to \in {"done", "look", "find", "discard"} /\ outcome \in {"no-issue-detected", session[c].outcome}
      /\ to = "look" => n < N
      /\ to \in {"find", "discard"} => ~ (n < N)
      /\ to = "find" => AllConfirmed(c, seen)
  OBVIOUS
<1> HIDE DEF seen, outcome, to
<1>10. new \in Sessions  BY <1>1, <1>7, <1>9 DEF Sessions
<1>11. /\ new.step = to /\ new.seen = seen /\ new.moved = 0 /\ new.outcome = outcome
       /\ new.draft = session[c].draft /\ new.new = session[c].new
  BY <1>1, <1>3 DEF Sessions
<1> HIDE DEF new
<1>12. pending' = (pending \ Owner(Folder(c, run))) \cup {Mine(c, n)}
  BY <1>6, <1>7 DEF Mine, seen
<1>13. Mine(c, n) \in Waiting /\ Mine(c, n).by = c /\ Mine(c, n).folder = Folder(c, run)
  BY <1>3, WaitingOf DEF Mine
<1> HIDE DEF n, N, run
<1>14. pending' \subseteq Waiting  BY <1>12, <1>13, SessionIs
<1>15. /\ BugTypeOK' /\ session'[c] = new
       /\ \A d \in Command : d # c => session'[d] = session[d]
  BY <1>8, <1>10, <1>14, SessionIs, TypeMoves DEF Look
<1>16. session[c].outcome \notin {"created", "updated"} /\ outcome \notin {"created", "updated"} /\ ~ session[c].new
  BY <1>1, <1>2, <1>9 DEF OneLook
<1>17. OneLook(c, new)
  <2>1. to \in {"find", "discard"} => n = N  BY <1>3, <1>9
  <2>2. to = "find" => Found(c, seen)  BY <1>7, <1>9, <2>1 DEF Found, AllConfirmed, N
  <2>3. to = "look" => Len(new.seen) < Cardinality(Runs(c))  BY <1>7, <1>9, <1>11 DEF N
  <2>4. to = "discard" => Len(new.seen) = Cardinality(Runs(c))  BY <1>7, <1>11, <2>1 DEF N
  <2> QED  BY <1>9, <1>11, <1>16, <2>2, <2>3, <2>4 DEF OneLook, LookSteps
<1>18. LookInv'  BY <1>1, <1>2, <1>10, <1>11, <1>15, <1>17, LookMoves DEF Look
<1>19. Pairs'  BY <1>1, <1>15, PairsStay DEF Away
<1>20. Evidence(c, new, pending', kept', together')
  <2>1. ~ SaidFiled(new) /\ ~ Adds(new) /\ new.step \notin {"absent", "start", "move"}
    BY <1>9, <1>11, <1>16 DEF SaidFiled, Adds
  <2>2. Counts(c, new, pending')  BY <1>11, <2>1 DEF Counts
  <2>3. ASSUME c \notin together  PROVE MovedAll(c, new, pending', kept)
    <3>1. MovedAll(c, session[c], pending, kept)
      <4>1. Evidence(c, session[c], pending, kept, together)  BY EachEvidence DEF BugInv
      <4>2. GoingOn(session[c])  BY <1>1 DEF GoingOn, Away
      <4> QED  BY <2>3, <4>1, <4>2 DEF Evidence
    <3>2. Len(session[c].seen) \in Nat /\ Len(new.seen) = Len(session[c].seen) + 1 /\ Len(new.seen) = n
      BY <1>4, <1>7, <1>11 DEF n
    <3>3. Len(new.seen) <= Cardinality(Runs(c))  BY <1>3, <3>2 DEF N
    <3>4. pending' = (pending \ OwnerIn(Folder(c, Looks(c)[Len(new.seen)]), pending)) \cup {Mine(c, Len(new.seen))}
      BY <1>12, <3>2 DEF Owner, OwnerIn, run
    <3>5. IsCommand(command[c])  BY SessionIs
    <3> QED  BY <1>3, <1>11, <3>1, <3>2, <3>3, <3>4, <3>5, OneMoreWaits
  <2>4. kept' = kept /\ together' = together  BY DEF Look
  <2> QED  BY <2>2, <2>3, <2>4 DEF Evidence
<1>21. \A d \in Command : d # c => Evidence(d, session'[d], pending', kept', together')
  <2> DEFINE X == {Mine(c, n)}
  <2>1. \A p \in X : p.by = c /\ p.folder = Folder(c, run)  BY <1>13
  <2>2. pending' = (pending \ Owner(Folder(c, run))) \cup X  BY <1>12
  <2>3. kept \subseteq kept' /\ together' = together  BY DEF Look
  <2>4. session[c].step \notin Away  BY <1>1 DEF Away
  <2> HIDE DEF X
  <2> QED  BY <1>15, <2>1, <2>2, <2>3, <2>4, OthersStay
<1>22. EvidenceInv'  BY <1>15, <1>19, <1>20, <1>21, NextEvidence
<1> QED  BY <1>10, <1>15, <1>18, <1>22 DEF Sound

\* One folder is moved: it waits no longer, and is under the bug.
LEMMA OneMoreKept ==
  ASSUME NEW c, NEW s, NEW new, NEW P, NEW K, MovedAll(c, s, P, K), IsCommand(command[c]),
         s.moved \in Nat, new.moved = s.moved + 1, Len(s.seen) \in Nat, new.seen = s.seen, new.bug = s.bug,
         s.moved < Len(s.seen), Len(s.seen) <= Cardinality(Runs(c)),
         NEW P1, P1 = P \ OwnerIn(Folder(c, Looks(c)[s.moved + 1]), P),
         NEW K1, K \subseteq K1, <<s.bug, c, Looks(c)[s.moved + 1], c>> \in K1
  PROVE  MovedAll(c, new, P1, K1)
<1> DEFINE m == s.moved
           n == Len(s.seen)
           f(k) == Folder(c, Looks(c)[k])
<1>1. m \in Nat /\ n \in Nat /\ m < n /\ n <= Cardinality(Runs(c)) /\ Cardinality(Runs(c)) \in Nat
  BY LooksAre
<1>2. \A k \in (m + 2)..n : f(k) # f(m + 1)
  <2> SUFFICES ASSUME NEW k \in (m + 2)..n, f(k) = f(m + 1)  PROVE FALSE  OBVIOUS
  <2>1. Looks(c)[k] = Looks(c)[m + 1]  BY DEF Folder
  <2>2. k \in 1..Cardinality(Runs(c)) /\ m + 1 \in 1..Cardinality(Runs(c)) /\ k # m + 1  BY <1>1
  <2> QED  BY <2>1, <2>2, LooksAre
<1>3. \A k : Mine(c, k).folder = f(k) /\ Mine(c, k).by = c  BY DEF Mine
<1>4. \A k \in (m + 1)..n : OwnerIn(f(k), P) = {Mine(c, k)}  BY DEF MovedAll
<1>5. \A p \in P : p.by = c => \E k \in (m + 1)..n : p = Mine(c, k)  BY DEF MovedAll
<1>6. P1 = P \ OwnerIn(f(m + 1), P)  OBVIOUS
<1>7. \A k \in 1..m : <<s.bug, c, Looks(c)[k], c>> \in K1  BY DEF MovedAll
<1>8. <<s.bug, c, Looks(c)[m + 1], c>> \in K1  OBVIOUS
<1>9. new.moved = m + 1 /\ Len(new.seen) = n /\ new.bug = s.bug  OBVIOUS
<1> HIDE DEF n, m, f
<1>10. \A k \in (m + 2)..n : OwnerIn(f(k), P1) = {Mine(c, k)}
  <2> SUFFICES ASSUME NEW k \in (m + 2)..n  PROVE OwnerIn(f(k), P1) = {Mine(c, k)}  OBVIOUS
  <2>1. f(k) # f(m + 1)  BY <1>2
  <2>2. OwnerIn(f(k), P1) = OwnerIn(f(k), P)  BY <1>6, <2>1 DEF OwnerIn
  <2>3. k \in (m + 1)..n  BY <1>1
  <2> QED  BY <1>4, <2>2, <2>3
<1>11. \A p \in P1 : p.by = c => \E k \in (m + 2)..n : p = Mine(c, k)
  <2> SUFFICES ASSUME NEW p \in P1, p.by = c  PROVE \E k \in (m + 2)..n : p = Mine(c, k)  OBVIOUS
  <2>1. p \in P /\ p.folder # f(m + 1)  BY <1>6 DEF OwnerIn
  <2>2. PICK k \in (m + 1)..n : p = Mine(c, k)  BY <1>5, <2>1
  <2>3. k # m + 1  BY <1>3, <2>1, <2>2
  <2>4. k \in (m + 2)..n  BY <1>1, <2>2, <2>3
  <2> QED  BY <2>2, <2>4
<1>12. \A k \in 1..(m + 1) : <<new.bug, c, Looks(c)[k], c>> \in K1
  <2> SUFFICES ASSUME NEW k \in 1..(m + 1)  PROVE <<s.bug, c, Looks(c)[k], c>> \in K1  BY <1>9
  <2>1. CASE k \in 1..m  BY <1>7, <2>1
  <2>2. CASE k = m + 1  BY <1>8, <2>2
  <2> QED  BY <1>1, <2>1, <2>2
<1>13. new.moved + 1 = m + 2  BY <1>1, <1>9
<1>14. \A k \in 1..new.moved : <<new.bug, c, Looks(c)[k], c>> \in K1  BY ZenonT(60), <1>9, <1>12
<1>15. \A k \in (new.moved + 1)..Len(new.seen) : OwnerIn(Folder(c, Looks(c)[k]), P1) = {Mine(c, k)}
  BY ZenonT(60), <1>9, <1>10, <1>13 DEF f
<1>16. \A p \in P1 : p.by = c => \E k \in (new.moved + 1)..Len(new.seen) : p = Mine(c, k)
  BY ZenonT(60), <1>9, <1>11, <1>13
<1> QED  BY ZenonT(60), <1>14, <1>15, <1>16 DEF MovedAll

LEMMA MoveNext ==
  ASSUME BugInv, NEW c \in Command, session[c].step = "move"
  PROVE  /\ session[c].moved \in Nat /\ Len(session[c].seen) \in Nat
         /\ session[c].moved < Len(session[c].seen)
         /\ Len(session[c].seen) = Cardinality(Runs(c)) /\ Len(PendingDirs(c)) = Cardinality(Runs(c))
         /\ ~ session[c].new /\ session[c].outcome \notin {"created", "updated"}
<1>1. session[c] \in Sessions /\ OneLook(c, session[c])  BY SessionIs, EachLook DEF BugInv
<1>2. session[c].moved \in Nat /\ session[c].seen \in Seq(BOOLEAN)  BY <1>1 DEF Sessions
<1>3. Len(session[c].seen) \in Nat  BY <1>2
<1>4. session[c].moved < Len(session[c].seen)
  <2>1. Evidence(c, session[c], pending, kept, together)  BY EachEvidence DEF BugInv
  <2> QED  BY <2>1 DEF Evidence, Counts
<1>5. Len(session[c].seen) = Cardinality(Runs(c))  BY <1>1 DEF OneLook, LookSteps, Found
<1>6. Len(PendingDirs(c)) = Cardinality(Runs(c))  BY SessionIs, LooksAre DEF PendingDirs
<1>7. ~ session[c].new /\ session[c].outcome \notin {"created", "updated"}  BY <1>1 DEF OneLook
<1> QED  BY <1>2, <1>3, <1>4, <1>5, <1>6, <1>7

LEMMA MoveSound ==
  ASSUME BugInv, NEW c \in Command, Move(c), UNCHANGED <<command, stops, together>>  PROVE Sound(c)
<1> DEFINE run == PendingDirs(c)[session[c].moved + 1]
           found == Owner(Folder(c, run))
<1>1. session[c] \in Sessions /\ session[c].step = "move"  BY SessionIs DEF Move, Is
<1>2. OneLook(c, session[c]) /\ \A i \in DOMAIN session[c].draft.sightings : Confirmed(session[c].draft.sightings[i])
  BY EachLook DEF BugInv
<1>3. /\ session[c].moved \in Nat /\ Len(session[c].seen) \in Nat
      /\ session[c].moved < Len(session[c].seen)
      /\ Len(session[c].seen) = Cardinality(Runs(c)) /\ Len(PendingDirs(c)) = Cardinality(Runs(c))
      /\ ~ session[c].new /\ session[c].outcome \notin {"created", "updated"}
  BY <1>1, MoveNext
<1>4. Pairs /\ \A d \in Command : Evidence(d, session[d], pending, kept, together)
  BY EachEvidence DEF BugInv
<1>5. session[c].step \notin Away  BY <1>1 DEF Away
<1>6. CASE found = {}
  <2> DEFINE new == [session[c] EXCEPT !.step = "stopped"]
  <2>1. session' = [session EXCEPT ![c] = new]  BY <1>1, <1>6, SessionIs DEF Move
  <2>2. new \in Sessions  BY <1>1 DEF Sessions
  <2>3. /\ new.step = "stopped" /\ new.outcome = session[c].outcome
        /\ new.seen = session[c].seen /\ new.draft = session[c].draft /\ new.new = session[c].new
    BY <1>1 DEF Sessions
  <2> HIDE DEF new
  <2>4. UNCHANGED <<pending, kept, index, records, mixed, damaged>>  BY <1>6 DEF Move
  <2>5. /\ BugTypeOK' /\ session'[c] = new
        /\ \A d \in Command : d # c => session'[d] = session[d]
    BY <2>1, <2>2, <2>4, SessionIs, TypeMoves
  <2>6. OneLook(c, new)  BY <1>2, <1>3, <2>3 DEF OneLook, LookSteps
  <2>7. LookInv'  BY <1>2, <2>2, <2>3, <2>4, <2>5, <2>6, LookMoves
  <2>8. ~ SaidFiled(session'[c])  BY <1>3, <2>3, <2>5 DEF SaidFiled
  <2>9. EvidenceInv'  BY <1>5, <2>3, <2>4, <2>5, <2>8, EvidenceOfStopped
  <2> QED  BY <2>2, <2>5, <2>7, <2>9 DEF Sound
<1>7. CASE found # {}
  <2> DEFINE to == IF session[c].moved + 1 = Len(PendingDirs(c)) THEN "cut record" ELSE session[c].step
             new == [session[c] EXCEPT !.moved = session[c].moved + 1, !.step = to]
  <2>1. session' = [session EXCEPT ![c] = new]  BY <1>1, <1>7, SessionIs DEF Move
  <2>2. /\ to \in {"cut record", "move"}
        /\ to = "cut record" => session[c].moved + 1 = Len(session[c].seen)
        /\ to = "move" => session[c].moved + 1 # Len(session[c].seen)
    BY <1>1, <1>3
  <2> HIDE DEF to
  <2>3. new \in Sessions
    <3>1. session[c].moved + 1 \in Nat  BY <1>3
    <3> QED  BY <1>1, <2>2, <3>1 DEF Sessions
  <2>4. /\ new.step = to /\ new.moved = session[c].moved + 1 /\ new.outcome = session[c].outcome
        /\ new.bug = session[c].bug
        /\ new.seen = session[c].seen /\ new.draft = session[c].draft /\ new.new = session[c].new
    BY <1>1 DEF Sessions
  <2> HIDE DEF new
  <2>5. /\ UNCHANGED <<index, records, mixed, damaged>>
        /\ pending' = pending \ found
        /\ kept' = kept \cup {<<session[c].bug, c, run, p.by>> : p \in found}
    BY <1>7 DEF Move
  <2>6. pending' \subseteq Waiting  BY <2>5, SessionIs
  <2>7. /\ BugTypeOK' /\ session'[c] = new
        /\ \A d \in Command : d # c => session'[d] = session[d]
    BY <2>1, <2>3, <2>5, <2>6, SessionIs, TypeMoves
  <2>8. OneLook(c, new)  BY <1>1, <1>2, <1>3, <2>2, <2>4 DEF OneLook, LookSteps
  <2>9. LookInv'  BY <1>2, <2>3, <2>4, <2>5, <2>7, <2>8, LookMoves
  <2>10. Pairs'  BY <1>5, <2>7, PairsStay
  <2>11. Counts(c, new, pending')
    <3>1. to = "move" => new.moved < Len(new.seen)  BY <1>3, <2>2, <2>4
    <3>2. Adds(new) /\ ~ SaidFiled(new)  BY <1>3, <2>2, <2>4 DEF Adds, SaidFiled
    <3> QED  BY <2>2, <2>4, <3>1, <3>2 DEF Counts
  <2>12. ASSUME c \notin together  PROVE MovedAll(c, new, pending', kept')
    <3>1. GoingOn(session[c])  BY <1>1 DEF GoingOn, Away
    <3>2. MovedAll(c, session[c], pending, kept)  BY <1>4, <2>12, <3>1 DEF Evidence
    <3>3. pending' = pending \ OwnerIn(Folder(c, Looks(c)[session[c].moved + 1]), pending)
      BY <2>5 DEF Owner, OwnerIn, PendingDirs
    <3>4. found = {Mine(c, session[c].moved + 1)}
      <4>1. session[c].moved + 1 \in (session[c].moved + 1)..Len(session[c].seen)  BY <1>3
      <4>2. OwnerIn(Folder(c, Looks(c)[session[c].moved + 1]), pending) = {Mine(c, session[c].moved + 1)}
        BY <3>2, <4>1 DEF MovedAll
      <4> QED  BY <4>2 DEF Owner, OwnerIn, PendingDirs
    <3>5. <<session[c].bug, c, Looks(c)[session[c].moved + 1], c>> \in kept'
      <4>1. Mine(c, session[c].moved + 1).by = c  BY DEF Mine
      <4>2. Mine(c, session[c].moved + 1) \in found  BY <3>4
      <4>3. <<session[c].bug, c, run, Mine(c, session[c].moved + 1).by>> \in kept'  BY <2>5, <4>2
      <4> QED  BY <4>1, <4>3 DEF PendingDirs
    <3>6. kept \subseteq kept'  BY <2>5
    <3>7. IsCommand(command[c])  BY SessionIs
    <3>8. Len(session[c].seen) <= Cardinality(Runs(c))  BY <1>3
    <3> HIDE DEF found, run
    <3> QED  BY <1>3, <2>4, <3>2, <3>3, <3>5, <3>6, <3>7, <3>8, OneMoreKept
  <2>13. Evidence(c, new, pending', kept', together')  BY <2>11, <2>12 DEF Evidence
  <2>14. \A d \in Command : d # c => Evidence(d, session'[d], pending', kept', together')
    <3> DEFINE nothing == {}
    <3>1. pending' = (pending \ Owner(Folder(c, run))) \cup nothing  BY <2>5
    <3>2. \A p \in nothing : p.by = c /\ p.folder = Folder(c, run)  OBVIOUS
    <3>3. kept \subseteq kept' /\ together' = together  BY <2>5
    <3> HIDE DEF run, nothing, found
    <3> QED  BY <1>5, <2>7, <3>1, <3>2, <3>3, OthersStay
  <2>15. EvidenceInv'  BY <2>7, <2>10, <2>13, <2>14, NextEvidence
  <2> QED  BY <2>3, <2>7, <2>9, <2>15 DEF Sound
<1> QED  BY <1>6, <1>7

-----------------------------------------------------------------------------
(* The books: the index, the one who saves, the sightings in the records.  *)

\* Nobody but c saves.
Lone(c) == \A d \in Command : d # c => session[d].step \in LookSteps
\* What SaverInv says of one command.
OneSaver(c) ==
  /\ Is(c, "record") => session[c].bug = Listed(c) /\ Listed(c) # 0
  /\ Is(c, "create") => Listed(c) = 0
  /\ Files(c) =>
       /\ Listed(c) = 0 /\ session[c].bug = NextBug /\ NextBug \in BugId
       /\ session[c].index = Counted([index EXCEPT !.whole = TRUE], c)
       /\ session[c].draft = [whole |-> TRUE, signature |-> command[c].signature, sightings |-> <<c>>]
       /\ ~ Writing(c) => records[NextBug] = session[c].draft
  /\ AddsTo(c) =>
       /\ session[c].bug = Listed(c) /\ Listed(c) # 0
       /\ session[c].draft.whole /\ session[c].draft.signature = command[c].signature
       /\ OnceIn(c, session[c].draft.sightings)
\* Where a command is once a record has it.
Entered(c) ==
  Is(c, "done") \/ Is(c, "stopped") \/ Is(c, "cut index") \/ Is(c, "write index") \/ AddsTo(c)

\* Who does not save has nothing in hand.
LEMMA IdleIs ==
  ASSUME NEW d, session[d].step \in LookSteps
  PROVE  /\ ~ AddsTo(d) /\ ~ Files(d) /\ ~ Is(d, "record") /\ ~ Is(d, "create")
         /\ ~ Is(d, "write record") /\ ~ Is(d, "write index")
BY DEF LookSteps, AddsTo, Files, Writing, Is

LEMMA NextIdleIs ==
  ASSUME NEW d, session'[d].step \in LookSteps
  PROVE  (/\ ~ AddsTo(d) /\ ~ Files(d) /\ ~ Is(d, "record") /\ ~ Is(d, "create")
          /\ ~ Is(d, "write record") /\ ~ Is(d, "write index"))'
BY DEF LookSteps, AddsTo, Files, Writing, Is

\* While one saves nobody else does.
LEMMA OneAtATime ==
  ASSUME SaverInv, NEW c \in Command, session[c].step \notin LookSteps
  PROVE  /\ Lone(c) /\ OneSaver(c)
         /\ ~ index.whole => Is(c, "write index")
         /\ \A b : InHand(b) <=> Is(c, "write record") /\ session[c].bug = b
<1>1. c \in Saving  BY SavingIs
<1>2. Lone(c)  BY <1>1, SavingIs DEF SaverInv, Lone
<1>3. OneSaver(c)  BY DEF SaverInv, OneSaver
<1>4. \A d \in Command : d # c => ~ Is(d, "write record") /\ ~ Is(d, "write index")
  BY <1>2, IdleIs DEF Lone
<1>5. ~ index.whole => Is(c, "write index")  BY <1>4 DEF SaverInv
<1>6. \A b : InHand(b) <=> Is(c, "write record") /\ session[c].bug = b  BY <1>4 DEF InHand
<1> QED  BY <1>2, <1>3, <1>5, <1>6

LEMMA NextLone ==
  ASSUME NEW c \in Command, Lone(c), \A d \in Command : d # c => session'[d] = session[d]
  PROVE  /\ \A d \in Command : d # c => ~ AddsTo(d)'
         /\ \A b : InHand(b)' <=> session'[c].step = "write record" /\ session'[c].bug = b
<1>1. \A d \in Command : d # c => session'[d].step \in LookSteps  BY DEF Lone
<1>2. \A d \in Command : d # c => ~ AddsTo(d)' /\ ~ Is(d, "write record")'
  BY <1>1, NextIdleIs
<1>3. \A b : InHand(b)' <=> session'[c].step = "write record" /\ session'[c].bug = b
  BY <1>2 DEF InHand, Is
<1> QED  BY <1>2, <1>3

\* SaverInv after a step of the one who saves.
LEMMA SaverStays ==
  ASSUME NEW c \in Command, Lone(c), \A d \in Command : d # c => session'[d] = session[d],
         ~ index'.whole => session'[c].step = "write index", OneSaver(c)'
  PROVE  SaverInv'
<1>1. \A d \in Command : d # c => session'[d].step \in LookSteps  BY DEF Lone
<1>2. \A d \in Command : d # c => d \notin Saving'  BY <1>1, NextSavingIs
<1>3. \A a, b \in Saving' : a = b
  <2>1. \A a \in Saving' : a \in Command  BY DEF Saving
  <2> QED  BY <1>2, <2>1
<1>4. ASSUME NEW d \in Command, d # c
      PROVE  (~ AddsTo(d) /\ ~ Files(d) /\ ~ Is(d, "record") /\ ~ Is(d, "create"))'
  BY <1>1, <1>4, NextIdleIs
<1>5. ~ index'.whole => \E d \in Command : Is(d, "write index")'  BY DEF Is
<1>6. ASSUME NEW d \in Command  PROVE OneSaver(d)'
  <2>1. CASE d = c  BY <2>1
  <2>2. CASE d # c  BY <1>4, <2>2 DEF OneSaver
  <2> QED  BY <2>1, <2>2
<1> QED  BY <1>3, <1>5, <1>6 DEF SaverInv, OneSaver

\* IndexInv while the books lie as they were.
LEMMA IndexStays ==
  ASSUME IndexInv, records' = records, index'.sequence = index.sequence, index'.signatures = index.signatures,
         \A b : InHand(b) => InHand(b)'
  PROVE  IndexInv'
BY DEF IndexInv, NextBug

\* The books lie as they were while c goes on; nobody writes a record.
LEMMA SightingStays ==
  ASSUME SightingInv, NEW c \in Command, Lone(c), \A d \in Command : d # c => session'[d] = session[d],
         command' = command, records' = records, index'.signatures = index.signatures,
         \A b : ~ InHand(b), ~ SaidFiled(session'[c]),
         Entered(c) => Entered(c)',
         AddsTo(c)' => \A d \in Command : d # c /\ IsIn(d, session'[c].draft.sightings) => Is(d, "done") \/ Is(d, "stopped"),
         AddsTo(c)' => \A d \in Command : d # c /\ Filed(d) /\ Listed(d) = Listed(c) => OnceIn(d, session'[c].draft.sightings)
  PROVE  SightingInv'
<1>1. \A d \in Command : d # c => ~ AddsTo(d)'  BY NextLone
<1>2. \A d \in Command : Listed(d)' = Listed(d)  BY DEF Listed
<1>3. ~ Filed(c)'  BY DEF Filed, SaidFiled
<1>4. \A d \in Command : d # c => (Filed(d)' <=> Filed(d)) /\ (\A s : Is(d, s)' <=> Is(d, s)) /\ (AddsTo(d)' <=> AddsTo(d))
  BY DEF Filed, Is, AddsTo, Writing
<1>5. ASSUME NEW b \in BugId, NEW d \in Command, IsIn(d, records'[b].sightings)
      PROVE  (Is(d, "done") \/ Is(d, "stopped") \/ Is(d, "cut index") \/ Is(d, "write index") \/ AddsTo(d))'
  <2>1. Entered(d)  BY <1>5 DEF SightingInv, Entered
  <2>2. Entered(d)'  BY <1>4, <2>1 DEF Entered
  <2> QED  BY <2>2 DEF Entered
<1>6. ASSUME NEW a \in Command, NEW d \in Command, AddsTo(a)', a # d, IsIn(d, session'[a].draft.sightings)
      PROVE  (Is(d, "done") \/ Is(d, "stopped"))'
  <2>1. a = c  BY <1>1, <1>6
  <2> QED  BY <1>4, <1>6, <2>1
<1>7. ASSUME NEW d \in Command, Filed(d)'
      PROVE  /\ session'[d].bug = Listed(d)' /\ Listed(d)' # 0
             /\ OnceIn(d, records'[Listed(d)'].sightings)
             /\ \A a \in Command : AddsTo(a)' /\ Listed(a)' = Listed(d)' => OnceIn(d, session'[a].draft.sightings)
  <2>1. d # c /\ Filed(d)  BY <1>3, <1>4, <1>7
  <2>2. session[d].bug = Listed(d) /\ Listed(d) # 0 /\ OnceIn(d, records[Listed(d)].sightings)
    BY <2>1 DEF SightingInv
  <2>3. ASSUME NEW a \in Command, AddsTo(a)', Listed(a)' = Listed(d)'
        PROVE  OnceIn(d, session'[a].draft.sightings)
    <3>1. a = c  BY <1>1, <2>3
    <3> QED  BY <1>2, <2>1, <2>3, <3>1
  <2> QED  BY <1>2, <2>1, <2>2, <2>3
<1>8. \A d \in Command : OnceIn(d, records'[Listed(d)'].sightings) <=> OnceIn(d, records[Listed(d)].sightings)'
  BY DEF OnceIn
<1> QED  BY <1>5, <1>6, <1>7, <1>8 DEF SightingInv, IsIn, OnceIn

Books == IndexInv /\ SaverInv /\ SightingInv

LEMMA BooksOpen ==
  ASSUME BugInv, NEW c \in Command, Does(c) \/ IsStopped(c), ~ mixed', ~ damaged'
  PROVE  Books /\ ~ mixed /\ ~ damaged
<1>1. (mixed => mixed') /\ (damaged => damaged')
  <2>1. CASE IsStopped(c)  BY <2>1 DEF IsStopped
  <2>2. CASE Find(c)  BY <2>2 DEF Find
  <2>3. Begin(c) => mixed' = mixed /\ damaged' = damaged  BY DEF Begin
  <2>4. Look(c) => mixed' = mixed /\ damaged' = damaged  BY DEF Look
  <2>5. Discard(c) => mixed' = mixed /\ damaged' = damaged  BY DEF Discard
  <2>6. ReadRecord(c) => mixed' = mixed /\ damaged' = damaged  BY DEF ReadRecord
  <2>7. Create(c) => mixed' = mixed /\ damaged' = damaged  BY DEF Create
  <2>8. CutRecord(c) => mixed' = mixed /\ damaged' = damaged  BY DEF CutRecord
  <2>9. WriteRecord(c) => mixed' = mixed /\ damaged' = damaged  BY DEF WriteRecord
  <2>10. CutIndex(c) => mixed' = mixed /\ damaged' = damaged  BY DEF CutIndex
  <2>11. WriteIndex(c) => mixed' = mixed /\ damaged' = damaged  BY DEF WriteIndex
  <2>12. Move(c) => mixed' = mixed /\ damaged' = damaged  BY DEF Move
  <2> QED
    BY <2>1, <2>2, <2>3, <2>4, <2>5, <2>6, <2>7, <2>8, <2>9, <2>10, <2>11, <2>12 DEF Does
<1> QED  BY <1>1 DEF BugInv, BooksInv, Books

\* A step of c outside the books: c saves nothing after it.
LEMMA BooksLeft ==
  ASSUME BugInv, Books, NEW c \in Command, \A d \in Command : d # c => session'[d] = session[d],
         command' = command, records' = records, index' = index,
         session'[c].step \in LookSteps, ~ SaidFiled(session'[c]), ~ SaidFiled(session[c]),
         session[c].step \notin {"write record", "write index", "done", "stopped"},
         session'[c].step \in {"done", "stopped"} \/ session[c].step \in {"start", "look", "discard"}
  PROVE  IndexInv' /\ SaverInv' /\ SightingInv'
<1>1. /\ \A d \in Command : d # c => (AddsTo(d)' <=> AddsTo(d)) /\ (Files(d)' <=> Files(d)) /\ (Filed(d)' <=> Filed(d))
                                     /\ (Writing(d)' <=> Writing(d)) /\ \A s : Is(d, s)' <=> Is(d, s)
      /\ \A d \in Command : Listed(d)' = Listed(d)
      /\ NextBug' = NextBug
  BY DEF AddsTo, Files, Filed, Writing, Is, Listed, NextBug
<1>2. /\ ~ AddsTo(c)' /\ ~ Files(c)' /\ ~ Is(c, "record")' /\ ~ Is(c, "create")'
      /\ ~ Is(c, "write record")' /\ ~ Is(c, "write index")'
  BY NextIdleIs
<1>3. ~ Filed(c) /\ ~ Filed(c)'  BY DEF Filed, SaidFiled
<1>4. ~ Is(c, "write record") /\ ~ Is(c, "write index")  BY DEF Is
<1>5. \A b : InHand(b)' <=> InHand(b)  BY <1>1, <1>2, <1>4 DEF InHand
<1>6. IndexInv'  BY <1>5, IndexStays DEF Books
<1>7. SaverInv'
  <2>1. SaverInv  BY DEF Books
  <2>2. \A d \in Saving' : d \in Saving
    <3>1. c \notin Saving'  BY NextSavingIs
    <3>2. \A d \in Saving' : d \in Command  BY DEF Saving
    <3> QED  BY <3>1, <3>2, SavingIs, NextSavingIs
  <2>3. \A a, b \in Saving' : a = b  BY <2>1, <2>2 DEF SaverInv
  <2>4. ~ index'.whole => \E d \in Command : Is(d, "write index")'  BY <1>1, <1>4, <2>1 DEF SaverInv
  <2>5. ASSUME NEW d \in Command  PROVE OneSaver(d)'
    <3>1. CASE d = c  BY <1>2, <3>1 DEF OneSaver
    <3>2. CASE d # c
      <4>1. OneSaver(d)  BY <2>1 DEF SaverInv, OneSaver
      <4>2. session'[d] = session[d]  BY <3>2
      <4>3. Counted([index EXCEPT !.whole = TRUE], d)' = Counted([index EXCEPT !.whole = TRUE], d)  BY DEF Counted
      <4>4. OnceIn(d, session[d].draft.sightings)' <=> OnceIn(d, session[d].draft.sightings)
        <5>1. OnceIn(d, session[d].draft.sightings)' <=> OnceIn(d, session'[d].draft.sightings)  BY DEF OnceIn
        <5> QED  BY <4>2, <5>1
      <4>5. Listed(d)' = Listed(d) /\ NextBug' = NextBug  BY <1>1
      <4>6. /\ AddsTo(d)' <=> AddsTo(d)
            /\ Files(d)' <=> Files(d)
            /\ Writing(d)' <=> Writing(d)
            /\ Is(d, "record")' <=> Is(d, "record")
            /\ Is(d, "create")' <=> Is(d, "create")
        BY <1>1, <3>2
      <4> QED  BY <4>1, <4>2, <4>3, <4>4, <4>5, <4>6 DEF OneSaver
    <3> QED  BY <3>1, <3>2
  <2> QED  BY <2>3, <2>4, <2>5 DEF SaverInv, OneSaver
<1>8. SightingInv'
  <2>1. SightingInv /\ SaverInv  BY DEF Books
  <2>2. ASSUME NEW b \in BugId, NEW d \in Command, IsIn(d, records'[b].sightings)
        PROVE  (Is(d, "done") \/ Is(d, "stopped") \/ Is(d, "cut index") \/ Is(d, "write index") \/ AddsTo(d))'
    <3>1. Is(d, "done") \/ Is(d, "stopped") \/ Is(d, "cut index") \/ Is(d, "write index") \/ AddsTo(d)
      BY <2>1, <2>2 DEF SightingInv
    <3>2. CASE d # c  BY <1>1, <3>1, <3>2
    <3>3. CASE d = c
      <4>1. session[c].step \notin {"start", "look", "discard"}  BY <3>1, <3>3 DEF Is, AddsTo, Writing
      <4> QED  BY <3>3, <4>1 DEF Is
    <3> QED  BY <3>2, <3>3
  <2>3. ASSUME NEW a \in Command, NEW d \in Command, AddsTo(a)', a # d, IsIn(d, session'[a].draft.sightings)
        PROVE  (Is(d, "done") \/ Is(d, "stopped"))'
    <3>1. a # c /\ AddsTo(a)  BY <1>1, <1>2, <2>3
    <3>2. IsIn(d, session[a].draft.sightings)  BY <2>3, <3>1
    <3>3. Is(d, "done") \/ Is(d, "stopped")  BY <2>1, <2>3, <3>1, <3>2 DEF SightingInv
    <3>4. d # c  BY <3>3 DEF Is
    <3> QED  BY <1>1, <3>3, <3>4
  <2>4. ASSUME NEW d \in Command, Filed(d)'
        PROVE  /\ session'[d].bug = Listed(d)' /\ Listed(d)' # 0
               /\ InHand(Listed(d))' \/ OnceIn(d, records'[Listed(d)'].sightings)
               /\ \A a \in Command : AddsTo(a)' /\ Listed(a)' = Listed(d)' => OnceIn(d, session'[a].draft.sightings)
    <3>1. d # c /\ Filed(d)  BY <1>1, <1>3, <2>4
    <3>2. /\ session[d].bug = Listed(d) /\ Listed(d) # 0
          /\ InHand(Listed(d)) \/ OnceIn(d, records[Listed(d)].sightings)
          /\ \A a \in Command : AddsTo(a) /\ Listed(a) = Listed(d) => OnceIn(d, session[a].draft.sightings)
      BY <2>1, <3>1 DEF SightingInv
    <3>3. ASSUME NEW a \in Command, AddsTo(a)', Listed(a)' = Listed(d)'  PROVE OnceIn(d, session'[a].draft.sightings)
      <4>1. a # c /\ AddsTo(a) /\ Listed(a) = Listed(d)  BY <1>1, <1>2, <3>3
      <4> QED  BY <3>2, <4>1
    <3>4. InHand(Listed(d))' <=> InHand(Listed(d))  BY <1>1, <1>2, <1>4 DEF InHand
    <3> QED  BY <1>1, <3>1, <3>2, <3>3, <3>4
  <2>5. /\ \A d, b : IsIn(d, records[b].sightings)' <=> IsIn(d, records'[b].sightings)
        /\ \A d, a : IsIn(d, session[a].draft.sightings)' <=> IsIn(d, session'[a].draft.sightings)
        /\ \A d, a : OnceIn(d, session[a].draft.sightings)' <=> OnceIn(d, session'[a].draft.sightings)
        /\ \A d : OnceIn(d, records[Listed(d)].sightings)' <=> OnceIn(d, records'[Listed(d)'].sightings)
    BY DEF IsIn, OnceIn
  <2> QED  BY <2>2, <2>3, <2>4, <2>5 DEF SightingInv
<1> QED  BY <1>6, <1>7, <1>8

LEMMA NotFiledYet ==
  ASSUME BugInv, NEW c \in Command, session[c].step # "done"  PROVE ~ SaidFiled(session[c])
<1>1. OneLook(c, session[c])  BY EachLook DEF BugInv
<1> QED  BY <1>1 DEF OneLook, SaidFiled

LEMMA NotFiledThen ==
  ASSUME NEW c \in Command, Sound(c), session'[c].step # "done"  PROVE ~ SaidFiled(session'[c])
<1>1. ~ Filed(c)'  BY DEF Sound, LookInv, Is
<1> QED  BY <1>1 DEF Filed, SaidFiled

\* Begin, Look, Discard, a stop, and a folder that is gone.
LEMMA AsideBooks ==
  ASSUME BugInv, NEW c \in Command, Does(c) \/ IsStopped(c), Sound(c), command' = command,
         records' = records, index' = index,
         session'[c].step \in LookSteps, ~ SaidFiled(session'[c]),
         ~ damaged' => session[c].step \notin {"write record", "write index"},
         session[c].step \notin {"done", "stopped"},
         session'[c].step \in {"done", "stopped"} \/ session[c].step \in {"start", "look", "discard"}
  PROVE  BooksInv'
<1> SUFFICES ASSUME ~ mixed', ~ damaged'  PROVE IndexInv' /\ SaverInv' /\ SightingInv'  BY DEF BooksInv
<1>1. Books  BY BooksOpen
<1>2. ~ SaidFiled(session[c])  BY NotFiledYet
<1>3. \A d \in Command : d # c => session'[d] = session[d]  BY DEF Sound
<1> QED  BY <1>1, <1>2, <1>3, BooksLeft

LEMMA FindBooks ==
  ASSUME BugInv, NEW c \in Command, Find(c), Does(c), Sound(c)  PROVE BooksInv'
<1> SUFFICES ASSUME ~ mixed', ~ damaged'  PROVE IndexInv' /\ SaverInv' /\ SightingInv'  BY DEF BooksInv
<1>1. Books  BY BooksOpen
<1>2. Saving = {}  BY DEF Find
<1>3. Lone(c) /\ \A b : ~ InHand(b)
  <2>1. \A d \in Command : session[d].step \in LookSteps  BY <1>2, SavingIs
  <2> QED  BY <2>1, IdleIs DEF Lone, InHand
<1>4. index.whole
  <2>1. \A d \in Command : ~ Is(d, "write index")  BY <1>2, SavingIs, IdleIs
  <2> QED  BY <1>1, <2>1 DEF Books, SaverInv
<1>5. \A d \in Command : d # c => session'[d] = session[d]  BY DEF Sound
<1>6. /\ command' = command /\ records' = records /\ index' = index
  BY DEF Find, Does
<1>7. /\ session[c].step = "find"
      /\ session'[c].bug = Listed(c)
      /\ session'[c].step = IF Listed(c) = 0 THEN "create" ELSE "record"
  <2>1. session[c] \in Sessions /\ session \in [Command -> Sessions]  BY SessionIs
  <2>2. ReadIndex.signatures[command[c].signature] = Listed(c)  BY <1>4 DEF ReadIndex, Listed
  <2> QED  BY <2>1, <2>2 DEF Find, Is, Sessions
<1>8. ~ SaidFiled(session'[c])  BY <1>7, NotFiledThen
<1>9. IndexInv'  BY <1>1, <1>3, <1>6, IndexStays DEF Books
<1>10. Listed(c)' = Listed(c)  BY <1>6 DEF Listed
<1>11. ~ AddsTo(c)' /\ ~ Files(c)'  BY <1>7 DEF AddsTo, Files, Writing, Is
<1>12. OneSaver(c)'  BY <1>7, <1>10, <1>11 DEF OneSaver, Is
<1>13. SaverInv'  BY <1>3, <1>4, <1>5, <1>6, <1>12, SaverStays
<1>14. ~ Entered(c)  BY <1>7 DEF Entered, Is, AddsTo, Writing
<1>15. SightingInv'  BY <1>1, <1>3, <1>5, <1>6, <1>8, <1>11, <1>14, SightingStays DEF Books
<1> QED  BY <1>9, <1>13, <1>15

\* What is so whenever c saves and goes on saving.
LEMMA SavingOn ==
  ASSUME BugInv, NEW c \in Command, Does(c), Sound(c), ~ mixed', ~ damaged', session[c].step \notin LookSteps
  PROVE  /\ IndexInv /\ SaverInv /\ SightingInv
         /\ Lone(c) /\ OneSaver(c) /\ (~ index.whole => Is(c, "write index"))
         /\ \A b : InHand(b) <=> session[c].step = "write record" /\ session[c].bug = b
         /\ \A d \in Command : d # c => session'[d] = session[d] /\ ~ AddsTo(d) /\ ~ AddsTo(d)'
         /\ \A b : InHand(b)' <=> session'[c].step = "write record" /\ session'[c].bug = b
         /\ command' = command /\ ~ SaidFiled(session[c])
         /\ session[c] \in Sessions /\ session \in [Command -> Sessions]
<1>1. Books  BY BooksOpen
<1>2. IndexInv /\ SaverInv /\ SightingInv  BY <1>1 DEF Books
<1>3. /\ Lone(c) /\ OneSaver(c) /\ (~ index.whole => Is(c, "write index"))
      /\ \A b : InHand(b) <=> session[c].step = "write record" /\ session[c].bug = b
  BY <1>2, OneAtATime DEF Is
<1>4. \A d \in Command : d # c => session'[d] = session[d]  BY DEF Sound
<1>5. /\ \A d \in Command : d # c => ~ AddsTo(d)'
      /\ \A b : InHand(b)' <=> session'[c].step = "write record" /\ session'[c].bug = b
  BY <1>3, <1>4, NextLone
<1>6. \A d \in Command : d # c => ~ AddsTo(d)  BY <1>3, IdleIs DEF Lone
<1>7. command' = command  BY DEF Does
<1>8. ~ SaidFiled(session[c])
  <2>1. session[c].step # "done"  BY DEF LookSteps
  <2> QED  BY <2>1, NotFiledYet
<1> QED  BY <1>2, <1>3, <1>4, <1>5, <1>6, <1>7, <1>8, SessionIs

\* A sighting added to a record that has none of its command is there once.
LEMMA OnceMore ==
  ASSUME NEW s \in Seq(Command), NEW c \in Command
  PROVE  /\ ~ IsIn(c, s) => OnceIn(c, Append(s, c))
         /\ \A d : d # c /\ OnceIn(d, s) => OnceIn(d, Append(s, c))
         /\ \A d : d # c /\ IsIn(d, Append(s, c)) => IsIn(d, s)
<1> DEFINE n == Len(s)
           t == Append(s, c)
<1>1. /\ n \in Nat /\ DOMAIN s = 1..n /\ DOMAIN t = 1..(n + 1)
      /\ t[n + 1] = c /\ \A i \in 1..n : t[i] = s[i]
  OBVIOUS
<1> HIDE DEF n, t
<1>2. ASSUME ~ IsIn(c, s)  PROVE OnceIn(c, t)
  <2>1. \A i \in 1..n : t[i] # c  BY <1>1, <1>2 DEF IsIn
  <2>2. \A j \in 1..(n + 1) : t[j] = c <=> j = n + 1  BY <1>1, <2>1
  <2>3. n + 1 \in DOMAIN t  BY <1>1
  <2> QED  BY <1>1, <2>2, <2>3 DEF OnceIn
<1>3. ASSUME NEW d, d # c, OnceIn(d, s)  PROVE OnceIn(d, t)
  <2>1. PICK i \in DOMAIN s : \A j \in DOMAIN s : s[j] = d <=> j = i  BY <1>3 DEF OnceIn
  <2>2. \A j \in 1..(n + 1) : t[j] = d <=> j = i  BY <1>1, <1>3, <2>1
  <2>3. i \in DOMAIN t  BY <1>1
  <2> QED  BY <1>1, <2>2, <2>3 DEF OnceIn
<1>4. ASSUME NEW d, d # c, IsIn(d, t)  PROVE IsIn(d, s)
  <2>1. PICK i \in DOMAIN t : t[i] = d  BY <1>4 DEF IsIn
  <2>2. i \in 1..n  BY <1>1, <1>4, <2>1
  <2> QED  BY <1>1, <2>1, <2>2 DEF IsIn
<1> QED  BY <1>2, <1>3, <1>4 DEF t

LEMMA ReadRecordBooks ==
  ASSUME BugInv, NEW c \in Command, ReadRecord(c), Does(c), Sound(c)  PROVE BooksInv'
<1> SUFFICES ASSUME ~ mixed', ~ damaged'  PROVE IndexInv' /\ SaverInv' /\ SightingInv'  BY DEF BooksInv
<1>1. session[c].step = "record" /\ Is(c, "record")  BY DEF ReadRecord, Is
<1>2. /\ IndexInv /\ SaverInv /\ SightingInv
      /\ Lone(c) /\ OneSaver(c) /\ (~ index.whole => Is(c, "write index"))
      /\ \A b : InHand(b) <=> session[c].step = "write record" /\ session[c].bug = b
      /\ \A d \in Command : d # c => session'[d] = session[d] /\ ~ AddsTo(d) /\ ~ AddsTo(d)'
      /\ command' = command /\ ~ SaidFiled(session[c])
      /\ session[c] \in Sessions /\ session \in [Command -> Sessions]
  BY <1>1, SavingOn DEF LookSteps
<1> DEFINE b == session[c].bug
<1>3. b = Listed(c) /\ b # 0  BY <1>1, <1>2 DEF OneSaver
<1>4. b \in BugId /\ records[b] \in BugRecords
  <2>1. b \in {0} \cup BugId  BY <1>2 DEF Sessions
  <2> QED  BY <1>3, <2>1, SessionIs
<1>5. \A d : ~ InHand(d)  BY <1>1, <1>2
<1>6. records[b].whole /\ records[b].signature = command[c].signature
  <2>1. command[c].signature \in Signature  BY SessionIs DEF IsCommand
  <2>2. index.signatures[command[c].signature] = b  BY <1>3 DEF Listed
  <2> QED  BY <1>2, <1>3, <1>5, <2>1, <2>2 DEF IndexInv
<1>7. records[b].sightings \in Seq(Command)  BY <1>4 DEF BugRecords
<1>8. /\ session'[c].step = "move" /\ session'[c].bug = b
      /\ session'[c].draft.sightings = Append(records[b].sightings, c)
      /\ session'[c].draft.whole /\ session'[c].draft.signature = command[c].signature
  BY <1>2, <1>4, <1>6 DEF ReadRecord, Sessions, BugRecords
<1> HIDE DEF b
<1>9. index' = index /\ records' = records  BY DEF ReadRecord
<1>10. Listed(c)' = Listed(c)  BY <1>2, <1>9 DEF Listed
<1>11. ~ Entered(c)  BY <1>1 DEF Entered, Is, AddsTo, Writing
<1>12. ~ IsIn(c, records[b].sightings)
  BY <1>2, <1>4, <1>11 DEF SightingInv, Entered
<1>13. IndexInv'  BY <1>2, <1>5, <1>9, IndexStays
<1>14. ~ Files(c)' /\ ~ Is(c, "record")' /\ ~ Is(c, "create")'  BY <1>8 DEF Files, Writing, Is
<1>15. OneSaver(c)'
  <2>1. OnceIn(c, session'[c].draft.sightings)  BY <1>7, <1>8, <1>12, OnceMore
  <2>2. OnceIn(c, session[c].draft.sightings)' <=> OnceIn(c, session'[c].draft.sightings)  BY DEF OnceIn
  <2> QED  BY <1>2, <1>3, <1>8, <1>10, <1>14, <2>1, <2>2 DEF OneSaver
<1>16. SaverInv'
  <2>1. index'.whole  BY <1>1, <1>2, <1>9 DEF Is
  <2> QED  BY <1>2, <1>15, <2>1, SaverStays
<1>17. SightingInv'
  <2>1. ~ SaidFiled(session'[c])  BY <1>8, NotFiledThen
  <2>2. ASSUME NEW d \in Command, d # c, IsIn(d, session'[c].draft.sightings)
        PROVE  Is(d, "done") \/ Is(d, "stopped")
    <3>1. IsIn(d, records[b].sightings)  BY <1>7, <1>8, <2>2, OnceMore
    <3>2. Entered(d) /\ ~ AddsTo(d)  BY <1>2, <1>4, <2>2, <3>1 DEF SightingInv, Entered
    <3>3. session[d].step \in LookSteps  BY <1>2, <2>2 DEF Lone
    <3> QED  BY <3>2, <3>3 DEF Entered, Is, LookSteps
  <2>3. ASSUME NEW d \in Command, d # c, Filed(d), Listed(d) = Listed(c)
        PROVE  OnceIn(d, session'[c].draft.sightings)
    <3>1. OnceIn(d, records[Listed(d)].sightings)  BY <1>2, <1>5, <2>3 DEF SightingInv
    <3> QED  BY <1>3, <1>7, <1>8, <2>3, <3>1, OnceMore
  <2> QED  BY <1>2, <1>5, <1>9, <1>11, <2>1, <2>2, <2>3, SightingStays
<1> QED  BY <1>13, <1>16, <1>17

LEMMA CreateBooks ==
  ASSUME BugInv, NEW c \in Command, Create(c), Does(c), Sound(c)  PROVE BooksInv'
<1> SUFFICES ASSUME ~ mixed', ~ damaged'  PROVE IndexInv' /\ SaverInv' /\ SightingInv'  BY DEF BooksInv
<1>1. session[c].step = "create" /\ Is(c, "create")  BY DEF Create, Is
<1>2. /\ IndexInv /\ SaverInv /\ SightingInv
      /\ Lone(c) /\ OneSaver(c) /\ (~ index.whole => Is(c, "write index"))
      /\ \A b : InHand(b) <=> session[c].step = "write record" /\ session[c].bug = b
      /\ \A d \in Command : d # c => session'[d] = session[d] /\ ~ AddsTo(d) /\ ~ AddsTo(d)'
      /\ command' = command /\ ~ SaidFiled(session[c])
      /\ session[c] \in Sessions /\ session \in [Command -> Sessions]
  BY <1>1, SavingOn DEF LookSteps
<1>3. Listed(c) = 0  BY <1>1, <1>2 DEF OneSaver
<1>4. index.whole  BY <1>1, <1>2 DEF Is
<1>5. ReadIndex = index /\ [index EXCEPT !.whole = TRUE] = index
  <2>1. index \in Indexes  BY SessionIs
  <2> QED  BY <1>4, <2>1 DEF ReadIndex, Indexes
<1>6. NextBug \in BugId  BY <1>5 DEF Create, NextBug
<1>7. /\ session'[c].step = "cut record" /\ session'[c].bug = NextBug /\ session'[c].new
      /\ session'[c].index = Counted(index, c)
      /\ session'[c].draft = [whole |-> TRUE, signature |-> command[c].signature, sightings |-> <<c>>]
  BY <1>2, <1>5 DEF Create, Sessions, NextBug
<1>8. index' = index /\ records' = records  BY DEF Create
<1>9. \A d : ~ InHand(d)  BY <1>1, <1>2
<1>10. IndexInv'  BY <1>2, <1>8, <1>9, IndexStays
<1>11. Listed(c)' = Listed(c) /\ NextBug' = NextBug  BY <1>2, <1>8 DEF Listed, NextBug
<1>12. Files(c)' /\ Writing(c)' /\ ~ AddsTo(c)' /\ ~ Is(c, "record")' /\ ~ Is(c, "create")'
  BY <1>7 DEF Files, Writing, AddsTo, Is
<1>13. OneSaver(c)'
  <2>1. Counted([index EXCEPT !.whole = TRUE], c)' = Counted(index, c)
    BY <1>2, <1>5, <1>8 DEF Counted
  <2> QED  BY <1>2, <1>3, <1>6, <1>7, <1>11, <1>12, <2>1 DEF OneSaver
<1>14. SaverInv'  BY <1>2, <1>4, <1>8, <1>13, SaverStays
<1>15. SightingInv'
  <2>1. ~ SaidFiled(session'[c])  BY <1>7, NotFiledThen
  <2>2. ~ Entered(c)  BY <1>1 DEF Entered, Is, AddsTo, Writing
  <2> QED  BY <1>2, <1>8, <1>9, <1>12, <2>1, <2>2, SightingStays
<1> QED  BY <1>10, <1>14, <1>15

\* IndexInv after a step that gave the index these signatures and this number.
LEMMA NextIndex ==
  ASSUME NEW signatures, NEW sequence, index'.signatures = signatures, index'.sequence = sequence,
         \A s \in Signature : \A n : n = signatures[s] /\ n # 0 =>
           /\ n <= sequence
           /\ InHand(n)' \/ (records'[n].whole /\ records'[n].signature = s)
           /\ \A t \in Signature : signatures[t] = n => s = t,
         \A d \in BugId : records'[d].whole =>
           /\ records'[d].signature \in Signature
           /\ \/ signatures[records'[d].signature] = d
              \/ signatures[records'[d].signature] = 0 /\ d = sequence + 1
  PROVE  IndexInv'
<1>1. NextBug' = sequence + 1  BY DEF NextBug
<1>2. ASSUME NEW s \in Signature, index'.signatures[s] # 0
      PROVE  /\ index'.signatures[s] <= index'.sequence
             /\ InHand(index.signatures[s])' \/ (records'[index'.signatures[s]].whole /\ records'[index'.signatures[s]].signature = s)
             /\ \A t \in Signature : index'.signatures[t] = index'.signatures[s] => s = t
  <2> DEFINE n == signatures[s]
  <2>1. /\ n <= sequence
        /\ InHand(n)' \/ (records'[n].whole /\ records'[n].signature = s)
        /\ \A t \in Signature : signatures[t] = n => s = t
    BY <1>2
  <2>2. InHand(n)' => InHand(index.signatures[s])'  BY DEF InHand
  <2> QED  BY <2>1, <2>2
<1>3. ASSUME NEW d \in BugId, records'[d].whole
      PROVE  /\ records'[d].signature \in Signature
             /\ \/ index'.signatures[records'[d].signature] = d
                \/ index'.signatures[records'[d].signature] = 0 /\ d = NextBug'
  BY <1>1, <1>3
<1> QED  BY <1>2, <1>3 DEF IndexInv

\* SightingInv after a step of c.
LEMMA NextSighting ==
  ASSUME NEW c \in Command, \A d \in Command : d # c => ~ AddsTo(d)',
         \A a \in BugId, d \in Command : IsIn(d, records'[a].sightings) => Entered(d)',
         \A d \in Command : c # d /\ AddsTo(c)' /\ IsIn(d, session'[c].draft.sightings) =>
           (Is(d, "done") \/ Is(d, "stopped"))',
         \A d \in Command : Filed(d)' =>
           /\ session'[d].bug = Listed(d)' /\ Listed(d)' # 0
           /\ InHand(Listed(d))' \/ OnceIn(d, records'[Listed(d)'].sightings)
           /\ AddsTo(c)' /\ Listed(c)' = Listed(d)' => OnceIn(d, session'[c].draft.sightings)
  PROVE  SightingInv'
<1>1. /\ \A d, a : IsIn(d, records[a].sightings)' <=> IsIn(d, records'[a].sightings)
      /\ \A d, a : IsIn(d, session[a].draft.sightings)' <=> IsIn(d, session'[a].draft.sightings)
      /\ \A d, a : OnceIn(d, session[a].draft.sightings)' <=> OnceIn(d, session'[a].draft.sightings)
      /\ \A d : OnceIn(d, records[Listed(d)].sightings)' <=> OnceIn(d, records'[Listed(d)'].sightings)
  BY DEF IsIn, OnceIn
<1>2. \A a \in Command : AddsTo(a)' => a = c  OBVIOUS
<1>3. \A d : Entered(d)' =>
        (Is(d, "done") \/ Is(d, "stopped") \/ Is(d, "cut index") \/ Is(d, "write index") \/ AddsTo(d))'
  BY DEF Entered
<1>4. \A a, d \in Command : AddsTo(a)' /\ a # d /\ IsIn(d, session'[a].draft.sightings) =>
        (Is(d, "done") \/ Is(d, "stopped"))'
  BY <1>2
<1>5. \A d \in Command : Filed(d)' =>
        \A a \in Command : AddsTo(a)' /\ Listed(a)' = Listed(d)' => OnceIn(d, session'[a].draft.sightings)
  BY <1>2
<1> QED  BY <1>1, <1>3, <1>4, <1>5 DEF SightingInv

LEMMA CutIndexBooks ==
  ASSUME BugInv, NEW c \in Command, CutIndex(c), Does(c), Sound(c)  PROVE BooksInv'
<1> SUFFICES ASSUME ~ mixed', ~ damaged'  PROVE IndexInv' /\ SaverInv' /\ SightingInv'  BY DEF BooksInv
<1>1. session[c].step = "cut index" /\ Is(c, "cut index")  BY DEF CutIndex, Is
<1>2. /\ IndexInv /\ SaverInv /\ SightingInv
      /\ Lone(c) /\ OneSaver(c) /\ (~ index.whole => Is(c, "write index"))
      /\ \A b : InHand(b) <=> session[c].step = "write record" /\ session[c].bug = b
      /\ \A d \in Command : d # c => session'[d] = session[d] /\ ~ AddsTo(d) /\ ~ AddsTo(d)'
      /\ command' = command /\ ~ SaidFiled(session[c])
      /\ session[c] \in Sessions /\ session \in [Command -> Sessions]
  BY <1>1, SavingOn DEF LookSteps
<1>3. Files(c) /\ ~ Writing(c)  BY <1>1 DEF Files, Writing, Is
<1>4. /\ session'[c].step = "write index" /\ session'[c].bug = session[c].bug
      /\ session'[c].index = session[c].index /\ session'[c].draft = session[c].draft
  BY <1>2 DEF CutIndex, Sessions
<1>5. index \in Indexes /\ index' = [index EXCEPT !.whole = FALSE] /\ records' = records
  BY SessionIs DEF CutIndex
<1>6. index'.sequence = index.sequence /\ index'.signatures = index.signatures
  BY <1>5 DEF Indexes
<1>7. [index' EXCEPT !.whole = TRUE] = [index EXCEPT !.whole = TRUE]
  BY <1>5 DEF Indexes
<1>8. \A d : ~ InHand(d)  BY <1>1, <1>2
<1>9. IndexInv'  BY <1>2, <1>5, <1>6, <1>8, IndexStays
<1>10. Listed(c)' = Listed(c) /\ NextBug' = NextBug  BY <1>2, <1>6 DEF Listed, NextBug
<1>11. Files(c)' /\ ~ Writing(c)' /\ ~ AddsTo(c)' /\ ~ Is(c, "record")' /\ ~ Is(c, "create")'
  BY <1>4 DEF Files, Writing, AddsTo, Is
<1>12. OneSaver(c)'
  <2>1. Counted([index EXCEPT !.whole = TRUE], c)' = Counted([index EXCEPT !.whole = TRUE], c)
    BY <1>2, <1>7 DEF Counted
  <2>2. /\ Listed(c) = 0 /\ session[c].bug = NextBug /\ NextBug \in BugId
        /\ session[c].index = Counted([index EXCEPT !.whole = TRUE], c)
        /\ session[c].draft = [whole |-> TRUE, signature |-> command[c].signature, sightings |-> <<c>>]
        /\ records[NextBug] = session[c].draft
    BY <1>2, <1>3 DEF OneSaver
  <2> QED  BY <1>2, <1>4, <1>5, <1>10, <1>11, <2>1, <2>2 DEF OneSaver
<1>13. SaverInv'  BY <1>2, <1>4, <1>12, SaverStays
<1>14. SightingInv'
  <2>1. ~ SaidFiled(session'[c])  BY <1>4, NotFiledThen
  <2>2. Entered(c)'  BY <1>4 DEF Entered, Is
  <2> QED  BY <1>2, <1>5, <1>6, <1>8, <1>11, <2>1, <2>2, SightingStays
<1> QED  BY <1>9, <1>13, <1>14

LEMMA MoveBooks ==
  ASSUME BugInv, NEW c \in Command, Move(c), Does(c), Sound(c)  PROVE BooksInv'
<1>1. session[c].step = "move" /\ Is(c, "move")  BY DEF Move, Is
<1>2. session[c] \in Sessions /\ session \in [Command -> Sessions]  BY SessionIs
<1>3. command' = command /\ records' = records /\ index' = index  BY DEF Does, Move
<1>4. CASE session'[c].step = "stopped"
  <2>1. ~ SaidFiled(session'[c])  BY <1>4, NotFiledThen
  <2> QED  BY <1>1, <1>3, <1>4, <2>1, AsideBooks DEF LookSteps
<1>5. CASE session'[c].step # "stopped"
  <2> SUFFICES ASSUME ~ mixed', ~ damaged'  PROVE IndexInv' /\ SaverInv' /\ SightingInv'  BY DEF BooksInv
  <2>1. /\ IndexInv /\ SaverInv /\ SightingInv
        /\ Lone(c) /\ OneSaver(c) /\ (~ index.whole => Is(c, "write index"))
        /\ \A b : InHand(b) <=> session[c].step = "write record" /\ session[c].bug = b
        /\ \A d \in Command : d # c => session'[d] = session[d] /\ ~ AddsTo(d) /\ ~ AddsTo(d)'
        /\ command' = command /\ ~ SaidFiled(session[c])
        /\ session[c] \in Sessions /\ session \in [Command -> Sessions]
    BY <1>1, SavingOn DEF LookSteps
  <2>2. ~ session[c].new  BY <1>1, MoveNext
  <2>3. /\ session'[c].step \in {"move", "cut record"} /\ session'[c].bug = session[c].bug
        /\ session'[c].draft = session[c].draft /\ session'[c].new = session[c].new
    <3> DEFINE found == Owner(Folder(c, PendingDirs(c)[session[c].moved + 1]))
               to == IF session[c].moved + 1 = Len(PendingDirs(c)) THEN "cut record" ELSE session[c].step
    <3>1. CASE found = {}
      <4>1. session' = [session EXCEPT ![c].step = "stopped"]  BY <3>1 DEF Move
      <4>2. session'[c].step = "stopped"  BY <1>2, <4>1 DEF Sessions
      <4> QED  BY <1>5, <4>2
    <3>2. CASE found # {}
      <4>1. session' = [session EXCEPT ![c] = [session[c] EXCEPT !.moved = session[c].moved + 1, !.step = to]]
        BY <1>2, <3>2 DEF Move
      <4>2. to \in {"move", "cut record"}  BY <1>1
      <4> HIDE DEF to
      <4> QED  BY <1>2, <4>1, <4>2 DEF Sessions
    <3> QED  BY <3>1, <3>2
  <2>4. AddsTo(c)  BY <1>1 DEF AddsTo
  <2>5. AddsTo(c)' /\ ~ Files(c)' /\ ~ Is(c, "record")' /\ ~ Is(c, "create")'
    BY <2>2, <2>3 DEF AddsTo, Files, Writing, Is
  <2>6. \A d : ~ InHand(d)  BY <1>1, <2>1
  <2>7. IndexInv'  BY <1>3, <2>1, <2>6, IndexStays
  <2>8. Listed(c)' = Listed(c)  BY <1>3 DEF Listed
  <2>9. OneSaver(c)'
    <3>1. OnceIn(c, session[c].draft.sightings)' <=> OnceIn(c, session'[c].draft.sightings)  BY DEF OnceIn
    <3>2. /\ session[c].bug = Listed(c) /\ Listed(c) # 0
          /\ session[c].draft.whole /\ session[c].draft.signature = command[c].signature
          /\ OnceIn(c, session[c].draft.sightings)
      BY <2>1, <2>4 DEF OneSaver
    <3>3. /\ session'[c].bug = Listed(c)' /\ Listed(c)' # 0
          /\ session'[c].draft.whole /\ session'[c].draft.signature = command'[c].signature
          /\ OnceIn(c, session[c].draft.sightings)'
      BY <1>3, <2>3, <2>8, <3>1, <3>2
    <3> QED  BY <2>5, <3>3 DEF OneSaver
  <2>10. index'.whole  BY <1>1, <1>3, <2>1 DEF Is
  <2>11. SaverInv'  BY <2>1, <2>9, <2>10, SaverStays
  <2>12. SightingInv'
    <3>1. ~ SaidFiled(session'[c])  BY <2>3, NotFiledThen
    <3>2. Entered(c)'  BY <2>5 DEF Entered
    <3>3. \A d \in Command : d # c /\ IsIn(d, session[c].draft.sightings) => Is(d, "done") \/ Is(d, "stopped")
      BY <2>1, <2>4 DEF SightingInv
    <3>4. \A d \in Command : d # c /\ Filed(d) /\ Listed(d) = Listed(c) => OnceIn(d, session[c].draft.sightings)
      BY <2>1, <2>4 DEF SightingInv
    <3> QED  BY <1>3, <2>1, <2>3, <2>6, <3>1, <3>2, <3>3, <3>4, SightingStays
  <2> QED  BY <2>7, <2>11, <2>12
<1> QED  BY <1>4, <1>5

LEMMA CutRecordBooks ==
  ASSUME BugInv, NEW c \in Command, CutRecord(c), Does(c), Sound(c)  PROVE BooksInv'
<1> SUFFICES ASSUME ~ mixed', ~ damaged'  PROVE IndexInv' /\ SaverInv' /\ SightingInv'  BY DEF BooksInv
<1>1. session[c].step = "cut record" /\ Is(c, "cut record") /\ Writing(c)  BY DEF CutRecord, Is, Writing
<1>2. /\ IndexInv /\ SaverInv /\ SightingInv
      /\ Lone(c) /\ OneSaver(c) /\ (~ index.whole => Is(c, "write index"))
      /\ \A b : InHand(b) <=> session[c].step = "write record" /\ session[c].bug = b
      /\ \A d \in Command : d # c => session'[d] = session[d] /\ ~ AddsTo(d) /\ ~ AddsTo(d)'
      /\ \A b : InHand(b)' <=> session'[c].step = "write record" /\ session'[c].bug = b
      /\ command' = command /\ ~ SaidFiled(session[c])
      /\ session[c] \in Sessions /\ session \in [Command -> Sessions]
  BY <1>1, SavingOn DEF LookSteps
<1> DEFINE b == session[c].bug
<1>3. /\ session'[c].step = "write record" /\ session'[c].bug = b /\ session'[c].new = session[c].new
      /\ session'[c].index = session[c].index /\ session'[c].draft = session[c].draft
  BY <1>2 DEF CutRecord, Sessions
<1>4. Files(c) \/ AddsTo(c)  BY <1>1 DEF Files, AddsTo
<1>5. b \in BugId
  <2>1. b \in {0} \cup BugId  BY <1>2 DEF Sessions
  <2>2. b # 0  BY <1>2, <1>4, BugAssumption DEF OneSaver
  <2> QED  BY <2>1, <2>2
<1>6. /\ index' = index /\ records' = [records EXCEPT ![b] = NoRecord] /\ records \in [BugId -> BugRecords]
  BY SessionIs DEF CutRecord
<1>7. /\ ~ records'[b].whole /\ \A d : ~ IsIn(d, records'[b].sightings)
      /\ \A d \in BugId : d # b => records'[d] = records[d]
  BY <1>5, <1>6 DEF NoRecord, IsIn
<1>8. (\A d : ~ InHand(d)) /\ \A d : InHand(d)' <=> d = b  BY <1>1, <1>2, <1>3
<1> HIDE DEF b
<1>9. IndexInv'
  <2>1. index \in Indexes  BY SessionIs
  <2>2. ASSUME NEW s \in Signature, NEW n, n = index.signatures[s], n # 0
        PROVE  /\ n <= index.sequence
               /\ InHand(n)' \/ (records'[n].whole /\ records'[n].signature = s)
               /\ \A t \in Signature : index.signatures[t] = n => s = t
    <3>1. n \in BugId  BY <2>1, <2>2 DEF Indexes
    <3>2. /\ n <= index.sequence
          /\ InHand(n) \/ (records[n].whole /\ records[n].signature = s)
          /\ \A t \in Signature : index.signatures[t] = n => s = t
      BY <1>2, <2>2 DEF IndexInv
    <3>3. InHand(n)' \/ records'[n] = records[n]  BY <1>7, <1>8, <3>1
    <3> QED  BY <1>8, <3>2, <3>3
  <2>3. ASSUME NEW d \in BugId, records'[d].whole
        PROVE  /\ records'[d].signature \in Signature
               /\ \/ index.signatures[records'[d].signature] = d
                  \/ index.signatures[records'[d].signature] = 0 /\ d = NextBug
    <3>1. records'[d] = records[d]  BY <1>7, <2>3
    <3>2. /\ records[d].signature \in Signature
          /\ \/ index.signatures[records[d].signature] = d
             \/ index.signatures[records[d].signature] = 0 /\ d = NextBug
      BY <1>2, <2>3, <3>1 DEF IndexInv
    <3> QED  BY <3>1, <3>2
  <2> QED  BY <1>6, <2>2, <2>3, NextIndex DEF NextBug
<1>10. Listed(c)' = Listed(c) /\ NextBug' = NextBug  BY <1>2, <1>6 DEF Listed, NextBug
<1>11. /\ Files(c)' <=> Files(c)
       /\ AddsTo(c)' <=> AddsTo(c)
       /\ Writing(c)' /\ ~ Is(c, "record")' /\ ~ Is(c, "create")'
  BY <1>1, <1>3 DEF Files, Writing, AddsTo, Is
<1>12. OneSaver(c)'
  <2>1. Counted([index EXCEPT !.whole = TRUE], c)' = Counted([index EXCEPT !.whole = TRUE], c)
    BY <1>2, <1>6 DEF Counted
  <2>2. OnceIn(c, session[c].draft.sightings)' <=> OnceIn(c, session'[c].draft.sightings)  BY DEF OnceIn
  <2>3. ASSUME Files(c)
        PROVE  /\ Listed(c)' = 0 /\ session'[c].bug = NextBug' /\ NextBug' \in BugId
               /\ session'[c].index = Counted([index EXCEPT !.whole = TRUE], c)'
               /\ session'[c].draft = [whole |-> TRUE, signature |-> command'[c].signature, sightings |-> <<c>>]
    BY <1>2, <1>3, <1>10, <2>1, <2>3 DEF OneSaver, b
  <2>4. ASSUME AddsTo(c)
        PROVE  /\ session'[c].bug = Listed(c)' /\ Listed(c)' # 0
               /\ session'[c].draft.whole /\ session'[c].draft.signature = command'[c].signature
               /\ OnceIn(c, session[c].draft.sightings)'
    BY <1>2, <1>3, <1>10, <2>2, <2>4 DEF OneSaver, b
  <2> QED  BY <1>11, <2>3, <2>4 DEF OneSaver
<1>13. index'.whole  BY <1>1, <1>2, <1>6 DEF Is
<1>14. SaverInv'  BY <1>2, <1>12, <1>13, SaverStays
<1>15. SightingInv'
  <2>1. ~ Filed(c) /\ ~ Filed(c)'
    <3>1. ~ SaidFiled(session'[c])  BY <1>3, NotFiledThen
    <3> QED  BY <1>2, <3>1 DEF Filed, SaidFiled
  <2>2. ASSUME NEW a \in BugId, NEW d \in Command, IsIn(d, records'[a].sightings)
        PROVE  Entered(d)'
    <3>1. a # b /\ IsIn(d, records[a].sightings)  BY <1>7, <2>2
    <3>2. Entered(d)  BY <1>2, <3>1 DEF SightingInv, Entered
    <3>3. CASE d = c  BY <1>1, <1>11, <3>2, <3>3 DEF Entered, Is
    <3>4. CASE d # c
      <4>1. session'[d] = session[d]  BY <1>2, <3>4
      <4> QED  BY <3>2, <4>1 DEF Entered, Is, AddsTo, Writing
    <3> QED  BY <3>3, <3>4
  <2>3. ASSUME NEW d \in Command, c # d, AddsTo(c)', IsIn(d, session'[c].draft.sightings)
        PROVE  (Is(d, "done") \/ Is(d, "stopped"))'
    <3>1. Is(d, "done") \/ Is(d, "stopped")  BY <1>2, <1>3, <1>11, <2>3 DEF SightingInv
    <3> QED  BY <1>2, <2>3, <3>1 DEF Is
  <2>4. ASSUME NEW d \in Command, Filed(d)'
        PROVE  /\ session'[d].bug = Listed(d)' /\ Listed(d)' # 0
               /\ InHand(Listed(d))' \/ OnceIn(d, records'[Listed(d)'].sightings)
               /\ AddsTo(c)' /\ Listed(c)' = Listed(d)' => OnceIn(d, session'[c].draft.sightings)
    <3>1. d # c  BY <2>1, <2>4
    <3>2. session'[d] = session[d] /\ Filed(d) /\ Listed(d)' = Listed(d)
      BY <1>2, <1>6, <2>4, <3>1 DEF Filed, Listed
    <3>3. /\ session[d].bug = Listed(d) /\ Listed(d) # 0
          /\ OnceIn(d, records[Listed(d)].sightings)
          /\ AddsTo(c) /\ Listed(c) = Listed(d) => OnceIn(d, session[c].draft.sightings)
      BY <1>2, <1>8, <3>2 DEF SightingInv
    <3>4. Listed(d) \in BugId
      <4>1. command[d].signature \in Signature /\ index \in Indexes  BY SessionIs DEF IsCommand
      <4>2. Listed(d) \in {0} \cup BugId  BY <4>1 DEF Listed, Indexes
      <4> QED  BY <3>3, <4>2
    <3>5. InHand(Listed(d))' \/ records'[Listed(d)] = records[Listed(d)]
      <4>1. CASE Listed(d) = b
        <5>1. Is(c, "write record")' /\ session'[c].bug = Listed(d)'  BY <1>3, <3>2, <4>1 DEF Is, b
        <5> QED  BY <5>1 DEF InHand
      <4>2. CASE Listed(d) # b  BY <1>7, <3>4, <4>2
      <4> QED  BY <4>1, <4>2
    <3> QED  BY <1>3, <1>10, <1>11, <3>2, <3>3, <3>5
  <2> QED  BY <1>2, <2>2, <2>3, <2>4, NextSighting
<1> QED  BY <1>9, <1>14, <1>15

LEMMA NumberIs ==
  ASSUME index \in Indexes  PROVE index.sequence \in Nat
<1>1. index.sequence \in {0} \cup BugId  BY DEF Indexes
<1>2. ASSUME NEW n \in {0} \cup BugId  PROVE n \in Nat  BY <1>2, BugAssumption
<1> QED  BY <1>1, <1>2

\* A record that is written is the one that the index has, or the next.
LEMMA WriteRecordBooks ==
  ASSUME BugInv, NEW c \in Command, WriteRecord(c), Does(c), Sound(c)  PROVE BooksInv'
<1> SUFFICES ASSUME ~ mixed', ~ damaged'  PROVE IndexInv' /\ SaverInv' /\ SightingInv'  BY DEF BooksInv
<1>1. session[c].step = "write record" /\ Is(c, "write record") /\ Writing(c)  BY DEF WriteRecord, Is, Writing
<1>2. /\ IndexInv /\ SaverInv /\ SightingInv
      /\ Lone(c) /\ OneSaver(c) /\ (~ index.whole => Is(c, "write index"))
      /\ \A b : InHand(b) <=> session[c].step = "write record" /\ session[c].bug = b
      /\ \A d \in Command : d # c => session'[d] = session[d] /\ ~ AddsTo(d) /\ ~ AddsTo(d)'
      /\ \A b : InHand(b)' <=> session'[c].step = "write record" /\ session'[c].bug = b
      /\ command' = command /\ ~ SaidFiled(session[c])
      /\ session[c] \in Sessions /\ session \in [Command -> Sessions]
  BY <1>1, SavingOn DEF LookSteps
<1> DEFINE b == session[c].bug
           draft == session[c].draft
           own == command[c].signature
<1>3. /\ session'[c].step = IF session[c].new THEN "cut index" ELSE "done"
      /\ session'[c].bug = b /\ session'[c].new = session[c].new
      /\ session'[c].index = session[c].index /\ session'[c].draft = draft
  BY <1>2 DEF WriteRecord, Sessions
<1>4. Files(c) <=> session[c].new  BY <1>1 DEF Files, Is
<1>5. AddsTo(c) <=> ~ session[c].new  BY <1>1 DEF AddsTo, Is
<1>6. b \in BugId
  <2>1. b \in {0} \cup BugId  BY <1>2 DEF Sessions
  <2>2. b # 0  BY <1>2, <1>4, <1>5, BugAssumption DEF OneSaver
  <2> QED  BY <2>1, <2>2
<1>7. /\ index' = index /\ index.whole /\ index \in Indexes /\ own \in Signature
      /\ records' = [records EXCEPT ![b] = draft] /\ records \in [BugId -> BugRecords]
  BY <1>1, <1>2, SessionIs DEF WriteRecord, Is, IsCommand
<1>8. /\ records'[b] = draft
      /\ \A d \in BugId : d # b => records'[d] = records[d]
  BY <1>6, <1>7
<1>9. draft.whole /\ draft.signature = own
  <2>1. CASE session[c].new
    <3>1. draft = [whole |-> TRUE, signature |-> own, sightings |-> <<c>>]  BY <1>2, <1>4, <2>1 DEF OneSaver
    <3> QED  BY <3>1
  <2>2. CASE ~ session[c].new  BY <1>2, <1>5, <2>2 DEF OneSaver
  <2> QED  BY <2>1, <2>2
<1>10. session[c].new => Listed(c) = 0 /\ b = NextBug /\ draft.sightings = <<c>>
  <2> SUFFICES ASSUME session[c].new  PROVE Listed(c) = 0 /\ b = NextBug /\ draft.sightings = <<c>>
    OBVIOUS
  <2>1. draft = [whole |-> TRUE, signature |-> own, sightings |-> <<c>>]  BY <1>2, <1>4 DEF OneSaver
  <2>2. Listed(c) = 0 /\ b = NextBug  BY <1>2, <1>4 DEF OneSaver
  <2> HIDE DEF draft, own
  <2>3. draft.sightings = <<c>>  BY <2>1
  <2> QED  BY <2>2, <2>3
<1>11. ~ session[c].new => b = Listed(c) /\ Listed(c) # 0 /\ OnceIn(c, draft.sightings)
  BY <1>2, <1>5 DEF OneSaver
<1>12. (\A d : InHand(d) <=> d = b) /\ \A d : ~ InHand(d)'  BY <1>1, <1>2, <1>3
<1>13. Listed(c) = index.signatures[own] /\ NextBug = index.sequence + 1 /\ index.sequence \in Nat
  <2>1. index.sequence \in Nat  BY <1>7, NumberIs
  <2> QED  BY <2>1 DEF Listed, NextBug
<1> HIDE DEF b, draft, own
<1>14. ASSUME NEW n, n <= index.sequence, session[c].new  PROVE n # b
  BY <1>10, <1>13, <1>14
<1>15. IndexInv'
  <2>1. ASSUME NEW s \in Signature, NEW n, n = index.signatures[s], n # 0
        PROVE  /\ n <= index.sequence
               /\ InHand(n)' \/ (records'[n].whole /\ records'[n].signature = s)
               /\ \A t \in Signature : index.signatures[t] = n => s = t
    <3>1. n \in BugId  BY <1>7, <2>1 DEF Indexes
    <3>2. /\ n <= index.sequence
          /\ InHand(n) \/ (records[n].whole /\ records[n].signature = s)
          /\ \A t \in Signature : index.signatures[t] = n => s = t
      BY <1>2, <2>1 DEF IndexInv
    <3>3. CASE n # b  BY <1>8, <1>12, <3>1, <3>2, <3>3
    <3>4. CASE n = b
      <4>1. ~ session[c].new  BY <1>14, <3>2, <3>4
      <4>2. index.signatures[own] = n  BY <1>11, <1>13, <3>4, <4>1
      <4>3. s = own  BY <1>7, <3>2, <4>2
      <4> QED  BY <1>8, <1>9, <3>2, <3>4, <4>3
    <3> QED  BY <3>3, <3>4
  <2>2. ASSUME NEW d \in BugId, records'[d].whole
        PROVE  /\ records'[d].signature \in Signature
               /\ \/ index.signatures[records'[d].signature] = d
                  \/ index.signatures[records'[d].signature] = 0 /\ d = NextBug
    <3>1. CASE d # b
      <4>1. records'[d] = records[d]  BY <1>8, <3>1
      <4>2. /\ records[d].signature \in Signature
            /\ \/ index.signatures[records[d].signature] = d
               \/ index.signatures[records[d].signature] = 0 /\ d = NextBug
        BY <1>2, <2>2, <4>1 DEF IndexInv
      <4> QED  BY <4>1, <4>2
    <3>2. CASE d = b
      <4>1. records'[d].signature = own /\ own \in Signature  BY <1>7, <1>8, <1>9, <3>2
      <4>2. CASE session[c].new  BY <1>10, <1>13, <3>2, <4>1, <4>2
      <4>3. CASE ~ session[c].new  BY <1>11, <1>13, <3>2, <4>1, <4>3
      <4> QED  BY <4>2, <4>3
    <3> QED  BY <3>1, <3>2
  <2>3. index'.signatures = index.signatures /\ index'.sequence = index.sequence  BY <1>7
  <2>4. \A d \in BugId : records'[d].whole =>
          /\ records'[d].signature \in Signature
          /\ \/ index.signatures[records'[d].signature] = d
             \/ index.signatures[records'[d].signature] = 0 /\ d = index.sequence + 1
    BY <1>13, <2>2
  <2> QED  BY <2>1, <2>3, <2>4, NextIndex
<1>16. Listed(c)' = Listed(c) /\ NextBug' = NextBug  BY <1>2, <1>7 DEF Listed, NextBug
<1>17. /\ Files(c)' <=> session[c].new
       /\ ~ Writing(c)' /\ ~ AddsTo(c)' /\ ~ Is(c, "record")' /\ ~ Is(c, "create")'
  BY <1>3 DEF Files, Writing, AddsTo, Is
<1>18. OneSaver(c)'
  <2>1. Counted([index EXCEPT !.whole = TRUE], c)' = Counted([index EXCEPT !.whole = TRUE], c)
    BY <1>2, <1>7 DEF Counted
  <2>2. ASSUME session[c].new
        PROVE  /\ Listed(c)' = 0 /\ session'[c].bug = NextBug' /\ NextBug' \in BugId
               /\ session'[c].index = Counted([index EXCEPT !.whole = TRUE], c)'
               /\ session'[c].draft = [whole |-> TRUE, signature |-> command'[c].signature, sightings |-> <<c>>]
               /\ records'[NextBug'] = session'[c].draft
    <3>1. /\ Listed(c) = 0 /\ NextBug \in BugId
          /\ session[c].index = Counted([index EXCEPT !.whole = TRUE], c)
          /\ session[c].draft = [whole |-> TRUE, signature |-> command[c].signature, sightings |-> <<c>>]
      BY <1>2, <1>4, <2>2 DEF OneSaver
    <3>2. records'[NextBug'] = session'[c].draft  BY <1>3, <1>8, <1>10, <1>16, <2>2
    <3> QED  BY <1>2, <1>3, <1>10, <1>16, <2>1, <2>2, <3>1, <3>2 DEF draft
  <2> QED  BY <1>17, <2>2 DEF OneSaver
<1>19. SaverInv'  BY <1>2, <1>7, <1>18, SaverStays
<1>20. SightingInv'
  <2>1. ASSUME NEW d \in Command, IsIn(d, draft.sightings)  PROVE Entered(d)'
    <3>1. CASE d = c  BY <1>3, <3>1 DEF Entered, Is
    <3>2. CASE d # c
      <4>1. ~ session[c].new  BY <1>10, <2>1, <3>2 DEF IsIn
      <4>2. IsIn(d, session[c].draft.sightings)  BY <2>1 DEF draft
      <4>3. Is(d, "done") \/ Is(d, "stopped")  BY <1>2, <1>5, <3>2, <4>1, <4>2 DEF SightingInv
      <4>4. session'[d] = session[d]  BY <1>2, <3>2
      <4> QED  BY <4>3, <4>4 DEF Entered, Is
    <3> QED  BY <3>1, <3>2
  <2>2. ASSUME NEW a \in BugId, NEW d \in Command, IsIn(d, records'[a].sightings)
        PROVE  Entered(d)'
    <3>1. CASE a = b  BY <1>8, <2>1, <2>2, <3>1
    <3>2. CASE a # b
      <4>1. IsIn(d, records[a].sightings)  BY <1>8, <2>2, <3>2
      <4>2. Entered(d)  BY <1>2, <4>1 DEF SightingInv, Entered
      <4>3. CASE d = c  BY <1>3, <4>3 DEF Entered, Is
      <4>4. CASE d # c
        <5>1. session'[d] = session[d]  BY <1>2, <4>4
        <5> QED  BY <4>2, <5>1 DEF Entered, Is, AddsTo, Writing
      <4> QED  BY <4>3, <4>4
    <3> QED  BY <3>1, <3>2
  <2>3. ASSUME NEW d \in Command, Filed(d)'
        PROVE  /\ session'[d].bug = Listed(d)' /\ Listed(d)' # 0
               /\ OnceIn(d, records'[Listed(d)'].sightings)
    <3>0. Listed(d)' = Listed(d)  BY <1>2, <1>7 DEF Listed
    <3>1. CASE d = c
      <4>1. ~ session[c].new
        <5>1. session[c].new => ~ SaidFiled(session'[c])  BY <1>3, NotFiledThen
        <5> QED  BY <2>3, <3>1, <5>1 DEF Filed, SaidFiled
      <4>2. b = Listed(c) /\ Listed(c) # 0 /\ OnceIn(c, draft.sightings)  BY <1>11, <4>1
      <4> QED  BY <1>3, <1>8, <1>16, <3>1, <4>2
    <3>2. CASE d # c
      <4>1. session'[d] = session[d] /\ Filed(d)  BY <1>2, <2>3, <3>2 DEF Filed
      <4>2. /\ session[d].bug = Listed(d) /\ Listed(d) # 0
            /\ InHand(Listed(d)) \/ OnceIn(d, records[Listed(d)].sightings)
            /\ AddsTo(c) /\ Listed(c) = Listed(d) => OnceIn(d, session[c].draft.sightings)
        BY <1>2, <4>1 DEF SightingInv
      <4>3. Listed(d) \in BugId /\ Listed(d) <= index.sequence
        <5>1. command[d].signature \in Signature  BY SessionIs DEF IsCommand
        <5>2. Listed(d) \in {0} \cup BugId  BY <1>7, <5>1 DEF Listed, Indexes
        <5>3. Listed(d) <= index.sequence  BY <1>2, <4>2, <5>1 DEF IndexInv, Listed
        <5> QED  BY <4>2, <5>2, <5>3
      <4>4. CASE Listed(d) # b
        <5>1. records'[Listed(d)] = records[Listed(d)]  BY <1>8, <4>3, <4>4
        <5>2. OnceIn(d, records[Listed(d)].sightings)  BY <1>12, <4>2, <4>4
        <5> QED  BY <3>0, <4>1, <4>2, <5>1, <5>2
      <4>5. CASE Listed(d) = b
        <5>1. ~ session[c].new  BY <1>14, <4>3, <4>5
        <5>2. OnceIn(d, draft.sightings)  BY <1>5, <1>11, <4>2, <4>5, <5>1 DEF draft
        <5> QED  BY <1>8, <3>0, <4>1, <4>2, <4>5, <5>2
      <4> QED  BY <4>4, <4>5
    <3> QED  BY <3>1, <3>2
  <2>4. \A d \in Command : Filed(d)' =>
          /\ session'[d].bug = Listed(d)' /\ Listed(d)' # 0
          /\ InHand(Listed(d))' \/ OnceIn(d, records'[Listed(d)'].sightings)
          /\ AddsTo(c)' /\ Listed(c)' = Listed(d)' => OnceIn(d, session'[c].draft.sightings)
    BY <1>17, <2>3
  <2>5. \A d \in Command : c # d /\ AddsTo(c)' /\ IsIn(d, session'[c].draft.sightings) =>
           (Is(d, "done") \/ Is(d, "stopped"))'
    BY <1>17
  <2> QED  BY <1>2, <2>2, <2>4, <2>5, NextSighting
<1> QED  BY <1>15, <1>19, <1>20

\* The index that is written names the new record, and the others as before.
LEMMA WriteIndexBooks ==
  ASSUME BugInv, NEW c \in Command, WriteIndex(c), Does(c), Sound(c)  PROVE BooksInv'
<1> SUFFICES ASSUME ~ mixed', ~ damaged'  PROVE IndexInv' /\ SaverInv' /\ SightingInv'  BY DEF BooksInv
<1>1. session[c].step = "write index" /\ Is(c, "write index") /\ ~ Writing(c) /\ Files(c)
  BY DEF WriteIndex, Is, Writing, Files
<1>2. /\ IndexInv /\ SaverInv /\ SightingInv
      /\ Lone(c) /\ OneSaver(c)
      /\ \A b : InHand(b) <=> session[c].step = "write record" /\ session[c].bug = b
      /\ \A d \in Command : d # c => session'[d] = session[d] /\ ~ AddsTo(d) /\ ~ AddsTo(d)'
      /\ \A b : InHand(b)' <=> session'[c].step = "write record" /\ session'[c].bug = b
      /\ command' = command /\ ~ SaidFiled(session[c])
      /\ session[c] \in Sessions /\ session \in [Command -> Sessions]
  BY <1>1, SavingOn DEF LookSteps
<1> DEFINE b == session[c].bug
           draft == session[c].draft
           own == command[c].signature
           next == [index.signatures EXCEPT ![own] = b]
<1>3. /\ session'[c].step = "move" /\ session'[c].bug = b /\ ~ session'[c].new
      /\ session'[c].draft = draft
  BY <1>2 DEF WriteIndex, Sessions
<1>4. /\ Listed(c) = 0 /\ b = NextBug /\ b \in BugId
      /\ session[c].index = Counted([index EXCEPT !.whole = TRUE], c)
      /\ draft = [whole |-> TRUE, signature |-> own, sightings |-> <<c>>]
      /\ records[b] = draft
  BY <1>1, <1>2 DEF OneSaver
<1>5. /\ records' = records /\ index \in Indexes /\ own \in Signature
      /\ index' = Counted([index EXCEPT !.whole = TRUE], c)
  BY <1>4, SessionIs DEF WriteIndex, IsCommand
<1>6. index.sequence \in Nat /\ b = index.sequence + 1  BY <1>4, <1>5, NumberIs DEF NextBug
<1>7. index'.whole /\ index'.sequence = b /\ index'.signatures = next
  BY <1>5, <1>6 DEF Counted, Indexes
<1>8. /\ next[own] = b /\ index.signatures[own] = 0
      /\ \A s \in Signature : s # own => next[s] = index.signatures[s]
      /\ \A s \in Signature : index.signatures[s] \in {0} \cup BugId
  BY <1>4, <1>5 DEF Indexes, Listed
<1>9. \A d : ~ InHand(d) /\ ~ InHand(d)'  BY <1>1, <1>2, <1>3
<1>10. b # 0 /\ b \in Nat  BY <1>4, BugAssumption
<1> HIDE DEF b, draft, own, next
<1>11. ASSUME NEW s \in Signature, index.signatures[s] # 0
       PROVE  /\ index.signatures[s] <= index.sequence /\ index.signatures[s] # b /\ s # own
              /\ records[index.signatures[s]].whole /\ records[index.signatures[s]].signature = s
              /\ \A t \in Signature : index.signatures[t] = index.signatures[s] => s = t
  <2>1. /\ index.signatures[s] <= index.sequence
        /\ records[index.signatures[s]].whole /\ records[index.signatures[s]].signature = s
        /\ \A t \in Signature : index.signatures[t] = index.signatures[s] => s = t
    BY <1>2, <1>9, <1>11 DEF IndexInv
  <2>2. index.signatures[s] # b  BY <1>6, <2>1
  <2>3. s # own  BY <1>8, <1>11
  <2> QED  BY <2>1, <2>2, <2>3
<1>12. IndexInv'
  <2>1. ASSUME NEW s \in Signature, NEW n, n = next[s], n # 0
        PROVE  /\ n <= b
               /\ InHand(n)' \/ (records'[n].whole /\ records'[n].signature = s)
               /\ \A t \in Signature : next[t] = n => s = t
    <3>1. CASE s = own
      <4>1. n = b  BY <1>8, <2>1, <3>1
      <4>2. n <= b  BY <1>10, <4>1
      <4>3. records'[n].whole /\ records'[n].signature = s  BY <1>4, <1>5, <3>1, <4>1
      <4>4. ASSUME NEW t \in Signature, next[t] = n  PROVE s = t
        <5>1. CASE t # own
          <6>1. index.signatures[t] = b  BY <1>8, <4>1, <4>4, <5>1
          <6> QED  BY <1>10, <1>11, <6>1
        <5> QED  BY <3>1, <5>1
      <4> QED  BY <4>2, <4>3, <4>4
    <3>2. CASE s # own
      <4>1. n = index.signatures[s]  BY <1>8, <2>1, <3>2
      <4>2. /\ n <= index.sequence /\ n # b
            /\ records[n].whole /\ records[n].signature = s
            /\ \A t \in Signature : index.signatures[t] = n => s = t
        BY <1>11, <2>1, <4>1
      <4>3. n \in {0} \cup BugId  BY <1>8, <4>1
      <4>4. n <= b  BY <1>6, <4>2, <4>3, BugAssumption
      <4>5. ASSUME NEW t \in Signature, next[t] = n  PROVE s = t
        <5>1. t # own  BY <1>8, <4>2, <4>5
        <5>2. index.signatures[t] = n  BY <1>8, <4>5, <5>1
        <5> QED  BY <4>2, <5>2
      <4> QED  BY <1>5, <4>2, <4>4, <4>5
    <3> QED  BY <3>1, <3>2
  <2>2. ASSUME NEW d \in BugId, records'[d].whole
        PROVE  /\ records'[d].signature \in Signature
               /\ next[records'[d].signature] = d
    <3>1. /\ records[d].signature \in Signature
          /\ \/ index.signatures[records[d].signature] = d
             \/ index.signatures[records[d].signature] = 0 /\ d = NextBug
      BY <1>2, <1>5, <2>2 DEF IndexInv
    <3>2. CASE d = b
      <4>1. records[d].signature = own  BY <1>4, <3>2
      <4> QED  BY <1>5, <1>8, <3>1, <3>2, <4>1
    <3>3. CASE d # b
      <4>1. index.signatures[records[d].signature] = d  BY <1>4, <3>1, <3>3
      <4>2. d # 0  BY BugAssumption
      <4>3. records[d].signature # own  BY <1>8, <4>1, <4>2
      <4> QED  BY <1>5, <1>8, <3>1, <4>1, <4>3
    <3> QED  BY <3>2, <3>3
  <2> QED  BY <1>7, <2>1, <2>2, NextIndex
<1>13. Listed(c)' = b  BY <1>2, <1>7, <1>8 DEF Listed, own
<1>14. AddsTo(c)' /\ ~ Files(c)' /\ ~ Writing(c)' /\ ~ Is(c, "record")' /\ ~ Is(c, "create")'
  BY <1>3 DEF Files, Writing, AddsTo, Is
<1>15. OneSaver(c)'
  <2>1. OnceIn(c, draft.sightings)
    <3>1. draft.sightings = <<c>>  BY <1>4
    <3> QED  BY <3>1 DEF OnceIn
  <2>2. OnceIn(c, session[c].draft.sightings)' <=> OnceIn(c, session'[c].draft.sightings)  BY DEF OnceIn
  <2>3. draft.whole /\ draft.signature = own  BY <1>4
  <2>4. command'[c].signature = own  BY <1>2 DEF own
  <2> QED  BY <1>3, <1>10, <1>13, <1>14, <2>1, <2>2, <2>3, <2>4 DEF OneSaver
<1>16. SaverInv'  BY <1>2, <1>7, <1>15, SaverStays
<1>17. SightingInv'
  <2>1. ~ Filed(c) /\ ~ Filed(c)'
    <3>1. ~ SaidFiled(session'[c])  BY <1>3, NotFiledThen
    <3> QED  BY <1>2, <3>1 DEF Filed, SaidFiled
  <2>2. ASSUME NEW a \in BugId, NEW d \in Command, IsIn(d, records'[a].sightings)  PROVE Entered(d)'
    <3>1. Entered(d)  BY <1>2, <1>5, <2>2 DEF SightingInv, Entered
    <3>2. CASE d = c  BY <1>14, <3>2 DEF Entered
    <3>3. CASE d # c
      <4>1. session'[d] = session[d]  BY <1>2, <3>3
      <4> QED  BY <3>1, <4>1 DEF Entered, Is, AddsTo, Writing
    <3> QED  BY <3>2, <3>3
  <2>3. ASSUME NEW d \in Command, c # d, IsIn(d, session'[c].draft.sightings)
        PROVE  (Is(d, "done") \/ Is(d, "stopped"))'
    <3>1. draft.sightings = <<c>>  BY <1>4
    <3>2. ~ IsIn(d, draft.sightings)  BY <2>3, <3>1 DEF IsIn
    <3> QED  BY <1>3, <2>3, <3>2
  <2>4. ASSUME NEW d \in Command, Filed(d)'
        PROVE  /\ session'[d].bug = Listed(d)' /\ Listed(d)' # 0
               /\ OnceIn(d, records'[Listed(d)'].sightings)
               /\ Listed(d)' # Listed(c)'
    <3>1. d # c  BY <2>1, <2>4
    <3>2. session'[d] = session[d] /\ Filed(d)  BY <1>2, <2>4, <3>1 DEF Filed
    <3>3. /\ session[d].bug = Listed(d) /\ Listed(d) # 0
          /\ OnceIn(d, records[Listed(d)].sightings)
      BY <1>2, <1>9, <3>2 DEF SightingInv
    <3>4. command[d].signature \in Signature  BY SessionIs DEF IsCommand
    <3>5. command[d].signature # own /\ Listed(d) # b  BY <1>11, <3>3, <3>4 DEF Listed
    <3>6. Listed(d)' = Listed(d)  BY <1>2, <1>7, <1>8, <3>4, <3>5 DEF Listed
    <3> QED  BY <1>5, <1>13, <3>2, <3>3, <3>5, <3>6
  <2>5. \A d \in Command : Filed(d)' =>
          /\ session'[d].bug = Listed(d)' /\ Listed(d)' # 0
          /\ InHand(Listed(d))' \/ OnceIn(d, records'[Listed(d)'].sightings)
          /\ AddsTo(c)' /\ Listed(c)' = Listed(d)' => OnceIn(d, session'[c].draft.sightings)
    BY <2>4
  <2> QED  BY <1>2, <2>2, <2>3, <2>5, NextSighting
<1> QED  BY <1>12, <1>16, <1>17

-----------------------------------------------------------------------------
(* Every step keeps BugInv, and what it says of the bugs filed.            *)

LEMMA BeginBooks ==
  ASSUME BugInv, NEW c \in Command, Begin(c), Does(c), Sound(c)  PROVE BooksInv'
<1>1. session[c] \in Sessions /\ session \in [Command -> Sessions] /\ session[c].step = "start"
  BY SessionIs DEF Begin, Is
<1>2. /\ session'[c].step = IF command[c].skipped THEN "done" ELSE "look"
      /\ session'[c].outcome = IF command[c].skipped THEN "skipped" ELSE None
  BY <1>1 DEF Begin, Sessions
<1>3. ~ SaidFiled(session'[c])  BY <1>2, BugAssumption DEF SaidFiled
<1>4. session'[c].step \in {"done", "look"}  BY <1>2
<1>5. command' = command /\ records' = records /\ index' = index  BY DEF Begin, Does
<1> QED  BY <1>1, <1>3, <1>4, <1>5, AsideBooks DEF LookSteps

LEMMA LookBooks ==
  ASSUME BugInv, NEW c \in Command, Look(c), Does(c), Sound(c)  PROVE BooksInv'
<1>1. session[c] \in Sessions /\ session \in [Command -> Sessions] /\ session[c].step = "look"
  BY SessionIs DEF Look, Is
<1>2. /\ session'[c].step \in {"done", "look", "find", "discard"}
      /\ session'[c].outcome \in {"no-issue-detected", session[c].outcome}
  <2>1. PICK b \in BOOLEAN :
        LET seen == Append(session[c].seen, b) IN
        session' = [session EXCEPT
             ![c].seen = seen,
             ![c].outcome = IF Looks(c)[Len(seen)] = 0 /\ ~ b THEN "no-issue-detected" ELSE @,
             ![c].step = IF Looks(c)[Len(seen)] = 0 /\ ~ b THEN "done"
                         ELSE IF Len(seen) < Cardinality(Runs(c)) THEN "look"
                         ELSE IF AllConfirmed(c, seen) THEN "find"
                         ELSE "discard"]
    BY DEF Look
  <2> DEFINE seen == Append(session[c].seen, b)
             outcome == IF Looks(c)[Len(seen)] = 0 /\ ~ b THEN "no-issue-detected" ELSE session[c].outcome
             to == IF Looks(c)[Len(seen)] = 0 /\ ~ b THEN "done"
                   ELSE IF Len(seen) < Cardinality(Runs(c)) THEN "look"
                   ELSE IF AllConfirmed(c, seen) THEN "find"
                   ELSE "discard"
  <2>2. session' = [session EXCEPT ![c] = [session[c] EXCEPT !.seen = seen, !.outcome = outcome, !.step = to]]
    BY <1>1, <2>1
  <2>3. to \in {"done", "look", "find", "discard"} /\ outcome \in {"no-issue-detected", session[c].outcome}
    OBVIOUS
  <2> HIDE DEF seen, outcome, to
  <2>4. session'[c].step = to /\ session'[c].outcome = outcome  BY <1>1, <2>2 DEF Sessions
  <2> QED  BY <2>3, <2>4
<1>3. ~ SaidFiled(session'[c])
  <2>1. ~ SaidFiled(session[c])  BY <1>1, NotFiledYet
  <2> QED  BY <1>2, <2>1 DEF SaidFiled
<1>4. command' = command /\ records' = records /\ index' = index  BY DEF Look, Does
<1> QED  BY <1>1, <1>2, <1>3, <1>4, AsideBooks DEF LookSteps

LEMMA DiscardBooks ==
  ASSUME BugInv, NEW c \in Command, Discard(c), Does(c), Sound(c)  PROVE BooksInv'
<1> DEFINE run == PendingDirs(c)[session[c].moved + 1]
<1>1. session[c] \in Sessions /\ session \in [Command -> Sessions] /\ session[c].step = "discard"
  BY SessionIs DEF Discard, Is
<1>2. /\ session'[c].step \in {"stopped", "done", "discard"}
      /\ session'[c].outcome \in {"unconfirmed", session[c].outcome}
  <2>1. CASE Owner(Folder(c, run)) = {}
    <3>1. session' = [session EXCEPT ![c].step = "stopped"]  BY <2>1 DEF Discard
    <3> QED  BY <1>1, <3>1 DEF Sessions
  <2>2. CASE Owner(Folder(c, run)) # {}
    <3> DEFINE last == session[c].moved + 1 = Len(PendingDirs(c))
               outcome == IF last THEN "unconfirmed" ELSE session[c].outcome
               to == IF last THEN "done" ELSE session[c].step
    <3>1. session' = [session EXCEPT ![c] =
                        [session[c] EXCEPT !.moved = session[c].moved + 1, !.outcome = outcome, !.step = to]]
      BY <1>1, <2>2 DEF Discard
    <3>2. outcome \in {session[c].outcome, "unconfirmed"} /\ to \in {"done", "discard"}  BY <1>1
    <3> HIDE DEF outcome, to
    <3>3. session'[c].step = to /\ session'[c].outcome = outcome  BY <1>1, <3>1 DEF Sessions
    <3> QED  BY <3>2, <3>3
  <2> QED  BY <2>1, <2>2
<1>3. ~ SaidFiled(session'[c])
  <2>1. ~ SaidFiled(session[c])  BY <1>1, NotFiledYet
  <2> QED  BY <1>2, <2>1 DEF SaidFiled
<1>4. command' = command /\ records' = records /\ index' = index  BY DEF Discard, Does
<1> QED  BY <1>1, <1>2, <1>3, <1>4, AsideBooks DEF LookSteps

LEMMA IsStoppedBooks ==
  ASSUME BugInv, NEW c \in Command, IsStopped(c), Sound(c)  PROVE BooksInv'
<1>1. session[c] \in Sessions /\ session \in [Command -> Sessions] /\ session[c].step \notin Away
  BY SessionIs DEF IsStopped
<1>2. session'[c].step = "stopped"  BY <1>1 DEF IsStopped, Sessions
<1>3. ~ SaidFiled(session'[c])  BY <1>2, NotFiledThen
<1>4. command' = command /\ records' = records /\ index' = index  BY DEF IsStopped
<1>5. ~ damaged' => session[c].step \notin {"write record", "write index"}  BY DEF IsStopped
<1> QED  BY <1>1, <1>2, <1>3, <1>4, <1>5, AsideBooks DEF LookSteps, Away

LEMMA BugStays ==
  ASSUME BugInv, UNCHANGED bugVars  PROVE BugInv'
<1> USE DEF bugVars
<1>1. \A c : /\ Runs(c)' = Runs(c) /\ Looks(c)' = Looks(c) /\ (Manual(c)' <=> Manual(c))
             /\ (\A run : Folder(c, run)' = Folder(c, run)) /\ \A n : Mine(c, n)' = Mine(c, n)
  BY SameCommand
<1>2. BugTypeOK'
  <2>1. \A c \in Command :
          {[folder |-> Folder(c, run), by |-> c] : run \in Runs(c)}'
            = {[folder |-> Folder(c, run), by |-> c] : run \in Runs(c)}
    BY <1>1
  <2>2. Waiting' = Waiting  BY <2>1 DEF Waiting
  <2>3. pending' \subseteq Waiting'  BY <2>2 DEF BugInv, BugTypeOK, Waiting
  <2> QED  BY <2>3 DEF BugInv, BugTypeOK, Waiting
<1>3. LookInv'
  <2>1. \A c : Confirmed(c)' <=> Confirmed(c)  BY <1>1 DEF Confirmed
  <2>2. \A c : /\ (\A s : Is(c, s)' <=> Is(c, s)) /\ (Files(c)' <=> Files(c)) /\ (Filed(c)' <=> Filed(c))
    BY DEF Is, Files, Writing, Filed
  <2>3. Saving' = Saving  BY DEF Saving
  <2>4. LookInv  BY DEF BugInv
  <2>5. \A c, i : /\ Confirmed(session[c].draft.sightings[i])' <=> Confirmed(session[c].draft.sightings[i])
                  /\ Confirmed(records[c].sightings[i])' <=> Confirmed(records[c].sightings[i])
    BY <2>1
  <2>6. ASSUME NEW c \in Command
        PROVE  /\ (Is(c, "absent") \/ Is(c, "start"))' => session'[c].seen = <<>>
               /\ Is(c, "look")' => Len(session'[c].seen) < Cardinality(Runs(c)')
               /\ Is(c, "discard")' => Len(session'[c].seen) = Cardinality(Runs(c)')
               /\ (Is(c, "find") \/ c \in Saving \/ Filed(c))' => Confirmed(c)'
               /\ Filed(c)' => Is(c, "done")'
               /\ Is(c, "record")' => session'[c].bug # 0
               /\ session'[c].new => (Files(c) \/ Is(c, "stopped"))'
               /\ \A i \in DOMAIN session'[c].draft.sightings : Confirmed(session[c].draft.sightings[i])'
    <3>1. session'[c] = session[c]  OBVIOUS
    <3> QED  BY <1>1, <2>1, <2>2, <2>3, <2>4, <2>5, <3>1 DEF LookInv
  <2>7. ASSUME NEW b \in BugId, NEW i \in DOMAIN records'[b].sightings
        PROVE  Confirmed(records[b].sightings[i])'
    BY <2>4, <2>5 DEF LookInv
  <2> QED  BY <2>6, <2>7 DEF LookInv
<1>4. BooksInv'
  <2>1. IndexInv => IndexInv'  BY DEF IndexInv, InHand, NextBug, Is
  <2>4. \A c : /\ (\A s : Is(c, s)' <=> Is(c, s)) /\ (Files(c)' <=> Files(c)) /\ (Filed(c)' <=> Filed(c))
               /\ (AddsTo(c)' <=> AddsTo(c)) /\ (Writing(c)' <=> Writing(c)) /\ Listed(c)' = Listed(c)
               /\ (InHand(c)' <=> InHand(c))
    BY DEF Is, Files, Writing, Filed, AddsTo, Listed, InHand
  <2>5. /\ \A d, b : IsIn(d, records[b].sightings)' <=> IsIn(d, records[b].sightings)
        /\ \A d, a : IsIn(d, session[a].draft.sightings)' <=> IsIn(d, session[a].draft.sightings)
        /\ \A d, a : OnceIn(d, session[a].draft.sightings)' <=> OnceIn(d, session[a].draft.sightings)
        /\ \A d : OnceIn(d, records[Listed(d)].sightings)' <=> OnceIn(d, records[Listed(d)].sightings)
    <3>1. /\ \A d, b : IsIn(d, records[b].sightings)' <=> IsIn(d, records'[b].sightings)
          /\ \A d, a : IsIn(d, session[a].draft.sightings)' <=> IsIn(d, session'[a].draft.sightings)
          /\ \A d, a : OnceIn(d, session[a].draft.sightings)' <=> OnceIn(d, session'[a].draft.sightings)
          /\ \A d : OnceIn(d, records[Listed(d)].sightings)' <=> OnceIn(d, records'[Listed(d)'].sightings)
      BY DEF IsIn, OnceIn
    <3> QED  BY <2>4, <3>1
  <2>2. ASSUME SaverInv  PROVE SaverInv'
    <3>1. Saving' = Saving /\ NextBug' = NextBug  BY DEF Saving, NextBug
    <3>2. \A d \in Command : OneSaver(d)  BY <2>2 DEF SaverInv, OneSaver
    <3>3. ASSUME NEW d \in Command  PROVE OneSaver(d)'
      <4>1. Counted([index EXCEPT !.whole = TRUE], d)' = Counted([index EXCEPT !.whole = TRUE], d)  BY DEF Counted
      <4> QED  BY <2>4, <2>5, <3>1, <3>2, <4>1 DEF OneSaver
    <3>4. (\A c, d \in Saving : c = d)'  BY <2>2, <3>1 DEF SaverInv
    <3>5. (~ index.whole => \E c \in Command : Is(c, "write index"))'  BY <2>2, <2>4 DEF SaverInv
    <3> QED  BY <3>3, <3>4, <3>5 DEF SaverInv, OneSaver
  <2>3. ASSUME SightingInv  PROVE SightingInv'
    <3>1. (\A b \in BugId, c \in Command : IsIn(c, records[b].sightings) =>
             Is(c, "done") \/ Is(c, "stopped") \/ Is(c, "cut index") \/ Is(c, "write index") \/ AddsTo(c))'
      BY <2>3, <2>4, <2>5 DEF SightingInv
    <3>2. (\A c, d \in Command : AddsTo(c) /\ c # d /\ IsIn(d, session[c].draft.sightings) =>
             Is(d, "done") \/ Is(d, "stopped"))'
      BY <2>3, <2>4, <2>5 DEF SightingInv
    <3>3. ASSUME NEW c \in Command, Filed(c)'
          PROVE  (/\ session[c].bug = Listed(c) /\ Listed(c) # 0
                  /\ InHand(Listed(c)) \/ OnceIn(c, records[Listed(c)].sightings)
                  /\ \A d \in Command : AddsTo(d) /\ Listed(d) = Listed(c) => OnceIn(c, session[d].draft.sightings))'
      <4>1. /\ session[c].bug = Listed(c) /\ Listed(c) # 0
            /\ InHand(Listed(c)) \/ OnceIn(c, records[Listed(c)].sightings)
            /\ \A d \in Command : AddsTo(d) /\ Listed(d) = Listed(c) => OnceIn(c, session[d].draft.sightings)
        BY <2>3, <2>4, <3>3 DEF SightingInv
      <4>2. InHand(Listed(c))' <=> InHand(Listed(c))
        <5>1. InHand(Listed(c))' <=> \E d \in Command : Is(d, "write record")' /\ session'[d].bug = Listed(c)'
          BY DEF InHand
        <5> QED  BY <2>4, <5>1 DEF InHand
      <4> QED  BY <2>4, <2>5, <4>1, <4>2
    <3> QED  BY <3>1, <3>2, <3>3 DEF SightingInv
  <2> QED  BY <2>1, <2>2, <2>3 DEF BugInv, BooksInv
<1>5. EvidenceInv'
  <2>1. Pairs'  BY <1>1, EachEvidence DEF BugInv, Pairs
  <2>2. \A c \in Command : Evidence(c, session'[c], pending', kept', together')
    BY EachEvidence DEF BugInv
  <2> QED  BY <2>1, <2>2, NextEvidence
<1> QED  BY <1>2, <1>3, <1>4, <1>5 DEF BugInv

\* Every step of a command keeps BugInv.
LEMMA BugKeeps ==
  ASSUME BugInv, BugNext \/ UNCHANGED bugVars  PROVE BugInv'
<1>1. ASSUME NEW c \in Command, Does(c), Sound(c), BooksInv'  PROVE BugInv'
  BY <1>1 DEF Sound, BugInv
<1>2. ASSUME NEW c \in Command, Does(c)  PROVE BugInv'
  <2>0. UNCHANGED <<command, stops>>  BY <1>2 DEF Does
  <2>1. CASE Begin(c)  BY <1>1, <1>2, <2>0, <2>1, BeginSound, BeginBooks
  <2>2. ASSUME Look(c), UNCHANGED together  PROVE BugInv'  BY <1>1, <1>2, <2>0, <2>2, LookSound, LookBooks
  <2>3. ASSUME Discard(c), UNCHANGED together  PROVE BugInv'  BY <1>1, <1>2, <2>0, <2>3, DiscardSound, DiscardBooks
  <2>4. ASSUME Find(c), UNCHANGED together  PROVE BugInv'  BY <1>1, <1>2, <2>0, <2>4, FindSound, FindBooks
  <2>5. ASSUME ReadRecord(c), UNCHANGED together  PROVE BugInv'
    BY <1>1, <1>2, <2>0, <2>5, ReadRecordSound, ReadRecordBooks
  <2>6. ASSUME Create(c), UNCHANGED together  PROVE BugInv'  BY <1>1, <1>2, <2>0, <2>6, CreateSound, CreateBooks
  <2>7. ASSUME CutRecord(c), UNCHANGED together  PROVE BugInv'
    BY <1>1, <1>2, <2>0, <2>7, CutRecordSound, CutRecordBooks
  <2>8. ASSUME WriteRecord(c), UNCHANGED together  PROVE BugInv'
    BY <1>1, <1>2, <2>0, <2>8, WriteRecordSound, WriteRecordBooks
  <2>9. ASSUME CutIndex(c), UNCHANGED together  PROVE BugInv'
    BY <1>1, <1>2, <2>0, <2>9, CutIndexSound, CutIndexBooks
  <2>10. ASSUME WriteIndex(c), UNCHANGED together  PROVE BugInv'
    BY <1>1, <1>2, <2>0, <2>10, WriteIndexSound, WriteIndexBooks
  <2>11. ASSUME Move(c), UNCHANGED together  PROVE BugInv'  BY <1>1, <1>2, <2>0, <2>11, MoveSound, MoveBooks
  <2> QED  BY <1>2, <2>1, <2>2, <2>3, <2>4, <2>5, <2>6, <2>7, <2>8, <2>9, <2>10, <2>11 DEF Does
<1>3. ASSUME NEW c \in Command, IsStopped(c)  PROVE BugInv'
  <2>1. Sound(c)  BY <1>3, IsStoppedSound
  <2>2. BooksInv'  BY <1>3, <2>1, IsStoppedBooks
  <2> QED  BY <2>1, <2>2 DEF Sound, BugInv
<1>4. CASE UNCHANGED bugVars  BY <1>4, BugStays
<1> QED  BY <1>2, <1>3, <1>4 DEF BugNext

\* BugInv holds when the commands are those that can be given.
LEMMA BugStarts ==
  ASSUME \A c \in Command : IsCommand(command[c]), BugInit  PROVE BugInv
<1> DEFINE to(c) == IF command[c].kind = "none" THEN "absent" ELSE "start"
<1>1. NoIndex \in Indexes /\ NoRecord \in BugRecords  BY DEF NoIndex, Indexes, NoRecord, BugRecords
<1>2. \A c \in Command :
        /\ session[c] = [NewSession EXCEPT !.step = to(c)]
        /\ to(c) \in {"absent", "start"}
  BY DEF BugInit
<1> HIDE DEF to
<1>3. \A c \in Command :
        /\ session[c].step = to(c) /\ session[c].seen = <<>> /\ session[c].moved = 0
        /\ session[c].outcome = None /\ ~ session[c].new /\ session[c].draft = NoRecord
  BY <1>2 DEF NewSession
<1>4. session \in [Command -> Sessions]
  <2>1. NewSession \in Sessions
    <3>1. <<>> \in Seq(BOOLEAN)  OBVIOUS
    <3> HIDE DEF to
    <3> QED  BY <1>1, <3>1 DEF NewSession, Sessions
  <2>2. \A c \in Command : [NewSession EXCEPT !.step = to(c)] \in Sessions  BY <1>2, <2>1 DEF Sessions
  <2>3. session = [c \in Command |-> [NewSession EXCEPT !.step = to(c)]]  BY DEF BugInit, to
  <2> QED  BY <2>2, <2>3
<1>5. /\ index = NoIndex /\ records = [b \in BugId |-> NoRecord] /\ pending = {} /\ stops = 0
      /\ mixed = FALSE /\ damaged = FALSE /\ together = {}
  BY DEF BugInit
<1>6. BugTypeOK
  <2>1. stops \in 0..MaxStops  BY <1>5, BugAssumption
  <2>2. records \in [BugId -> BugRecords]  BY <1>1, <1>5
  <2>3. index \in Indexes  BY <1>1, <1>5
  <2> QED  BY <1>4, <1>5, <2>1, <2>2, <2>3 DEF BugTypeOK
<1>7. \A c \in Command : c \notin Saving /\ ~ Filed(c) /\ session[c].step \in Away
  BY <1>2, <1>3, BugAssumption DEF Saving, Filed, Away
<1>8. \A c \in Command : /\ ~ Is(c, "look") /\ ~ Is(c, "find") /\ ~ Is(c, "discard") /\ ~ Is(c, "record")
                         /\ ~ Is(c, "create") /\ ~ Files(c) /\ ~ AddsTo(c) /\ ~ Is(c, "move")
                         /\ ~ Is(c, "write record")
  BY <1>2, <1>3 DEF Is, Files, AddsTo, Writing
<1>9. DOMAIN NoRecord.sightings = {} /\ NoRecord.whole = FALSE  BY DEF NoRecord
<1>10. LookInv  BY <1>3, <1>5, <1>7, <1>8, <1>9 DEF LookInv
<1>11. BooksInv
  <2>1. \A s \in Signature : index.signatures[s] = 0  BY <1>5 DEF NoIndex
  <2>2. \A b \in BugId : ~ records[b].whole /\ DOMAIN records[b].sightings = {}  BY <1>5, <1>9
  <2>3. IndexInv  BY <2>1, <2>2 DEF IndexInv
  <2>4. index.whole  BY <1>5 DEF NoIndex
  <2>5. Saving = {}  BY <1>7 DEF Saving
  <2>6. SaverInv  BY <1>8, <2>4, <2>5 DEF SaverInv
  <2>7. SightingInv  BY <1>7, <1>8, <2>2 DEF SightingInv, IsIn
  <2> QED  BY <2>3, <2>6, <2>7 DEF BooksInv
<1>12. EvidenceInv
  <2>1. \A c \in Command : ~ Going(c)  BY <1>7 DEF Going
  <2> QED  BY <1>3, <1>5, <1>7, <1>8, <2>1 DEF EvidenceInv
<1> QED  BY <1>6, <1>10, <1>11, <1>12 DEF BugInv

-----------------------------------------------------------------------------
\* A record holds only sightings that every look confirmed.
LEMMA WhenConfirmed ==
  ASSUME BugInv  PROVE FiledWhenConfirmed
BY DEF BugInv, LookInv, Confirmed, FiledWhenConfirmed

\* One record for each signature, and each sighting in it once.
LEMMA InTurnOnce ==
  ASSUME BugInv  PROVE FiledOnceInTurn
<1> SUFFICES ASSUME ~ mixed, ~ damaged
             PROVE  /\ \A b, d \in BugId :
                         (records[b].whole /\ records[d].whole /\ records[b].signature = records[d].signature) => b = d
                    /\ \A c \in Command : (Filed(c) /\ Saving = {}) =>
                         /\ records[session[c].bug].whole
                         /\ records[session[c].bug].signature = command[c].signature
                         /\ Cardinality({i \in DOMAIN records[session[c].bug].sightings :
                              records[session[c].bug].sightings[i] = c}) = 1
  BY DEF FiledOnceInTurn
<1>1. IndexInv /\ SightingInv  BY DEF BugInv, BooksInv
<1>2. ASSUME NEW b \in BugId, NEW d \in BugId, records[b].whole, records[d].whole,
             records[b].signature = records[d].signature
      PROVE  b = d
  <2>1. \/ index.signatures[records[b].signature] = b
        \/ index.signatures[records[b].signature] = 0 /\ b = NextBug
    BY <1>1, <1>2 DEF IndexInv
  <2>2. \/ index.signatures[records[d].signature] = d
        \/ index.signatures[records[d].signature] = 0 /\ d = NextBug
    BY <1>1, <1>2 DEF IndexInv
  <2>3. b # 0 /\ d # 0  BY BugAssumption
  <2> QED  BY <1>2, <2>1, <2>2, <2>3
<1>3. ASSUME NEW c \in Command, Filed(c), Saving = {}
      PROVE  /\ records[session[c].bug].whole
             /\ records[session[c].bug].signature = command[c].signature
             /\ Cardinality({i \in DOMAIN records[session[c].bug].sightings :
                  records[session[c].bug].sightings[i] = c}) = 1
  <2> DEFINE b == session[c].bug
             s == records[b].sightings
  <2>1. \A a : ~ InHand(a)
    <3>1. \A d \in Command : session[d].step \in LookSteps  BY <1>3, SavingIs
    <3> QED  BY <3>1, IdleIs DEF InHand
  <2>2. b = Listed(c) /\ b # 0 /\ OnceIn(c, s)  BY <1>1, <1>3, <2>1 DEF SightingInv
  <2>3. command[c].signature \in Signature  BY SessionIs DEF IsCommand
  <2>4. index.signatures[command[c].signature] = b  BY <2>2 DEF Listed
  <2>5. records[b].whole /\ records[b].signature = command[c].signature
    BY <1>1, <2>1, <2>2, <2>3, <2>4 DEF IndexInv
  <2> HIDE DEF s
  <2>6. PICK i \in DOMAIN s : \A j \in DOMAIN s : s[j] = c <=> j = i  BY <2>2 DEF OnceIn
  <2>7. {j \in DOMAIN s : s[j] = c} = {i}  BY <2>6
  <2>8. Cardinality({j \in DOMAIN s : s[j] = c}) = 1  BY <2>7, FS_Singleton
  <2> QED  BY <2>5, <2>8 DEF s
<1> QED  BY <1>2, <1>3

\* The evidence of a filed sighting is under its bug.
LEMMA EvidenceIsThere ==
  ASSUME BugInv  PROVE EvidenceIsKept
<1> SUFFICES ASSUME NEW c \in Command, c \notin together, Filed(c)
             PROVE  /\ \A run \in Runs(c) : <<session[c].bug, c, run, c>> \in kept
                    /\ \A p \in pending : p.by # c
  BY DEF EvidenceIsKept
<1> DEFINE N == Len(session[c].seen)
<1>1. session[c].moved = N
  BY DEF BugInv, EvidenceInv
<1>2. Confirmed(c)  BY DEF BugInv, LookInv
<1>3. N = Cardinality(Runs(c))  BY <1>2 DEF Confirmed
<1>4. N \in Nat /\ \A run \in Runs(c) : \E i \in 1..N : Looks(c)[i] = run
  BY <1>3, SessionIs, LooksAre
<1>5. /\ \A n \in 1..session[c].moved : <<session[c].bug, c, Looks(c)[n], c>> \in kept
      /\ \A p \in pending : p.by = c =>
           \E n \in (session[c].moved + 1)..N : p = Mine(c, n)
  BY DEF BugInv, EvidenceInv
<1> HIDE DEF N
<1>6. (N + 1)..N = {}  BY <1>4
<1> QED  BY <1>1, <1>4, <1>5, <1>6

-----------------------------------------------------------------------------
(* The agents together.                                                    *)

LEMMA AgentsStart ==
  ASSUME Init  PROVE AgentInv /\ ProductionIsStrictest
<1>1. PICK scene \in Scenes :
        failure = scene.failure /\ ofProcess = scene.ofProcess /\ command = scene.command
  BY DEF Init
<1>2. /\ \A w \in Incident : IsFailure(failure[w])
      /\ ofProcess \in Environment \cup {"none"}
      /\ \A c \in Command : IsCommand(command[c])
  BY <1>1, AgentsAssumption
<1>3. IncidentInv  BY <1>2, IncidentStarts DEF Init
<1>4. BugInv  BY <1>2, BugStarts DEF Init
<1>5. ProductionIsStrictest  BY DEF Init, ProductionIsStrictest
<1> QED  BY <1>3, <1>4, <1>5 DEF AgentInv

LEMMA AgentsKeep ==
  ASSUME AgentInv, [Next]_vars  PROVE AgentInv'
<1>1. IncidentNext \/ UNCHANGED incidentVars  BY DEF Next, Ask, vars, incidentVars
<1>2. BugNext \/ UNCHANGED bugVars  BY DEF Next, Ask, vars, bugVars
<1>3. IncidentInv'  BY <1>1, IncidentKeeps DEF AgentInv
<1>4. BugInv'  BY <1>2, BugKeeps DEF AgentInv
<1> QED  BY <1>3, <1>4 DEF AgentInv

LEMMA PolicyKeeps ==
  ASSUME ProductionIsStrictest, [Next]_vars  PROVE ProductionIsStrictest'
<1>1. CASE Ask  BY <1>1, AskKeeps
<1>2. CASE UNCHANGED asked  BY <1>2 DEF ProductionIsStrictest
<1> QED  BY <1>1, <1>2 DEF Next, vars

\* Every step keeps what is known of the incidents and of the bugs: the types, where
\* each job and session is, the memory, the reports, the books and the evidence.
THEOREM AgentsInductive == Spec => []AgentInv
<1>1. Init => AgentInv  BY AgentsStart
<1>2. AgentInv /\ [Next]_vars => AgentInv'  BY AgentsKeep
<1> QED  BY <1>1, <1>2, PTL DEF Spec

\* The agents act within their bounds (IncidentRouter, PolicyEngine,
\* RecoveryPlanner): hands off what may not be touched, strategies in turn up to
\* the first success, success that was seen, patches for review only.
THEOREM InBounds == Spec => []StaysInBounds
<1>1. Init => ProductionIsStrictest  BY AgentsStart
<1>2. ProductionIsStrictest /\ [Next]_vars => ProductionIsStrictest'  BY PolicyKeeps
<1>3. AgentInv /\ ProductionIsStrictest => StaysInBounds
  BY HandsAreOff, FirstIsLast, WasSeen, ForReview DEF AgentInv, StaysInBounds
<1> QED  BY <1>1, <1>2, <1>3, AgentsInductive, PTL DEF Spec

\* What is remembered stays and has worked (IncidentMemoryStore); a bug is filed
\* when every look confirmed it, once for its signature and with its evidence
\* (BugReportingAgent, LocalBugStoreAdapter).
THEOREM RecordsKept == Spec => []RecordsAreKept
<1>1. AgentInv => RecordsAreKept
  <2> SUFFICES ASSUME IncidentInv, BugInv  PROVE RecordsAreKept  BY DEF AgentInv
  <2>1. MemoryServes  BY InTurn, WorkedBefore DEF MemoryServes
  <2>2. BugsAreFiled  BY WhenConfirmed, InTurnOnce, EvidenceIsThere DEF BugsAreFiled
  <2> QED  BY <2>1, <2>2 DEF RecordsAreKept
<1> QED  BY <1>1, AgentsInductive, PTL
=============================================================================
