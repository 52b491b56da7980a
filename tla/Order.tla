-------------------------------- MODULE Order -------------------------------
(***************************************************************************)
(* Names as the code compares and reads them.  ARNs, account ids, finding  *)
(* ids, scan ids and types are strings; Rank is their position in the      *)
(* order of Go's "<".  An account is its own node id: the code puts        *)
(* "account:" before it, and "finding:" before a finding, which keeps them *)
(* apart from every ARN.                                                   *)
(***************************************************************************)
EXTENDS Naturals, Sequences, FiniteSets, SequencesExt, FiniteSetsExt

CONSTANTS
  Rank,         \* the position of every string
  Accounts,     \* the account ids
  FindingIds,   \* the ids of findings
  ArnAccount,   \* the account written in each ARN of IAM
  RootAccount   \* the account of each ARN that is the root of an account

ASSUME OrderIsTotal ==
  /\ \A x \in DOMAIN Rank : Rank[x] \in Nat
  /\ \A x, y \in DOMAIN Rank : Rank[x] = Rank[y] => x = y

None == ""
\* The first function, and the second where the first has no value.
Over(f, g) == [x \in DOMAIN f \cup DOMAIN g |-> IF x \in DOMAIN f THEN f[x] ELSE g[x]]

If(cond, n) == IF cond THEN n ELSE 0
\* The sum of the values of a function.
Total(v) == MapThenSumSet(LAMBDA x : v[x], DOMAIN v)
FirstN(seq, n) == SubSeq(seq, 1, IF Len(seq) < n THEN Len(seq) ELSE n)
Each(seq, op(_)) == [i \in DOMAIN seq |-> op(seq[i])]

\* The members of S, each behind all those that come before it.
Lined(S, before) ==
  LET placed == {<<Cardinality({y \in S : <<y, x>> \in before}) + 1, x>> : x \in S}
      at(i) == CHOOSE p \in placed : p[1] = i
  IN  [i \in 1..Cardinality(S) |-> at(i)[2]]

\* The members of S in a strict total order.
InOrder(S, less(_, _)) == Lined(S, {p \in S \X S : less(p[1], p[2])})

\* Those of the sequence that are in S.
Kept(seq, S) ==
  Each(InOrder({i \in DOMAIN seq : seq[i] \in S}, LAMBDA i, j : i < j), LAMBDA i : seq[i])

\* The members of S in the order of a string each of them has.
Sorted(S, key(_)) == InOrder(S, LAMBDA a, b : Rank[key(a)] < Rank[key(b)])

\* The rows of a file by a key; rows of one key stay in the order of the file,
\* which "nth" counts (Go sorts slices of up to twelve rows that way).
SortedRows(S, key(_)) ==
  InOrder(S, LAMBDA a, b : \/ Rank[key(a)] < Rank[key(b)]
                           \/ key(a) = key(b) /\ a.nth < b.nth)

\* The first n of S, the highest score first and then in the order of strings.
TopBy(S, score(_), n) ==
  LET best == InOrder({<<score(x), x>> : x \in S}, LAMBDA p, q :
                p[1] > q[1] \/ (p[1] = q[1] /\ Rank[p[2]] < Rank[q[2]]))
  IN  FirstN(Each(best, LAMBDA p : p[2]), n)
=============================================================================
