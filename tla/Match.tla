--------------------------------- MODULE Match ---------------------------------
(***************************************************************************)
(* How internal/resolve turns one `match` over an enum into Go: the        *)
(* analysis of its arms, Maranget's usefulness for reachability and        *)
(* exhaustiveness, the choice between a type switch and a chain of         *)
(* assertions, and what the Go that comes out does with a value.           *)
(*                                                                         *)
(* A column is an enum at an instantiation, or Opaque. Which constructors  *)
(* can build a value of a column is given (unification of type arguments   *)
(* and index terms is not modelled), and so are the arms to choose from.   *)
(* Names are resolved without qualifiers, and no enum is boxed.            *)
(*                                                                         *)
(* A pattern is a record: a constructor with the patterns of its fields,   *)
(* `_`, or the name of a binder.                                           *)
(***************************************************************************)
EXTENDS Naturals, Sequences

CONSTANTS Signature,   \* [column -> its constructors: sequence of [con, fields, possible]]
          Root,        \* the column of the scrutinee
          Opaque,      \* the column of what is not an enum
          RawArms,     \* the arms a match may have
          MaxArms,     \* bound: how many it has
          Budget,      \* usefulnessBudget, which is 100000
          Depth        \* how far the patterns of RawArms look into a value

Columns == DOMAIN Signature \cup {Opaque}
Constructors == UNION {{Signature[col][i].con : i \in DOMAIN Signature[col]} : col \in DOMAIN Signature}

\* Terms of which d levels may be constructors.
Terms[d \in Nat] ==
  IF d = 0 THEN [con : STRING \ Constructors, args : {<<>>}]
  ELSE [con : STRING, args : Seq(Terms[d - 1])]

\* A witness may look one level further than the arms do.
Patterns == Terms[Depth + 1]

Arms == [pats : Seq(Terms[Depth]), guard : BOOLEAN, impossible : BOOLEAN, bind : BOOLEAN, ends : BOOLEAN]

Wild == [con |-> "_", args |-> <<>>]

\* A column's constructors have names of their own.
ASSUME MatchAssumption ==
  /\ Root \in DOMAIN Signature /\ Opaque \notin DOMAIN Signature
  /\ \A col \in DOMAIN Signature :
       /\ Signature[col] \in Seq([con : STRING, fields : Seq(Columns), possible : BOOLEAN])
       /\ \A i, j \in DOMAIN Signature[col] : Signature[col][i].con = Signature[col][j].con => i = j
  /\ {"_", "any", "nil"} \subseteq STRING \ Constructors
  /\ \A raw \in RawArms :
       /\ raw \in Arms /\ raw.pats # <<>>
       /\ raw.pats[1] = Wild => Len(raw.pats) = 1      \* parseMatchCase sees to that
  /\ MaxArms \in Nat /\ Budget \in Nat /\ Depth \in Nat \ {0}

VARIABLES
  phase,      \* "arms", "rows", "emit", "rejected", or of the emitted Go: "ready", "running", "over"
  follows,    \* another statement follows the match in its block
  clauses,    \* the arms of the source, as far as they have been looked at
  arms,       \* armAnalysis of those that are kept
  errors,     \* what has been reported
  rows,       \* the matrix: a set, since neither their order nor a repetition matters
  at,         \* the arm and which of its alternatives is looked at
  steps,      \* usefulCtx.steps, Budget + 1 for more than that
  lowering,   \* "none", "switch" or "chain"
  panics,     \* the emitted Go ends in a panic
  value,      \* the value that is matched
  next,       \* the arm it is tried on next
  outcome     \* "none", "arm", "panic" or "falls through"

analysis == <<follows, clauses, arms, errors>>
matrix == <<rows, at, steps>>
emitted == <<lowering, panics>>
execution == <<value, next, outcome>>
matchVars == <<phase, analysis, matrix, emitted, execution>>

-----------------------------------------------------------------------------
(* Patterns.                                                               *)

\* Constructors are known by their place in the signature.
Variants(col) == IF col = Opaque THEN {} ELSE DOMAIN Signature[col]
Naming(col, con) == {i \in Variants(col) : Signature[col][i].con = con}
IsVariant(col, con) == Naming(col, con) # {}
VariantOf(col, con) == Signature[col][CHOOSE i \in Naming(col, con) : TRUE]
PossibleVariants(col) == {i \in Variants(col) : Signature[col][i].possible}
Possible(col, con) == IsVariant(col, con) /\ VariantOf(col, con).possible

\* The columns in which resolveRPat finds nothing wrong with a pattern: a name that is
\* no constructor of its column is a binder, but not with arguments.
Resolving[p \in Patterns] ==
  {col \in Columns :
     \/ p = Wild
     \/ ~IsVariant(col, p.con) /\ p.args = <<>>
     \/ /\ IsVariant(col, p.con)
        /\ LET fields == VariantOf(col, p.con).fields
           IN /\ Len(p.args) = Len(fields)
              /\ \A i \in DOMAIN fields : fields[i] \in Resolving[p.args[i]]}

\* The pattern of an arm is no binder.
Resolves(p) == Root \in Resolving[p] /\ (p = Wild \/ IsVariant(Root, p.con))

\* normPat, in each column: binders match anything.
Norm[p \in Patterns] ==
  [col \in Columns |->
     IF ~IsVariant(col, p.con) THEN Wild
     ELSE LET fields == VariantOf(col, p.con).fields
          IN [con |-> p.con,
              args |-> [i \in DOMAIN p.args \cap DOMAIN fields |-> Norm[p.args[i]][fields[i]]]]]

FlatWildOnly(p) == \A i \in DOMAIN p.args : p.args[i] = Wild

\* patNested, of a pattern that norm has been through.
PatNested(p) == \E i \in DOMAIN p.args : p.args[i] # Wild

-----------------------------------------------------------------------------
(* Usefulness. A problem is a matrix over some columns and a query; a      *)
(* result says whether the query is useful, a witness if so, and the       *)
(* number of calls that have been made by then.                            *)

Problems ==
  {x \in [cols : Seq(Columns), rows : SUBSET Seq(Patterns), query : Seq(Patterns)] :
     /\ x.cols # <<>>
     /\ Len(x.query) = Len(x.cols) /\ \A row \in x.rows : Len(row) = Len(x.cols)}

Wilds(n) == [i \in 1 .. n |-> Wild]

\* What a column can be specialized to: one of its constructors, or (0) anything, which
\* is the default matrix.
Anything == [con |-> "_", fields |-> <<>>, possible |-> TRUE]
HeadAt(col, i) == IF i \in Variants(col) THEN Signature[col][i] ELSE Anything

Least(places) == CHOOSE i \in places : \A j \in places : i <= j

\* A row of the matrix for values that are built by v. Fields the pattern does not
\* have are wild.
Expand(row, v) ==
  LET args == Head(row).args
  IN [i \in DOMAIN v.fields |-> IF i \in DOMAIN args THEN args[i] ELSE Wild] \o Tail(row)

Specialize(x, v) ==
  [cols |-> v.fields \o Tail(x.cols),
   rows |-> {Expand(row, v) : row \in {r \in x.rows : Head(r).con \in {"_", v.con}}},
   query |-> Expand(x.query, v)]

Rooted(x) == {Head(row).con : row \in x.rows} \ {"_"}

\* A defect: constructors that cannot occur are asked for as well.
CompleteOfAll(x) == \A i \in Variants(x.cols[1]) : Signature[x.cols[1]][i].con \in Rooted(x)

\* Every constructor that can occur heads a row.
Complete(x) ==
  /\ PossibleVariants(x.cols[1]) # {}
  /\ \A i \in PossibleVariants(x.cols[1]) : Signature[x.cols[1]][i].con \in Rooted(x)

\* What the first column is specialized to, in the order of the signature.
Heads(x) ==
  IF Head(x.query) # Wild THEN Naming(x.cols[1], Head(x.query).con)
  ELSE IF Complete(x) THEN PossibleVariants(x.cols[1])
  ELSE {0}

\* The head of a witness that no row of the matrix has.
Missing(x) ==
  LET missing == {i \in PossibleVariants(x.cols[1]) : Signature[x.cols[1]][i].con \notin Rooted(x)}
      v == Signature[x.cols[1]][Least(missing)]
  IN IF missing = {} THEN Wild ELSE [con |-> v.con, args |-> Wilds(Len(v.fields))]

\* From a witness of the specialization of x to v to one of x.
Rebuild(x, v, w) ==
  IF v = Anything THEN <<Missing(x)>> \o w
  ELSE <<[con |-> v.con, args |-> SubSeq(w, 1, Len(v.fields))]>> \o SubSeq(w, Len(v.fields) + 1, Len(w))

Found(w, n) == [useful |-> TRUE, witness |-> w, steps |-> n]
NotFound(n) == [useful |-> FALSE, witness |-> <<>>, steps |-> n]

\* Where a search is: it looks at a problem, has still to specialize it to some heads,
\* and that many calls have been made.
Search(heads, x, n) == [heads |-> heads, problem |-> x, calls |-> n]
Searches == [heads : SUBSET Nat, problem : Problems, calls : 0 .. Budget + 1]

\* The first of the heads for which the query is useful.
UsefulFor[s \in Searches] ==
  IF s.heads = {} \/ s.calls > Budget THEN NotFound(s.calls)
  ELSE LET x == s.problem
           v == HeadAt(x.cols[1], Least(s.heads))
           y == Specialize(x, v)
           r == IF y.cols # <<>> THEN UsefulFor[Search(Heads(y), y, s.calls + 1)]
                ELSE IF y.rows = {} /\ s.calls < Budget THEN Found(<<>>, s.calls + 1)
                ELSE NotFound(s.calls + 1)
       IN IF r.useful THEN Found(Rebuild(x, v, r.witness), r.steps)
          ELSE UsefulFor[Search(s.heads \ {Least(s.heads)}, x, r.steps)]

\* Is p useful against the rows of a match?
Useful(p, before) ==
  LET x == [cols |-> <<Root>>, rows |-> rows, query |-> <<p>>]
  IN IF before > Budget THEN NotFound(before) ELSE UsefulFor[Search(Heads(x), x, before + 1)]

-----------------------------------------------------------------------------
(* The arms.                                                               *)

ImpossibleRejected(raw) ==
  \/ raw.guard
  \/ raw.pats[1] = Wild
  \/ Len(raw.pats) > 1
  \/ raw.bind
  \/ ~Resolves(raw.pats[1])
  \/ Possible(Root, raw.pats[1].con)

Rejected(raw) ==
  IF raw.impossible THEN ImpossibleRejected(raw)
  ELSE IF raw.pats[1] = Wild THEN raw.guard
  ELSE \/ Len(raw.pats) > 1 /\ (raw.guard \/ raw.bind)
       \/ \E i \in DOMAIN raw.pats :
            \/ ~Resolves(raw.pats[i])
            \/ ~Possible(Root, raw.pats[i].con)
            \/ Len(raw.pats) > 1 /\ ~FlatWildOnly(raw.pats[i])

SawWildcard == \E i \in DOMAIN arms : arms[i].pats[1] = Wild

\* What is kept of an arm.
Analysis(raw) ==
  [pats |-> [i \in DOMAIN raw.pats |-> Norm[raw.pats[i]][Root]],
   guard |-> raw.guard, clause |-> Len(clauses) + 1]

MatchInit ==
  /\ phase = "arms"
  /\ follows \in BOOLEAN
  /\ clauses = <<>> /\ arms = <<>> /\ errors = {}
  /\ rows = {} /\ at = <<1, 1>> /\ steps = 0
  /\ lowering = "none" /\ panics = FALSE
  /\ value = Wild /\ next = 1 /\ outcome = "none"

Error(kind, where, w) == [kind |-> kind, at |-> where, witness |-> w]

\* The next arm. An arm after `case _:` is an error and ends the analysis; a checked
\* impossible arm is dropped.
Arm(raw) ==
  /\ phase = "arms" /\ Len(clauses) < MaxArms
  /\ clauses' = Append(clauses, raw)
  /\ IF SawWildcard
     THEN /\ errors' = errors \cup {Error("order", <<Len(clauses)>>, Wild)}
          /\ phase' = "rejected"
          /\ UNCHANGED arms
     ELSE /\ UNCHANGED phase
          /\ IF Rejected(raw)
             THEN errors' = errors \cup {Error("arm", <<Len(clauses) + 1>>, Wild)} /\ UNCHANGED arms
             ELSE /\ UNCHANGED errors
                  /\ arms' = IF raw.impossible THEN arms ELSE Append(arms, Analysis(raw))
  /\ UNCHANGED <<follows, matrix, emitted, execution>>

ArmsEnd ==
  /\ phase = "arms" /\ clauses # <<>>
  /\ phase' = IF errors # {} THEN "rejected" ELSE "rows"
  /\ UNCHANGED <<analysis, matrix, emitted, execution>>

-----------------------------------------------------------------------------
(* Reachability, row by row, and exhaustiveness.                           *)

\* A defect: only the first alternative of an arm is looked at.
FollowingArm == <<at[1] + 1, 1>>

\* The next alternative of the arm, or the first one of the next arm.
Following == IF at[2] < Len(arms[at[1]].pats) THEN <<at[1], at[2] + 1>> ELSE <<at[1] + 1, 1>>

\* A defect: an arm covers what its pattern matches, guard or not.
CoveringGuarded(row) == rows \cup {row}

\* A guarded arm covers nothing.
Covering(row) == IF arms[at[1]].guard THEN rows ELSE rows \cup {row}

Row ==
  /\ phase = "rows" /\ at[1] <= Len(arms)
  /\ LET p == arms[at[1]].pats[at[2]]
         r == Useful(p, steps)
     IN /\ steps' = r.steps
        /\ rows' = Covering(<<p>>)
        /\ errors' = IF ~r.useful /\ r.steps <= Budget
                     THEN errors \cup {Error("unreachable", at, p)} ELSE errors
  /\ at' = Following
  /\ UNCHANGED <<phase, follows, clauses, arms, emitted, execution>>

TooComplex(n) == IF n > Budget THEN {Error("too complex", <<>>, Wild)} ELSE {}

\* The last query; it is not made once an arm is unreachable.
Cover ==
  /\ phase = "rows" /\ at[1] > Len(arms)
  /\ LET r == IF errors = {} THEN Useful(Wild, steps) ELSE NotFound(steps)
     IN /\ steps' = r.steps
        /\ errors' = errors \cup TooComplex(r.steps)
                     \cup (IF r.useful THEN {Error("missing", <<>>, r.witness[1])} ELSE {})
        /\ phase' = IF errors' = {} THEN "emit" ELSE "rejected"
  /\ UNCHANGED <<follows, clauses, arms, rows, at, emitted, execution>>

-----------------------------------------------------------------------------
(* What is emitted.                                                        *)

ChainMode == \E i \in DOMAIN arms : arms[i].guard \/ PatNested(arms[i].pats[1])

\* Every clause of the source ends in a return or the like; the body of an
\* impossible one does not.
ArmsTerminate == \A i \in DOMAIN clauses : clauses[i].ends /\ ~clauses[i].impossible

Emit ==
  /\ phase = "emit"
  /\ IF ChainMode /\ \E i \in DOMAIN arms : Len(arms[i].pats) > 1
     THEN /\ errors' = errors \cup {Error("alternatives", <<>>, Wild)}
          /\ phase' = "rejected"
          /\ UNCHANGED emitted
     ELSE /\ phase' = "ready"
          /\ lowering' = IF ChainMode THEN "chain" ELSE "switch"
          /\ panics' = (~SawWildcard /\ ~(follows /\ ArmsTerminate))
          /\ UNCHANGED errors
  /\ UNCHANGED <<follows, clauses, arms, matrix, execution>>

-----------------------------------------------------------------------------
(* The emitted Go.                                                         *)

\* What a constructor builds of values of its fields.
Built(v, values) ==
  LET parts == [k \in DOMAIN v.fields |-> values[v.fields[k]]]
  IN {[con |-> v.con, args |-> s] :
        s \in {s \in [DOMAIN parts -> UNION {parts[k] : k \in DOMAIN parts}] :
                \A k \in DOMAIN parts : s[k] \in parts[k]}}

\* The values of every column as far as patterns of depth d look into them.
Values[d \in Nat] ==
  [col \in Columns |->
     IF col = Opaque \/ d = 0 THEN {[con |-> "any", args |-> <<>>]}
     ELSE UNION {Built(Signature[col][i], Values[d - 1]) : i \in PossibleVariants(col)}]

\* What the checks that are emitted for a pattern let through.
Matched[p \in Patterns] ==
  {x \in Patterns :
     \/ p = Wild
     \/ /\ p.con = x.con
        /\ \A i \in DOMAIN p.args : i \in DOMAIN x.args /\ x.args[i] \in Matched[p.args[i]]}

Matches(p, x) == x \in Matched[p]

\* A variable of the enum's interface type that nothing was assigned to.
Nil == [con |-> "nil", args |-> <<>>]

Scrutinees == Values[Depth][Root] \cup {Nil}

\* The assertions of a chain look at the whole pattern, the case of a switch only at
\* the constructor.
Tests(arm, x) ==
  IF lowering = "chain" THEN Matches(arm.pats[1], x)
  ELSE \E j \in DOMAIN arm.pats : arm.pats[j].con \in {"_", x.con}

Call(x) ==
  /\ phase = "ready"
  /\ phase' = "running" /\ value' = x
  /\ UNCHANGED <<analysis, matrix, emitted, next, outcome>>

Take ==
  /\ phase = "running" /\ next <= Len(arms)
  /\ Tests(arms[next], value)
  /\ outcome' = "arm" /\ phase' = "over"
  /\ UNCHANGED <<analysis, matrix, emitted, value, next>>

\* The test fails, or the guard is false.
Skip ==
  /\ phase = "running" /\ next <= Len(arms)
  /\ ~Tests(arms[next], value) \/ arms[next].guard
  /\ next' = next + 1
  /\ UNCHANGED <<phase, analysis, matrix, emitted, value, outcome>>

FallOut ==
  /\ phase = "running" /\ next > Len(arms)
  /\ outcome' = IF panics THEN "panic" ELSE "falls through"
  /\ phase' = "over"
  /\ UNCHANGED <<analysis, matrix, emitted, value, next>>

MatchNext ==
  \/ \E raw \in RawArms : Arm(raw)
  \/ ArmsEnd \/ Row \/ Cover \/ Emit
  \/ \E x \in Scrutinees : Call(x)
  \/ Take \/ Skip \/ FallOut

MatchSpec == MatchInit /\ [][MatchNext]_matchVars

-----------------------------------------------------------------------------
(* Properties.                                                             *)

\* An alternative above the j-th of the i-th arm that no guard can turn away matches x.
CoveredAbove(x, i, j) ==
  \/ \E k \in 1 .. i - 1 : ~arms[k].guard /\ \E l \in DOMAIN arms[k].pats : Matches(arms[k].pats[l], x)
  \/ \E l \in 1 .. j - 1 : Matches(arms[i].pats[l], x)

\* A match that is accepted runs, whatever the value and whatever its guards say, the
\* first arm that matches; only a nil gets to its panic, or to the statement after it.
RunsFirstArm ==
  phase = "over" =>
    /\ value # Nil => outcome = "arm"
    /\ outcome = "arm" => /\ \E j \in DOMAIN arms[next].pats : Matches(arms[next].pats[j], value)
                          /\ ~CoveredAbove(value, next, 1)

SpeaksOf(w) == {x \in Values[Depth][Root] : Matches(w, x)}

\* No arm takes for certain a value of which the witness speaks, and an arm that is
\* reported as unreachable matches nothing that the arms above leave over.
GroundsOf(e) ==
  /\ e.kind = "missing" => \A x \in SpeaksOf(e.witness) : ~CoveredAbove(x, Len(arms) + 1, 1)
  /\ e.kind = "unreachable" => \A x \in SpeaksOf(e.witness) : CoveredAbove(x, e.at[1], e.at[2])

\* README.md of goplus: "a missing variant is a compile error with a witness". What is
\* reported is so, and there are values of which the witness speaks.
RejectsWithReason ==
  phase = "rejected" =>
    \A e \in errors : GroundsOf(e) /\ (e.kind = "missing" => SpeaksOf(e.witness) # {})

\* The columns in which every constructor the pattern names can build a value.
Inhabited[p \in Patterns] ==
  {col \in Columns :
     \/ p = Wild
     \/ /\ Possible(col, p.con)
        /\ LET fields == VariantOf(col, p.con).fields
           IN \A i \in DOMAIN p.args : i \in DOMAIN fields /\ fields[i] \in Inhabited[p.args[i]]}

\* features/enums/exhaustiveness.feature: "Dead arms - duplicates, GADT-impossible
\* patterns - are hard errors". Every alternative of an accepted match is the first to
\* match some value. Patterns that name an impossible constructor below their head
\* are left out: the code accepts them.
DeadArmsRejected ==
  phase = "ready" =>
    \A i \in DOMAIN arms : \A j \in DOMAIN arms[i].pats :
      Root \in Inhabited[arms[i].pats[j]] =>
        \E x \in Values[Depth][Root] : Matches(arms[i].pats[j], x) /\ ~CoveredAbove(x, i, j)
====
