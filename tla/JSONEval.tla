------------------------------ MODULE JSONEval ------------------------------
(***************************************************************************)
(* The filter expressions over JSON documents: && or || of functions and   *)
(* of expressions in parentheses, each with a negation.  A text is a       *)
(* sequence of tokens: "(", ")", "!", "&", "|", function names, the        *)
(* placeholders the compiler puts in, and "quote" for a stray quote.  The  *)
(* arguments of a function belong to its name.                             *)
(***************************************************************************)
EXTENDS Naturals, Sequences, SequencesExt, FiniteSets

CONSTANTS
  JeFunctions,     \* name -> [op, icase, left, right]; a side: [type, path or text]
  JeTrees,         \* expressions: see TreeText
  JeTexts,         \* texts that are not the text of an expression
  JeDocuments      \* documents: path -> [kind, items]

VARIABLES
  jeTree,          \* the expression that was written, <<>> for a text that is none
  jeEval,          \* the JSONEval object: see ParseExpression; <<>> before
  jeDoc, jeResult  \* the document and what evaluate() returned

jeVars == <<jeTree, jeEval, jeDoc, jeResult>>

Placeholders == <<"sub1", "sub2", "sub3", "sub4">>

JeInit == jeTree = <<>> /\ jeEval = <<>> /\ jeDoc = <<>> /\ jeResult = "none"

(***************************************************************************)
(* AtomicExpression.                                                       *)
(***************************************************************************)
\* A path gives the items of an array, nothing for null and for a single value (which has no
\* items), and throws for an empty array or object.
ResolveValueSet(side, doc) ==
  CASE side.type = "path" -> ToSet(doc[side.path].items)
    [] side.type = "text" -> {side.text}
    [] OTHER -> {}

SideThrows(side, doc) == side.type = "path" /\ doc[side.path].kind = "empty"

\* Letters are pairs <<letter, upper case>>.
CaseOf(icase, text) == IF icase THEN [i \in DOMAIN text |-> <<text[i][1], FALSE>>] ELSE text

Related(op, l, r) ==
  CASE op = "IS_EQUAL" -> l = r
    [] op = "STARTS_WITH" -> IsPrefix(r, l)
    [] op = "ENDS_WITH" -> IsSuffix(r, l)
    [] op = "CONTAINS" -> \E i \in 0..Len(l) : IsPrefix(r, SubSeq(l, i + 1, Len(l)))
    [] op = "REGEX_MATCH" -> l = r     \* the patterns without operators

\* A pattern is compiled only from a text: one that a path names matches nothing.
AtomHolds(f, doc) ==
  LET ls == {CaseOf(f.icase, l) : l \in ResolveValueSet(f.left, doc)}
      rs == {CaseOf(f.icase, r) : r \in ResolveValueSet(f.right, doc)}
  IN IF f.op = "IS_NULL" THEN ls = {}
     ELSE /\ f.op = "REGEX_MATCH" => f.right.type = "text" /\ f.left.type = "path"
          /\ \E l \in ls, r \in rs : Related(f.op, l, r)

JeNot(r) == CASE r = "true" -> "false" [] r = "false" -> "true" [] OTHER -> r
JeNegated(neg, r) == IF neg THEN JeNot(r) ELSE r
JeBool(b) == IF b THEN "true" ELSE "false"

AtomEvaluate(a, doc) ==
  LET f == JeFunctions[a.name]
  IN IF SideThrows(f.left, doc) \/ SideThrows(f.right, doc) THEN "throws"
     ELSE JeNegated(a.neg, JeBool(AtomHolds(f, doc)))

\* compile(): a name that is known, with sides that are known, maybe negated.
NoAtom == [name |-> "", neg |-> FALSE, sub |-> 0]
CompileAtom(part) ==
  LET neg == part # <<>> /\ part[1] = "!"
      rest == IF neg THEN Tail(part) ELSE part
  IN IF Len(rest) = 3 /\ rest[1] \in DOMAIN JeFunctions /\ SubSeq(rest, 2, 3) = <<"(", ")">>
     THEN IF "bad" \in {JeFunctions[rest[1]].left.type, JeFunctions[rest[1]].right.type} THEN NoAtom
          ELSE [name |-> rest[1], neg |-> neg, sub |-> 0]
     ELSE NoAtom

(***************************************************************************)
(* parseExpression.                                                        *)
(***************************************************************************)
JeDepth(t, from, i) == Cardinality({k \in from..i : t[k] = "("})
JeHeight(t, from, i) == Cardinality({k \in from..i : t[k] = ")"})

\* Mutant: the first closing parenthesis ends the expression.
ClosesFlat(t, from) == {i \in from..Len(t) : t[i] = ")"}

\* The closing parentheses that end an expression of this level, or none of it.
Closes(t, from) ==
  {i \in from..Len(t) : t[i] = ")" /\ JeDepth(t, from, i) <= JeHeight(t, from, i)}

\* extractSubExpressions: the first parentheses from a position on.  [to]: where to go on, 0
\* for a text whose parentheses do not match; [text, sub, neg]: the text with the placeholder
\* n, and what it stands for.  Parentheses after a letter or a digit are a function's.
ExtractSubExpression(t, from, n) ==
  LET none == [to |-> Len(t) + 1, text |-> t, sub |-> <<>>, neg |-> FALSE]
      end == CHOOSE i \in Closes(t, from) : \A j \in Closes(t, from) : i <= j
      first == CHOOSE i \in from..end : t[i] = "(" /\ \A j \in from..(i - 1) : t[j] # "("
      before == IF first = 1 THEN "" ELSE t[first - 1]
      sub == SubSeq(t, first + 1, end - 1)
      neg == before = "!"
      whole == (IF neg THEN <<"!">> ELSE <<>>) \o <<"(">> \o sub \o <<")">>
  IN IF Closes(t, from) = {} THEN none
     ELSE IF JeDepth(t, from, end) < JeHeight(t, from, end) THEN [none EXCEPT !.to = 0]
     ELSE IF before \in DOMAIN JeFunctions \cup ToSet(Placeholders) THEN [none EXCEPT !.to = end + 1]
     ELSE [to |-> 1, text |-> ReplaceFirstSubSeq(<<Placeholders[n]>>, whole, t),
           sub |-> sub, neg |-> neg]

JeSplit(t, op) ==
  LET cuts == {i \in 1..Len(t) : t[i] = op} \cup {0, Len(t) + 1}
      next(i) == CHOOSE j \in cuts : j > i /\ \A k \in cuts : k > i => j <= k
      starts == SetToSortSeq(cuts \ {Len(t) + 1}, <)
  IN [n \in 1..Len(starts) |-> SubSeq(t, starts[n] + 1, next(starts[n]) - 1)]

\* An operator has something on both sides; one that has not leaves a space behind.
Operates(t, op) == \E i \in 2..(Len(t) - 1) : t[i] = op
StrayOperator(t) ==
  \E i \in 1..Len(t) : t[i] \in {"&", "|"} /\ (i = 1 \/ i = Len(t) \/ t[i - 1] \in {"&", "|"})

\* What is left once the parentheses are gone: functions and placeholders.  Whatever follows
\* a placeholder is ignored.
CompilePart(part) ==
  IF part # <<>> /\ part[1] \in ToSet(Placeholders)
  THEN [name |-> "sub", neg |-> FALSE,
        sub |-> CHOOSE n \in 1..Len(Placeholders) : Placeholders[n] = part[1]]
  ELSE CompileAtom(part)

\* The object: ok (isCompiled), mode, neg, atoms and subs.  A failure keeps the mode and the
\* atoms it had.
JeObject(ok, mode, neg, atoms, subs) ==
  [ok |-> ok, mode |-> mode, neg |-> neg, atoms |-> atoms, subs |-> subs]

CompileFlat(t, neg, subs) ==
  LET mode == IF Operates(t, "&") THEN "AND" ELSE "OR"
      atoms == LET parts == JeSplit(t, IF mode = "AND" THEN "&" ELSE "|")
               IN [i \in 1..Len(parts) |-> CompilePart(parts[i])]
  IN IF Operates(t, "&") /\ Operates(t, "|") THEN JeObject(FALSE, "UNDEFINED", neg, <<>>, subs)
     ELSE IF StrayOperator(t) THEN JeObject(FALSE, mode, neg, <<>>, subs)
     ELSE IF \E i \in DOMAIN atoms : atoms[i] = NoAtom THEN JeObject(FALSE, "UNDEFINED", neg, <<>>, subs)
     ELSE JeObject(TRUE, mode, neg, atoms, subs)

RECURSIVE ParseExpression(_, _)
RECURSIVE ParseFrom(_, _, _, _)

\* The loop over the parentheses: whether a sub-expression compiled is not looked at.
ParseFrom(t, from, neg, subs) ==
  LET x == ExtractSubExpression(t, from, Len(subs) + 1)
  IN IF x.to = 0 THEN JeObject(FALSE, "UNDEFINED", neg, <<>>, subs)
     ELSE IF x.text # t THEN ParseFrom(x.text, 1, neg, Append(subs, ParseExpression(x.sub, x.neg)))
     ELSE IF x.to <= Len(t) THEN ParseFrom(t, x.to, neg, subs)
     ELSE CompileFlat(t, neg, subs)

ParseExpression(t, neg) ==
  IF \E i \in 1..Len(t) : t[i] = "quote" \/ t[i] \in ToSet(Placeholders)
  THEN JeObject(FALSE, "UNDEFINED", neg, <<>>, <<>>)
  ELSE ParseFrom(t, 1, neg, <<>>)

(***************************************************************************)
(* evaluate.                                                               *)
(***************************************************************************)
\* The first value that decides, or that throws, is the last one looked at.
ShortCircuit(values, decides, otherwise) ==
  LET stops == {i \in DOMAIN values : values[i] \in {decides, "throws"}}
  IN IF stops = {} THEN otherwise ELSE values[CHOOSE i \in stops : \A j \in stops : i <= j]

RECURSIVE EvaluateExpr(_, _)
EvaluateExpr(c, doc) ==
  LET values == [i \in DOMAIN c.atoms |->
                   IF c.atoms[i].sub = 0 THEN AtomEvaluate(c.atoms[i], doc)
                   ELSE EvaluateExpr(c.subs[c.atoms[i].sub], doc)]
  IN CASE c.mode = "AND" -> JeNegated(c.neg, ShortCircuit(values, "false", "true"))
       [] c.mode = "OR" -> JeNegated(c.neg, ShortCircuit(values, "true", "false"))
       [] OTHER -> "false"

(***************************************************************************)
(* Expressions as trees: [op, neg, name, parts], op one of "atom", "&",    *)
(* "|".  They are what the text stands for.                                *)
(***************************************************************************)
RECURSIVE TreeText(_)
TreeText(tree) ==
  LET sign(e) == IF e.neg THEN <<"!">> ELSE <<>>
      part(e) == IF e.op = "atom" THEN sign(e) \o <<e.name, "(", ")">>
                 ELSE sign(e) \o <<"(">> \o TreeText(e) \o <<")">>
      joined == [i \in DOMAIN tree.parts |->
                   IF i = 1 THEN part(tree.parts[i]) ELSE <<tree.op>> \o part(tree.parts[i])]
  IN FlattenSeq(joined)

RECURSIVE TreeValue(_, _)
TreeValue(tree, doc) ==
  LET value == CASE tree.op = "atom" -> AtomHolds(JeFunctions[tree.name], doc)
                 [] tree.op = "&" -> \A i \in DOMAIN tree.parts : TreeValue(tree.parts[i], doc)
                 [] tree.op = "|" -> \E i \in DOMAIN tree.parts : TreeValue(tree.parts[i], doc)
  IN value # tree.neg

JeCompile(text, tree) ==
  /\ jeEval = <<>>
  /\ jeEval' = ParseExpression(text, FALSE) /\ jeTree' = tree
  /\ UNCHANGED <<jeDoc, jeResult>>

JeEvaluate(doc) ==
  /\ jeEval # <<>> /\ jeResult = "none"
  /\ jeDoc' = doc /\ jeResult' = EvaluateExpr(jeEval, doc)
  /\ UNCHANGED <<jeTree, jeEval>>

JeNext ==
  \/ \E tree \in JeTrees : JeCompile(TreeText(tree), tree)
  \/ \E text \in JeTexts : JeCompile(text, <<>>)
  \/ \E doc \in JeDocuments : JeEvaluate(doc)

(***************************************************************************)
(* Properties.                                                             *)
(***************************************************************************)
\* An expression compiles, whatever is repeated in it, and its value is the one of the tree;
\* an exception comes only from a path that throws.
MeansItsTree ==
  jeTree # <<>> =>
    /\ jeEval.ok
    /\ jeResult \notin {"none", "throws"} /\ (\A p \in DOMAIN jeDoc : jeDoc[p].kind # "empty")
         => jeResult = JeBool(TreeValue(jeTree, jeDoc))
    /\ jeResult = "throws" => \E p \in DOMAIN jeDoc : jeDoc[p].kind = "empty"

\* A text with a parenthesis or an operator too many, or without an order of && and ||, is
\* not taken for an expression at its level: the object or one inside it is not compiled.
\* (What follows a closing parenthesis without an operator is not noticed: no such text here.)
BrokenIsRefused ==
  jeEval # <<>> /\ jeTree = <<>> => ~jeEval.ok \/ \E i \in DOMAIN jeEval.subs : ~jeEval.subs[i].ok

(* Filter expressions: what is compiled means what was written. *)
JSONEvalSound == MeansItsTree /\ BrokenIsRefused
=============================================================================
