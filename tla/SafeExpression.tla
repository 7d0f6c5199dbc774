-------------------------- MODULE SafeExpression --------------------------
(***************************************************************************)
(* SAFE_EXPRESSION of quantum.finance: trees of literals, variables and    *)
(* operations with declared signatures.  evaluate_expression validates the *)
(* whole tree, then replaces every IF, from the inside of its condition    *)
(* outwards, by the branch its condition selects or, when the condition is *)
(* not VALID, by a synthetic variable with that state; what remains is     *)
(* evaluated eagerly.  The trees are built here bottom up on a stack.      *)
(* What the code does by recursion over a tree is a recursive function on  *)
(* the trees there can be.                                                 *)
(***************************************************************************)
EXTENDS TypedValues, FiniteSets, FiniteSetsExt

CONSTANTS
  Leaves,           \* literals and variables an expression may use
  Operators,        \* operators an expression may use
  Declared,         \* signatures an operation may declare
  Inputs,           \* functions from variable names to typed values
  DependencySets,   \* dependencies a caller may declare
  NodeLimit,        \* _MAX_EXPRESSION_NODES
  DepthLimit,       \* _MAX_EXPRESSION_DEPTH
  DependencyLimit,  \* _MAX_EXPRESSION_DEPENDENCIES
  SyntheticName(_), \* the name of the n-th synthetic variable of an evaluation, from 0
  BuildLimit        \* bound on the nodes and the height of the trees that are built

VARIABLES
  stack,            \* trees built so far
  evaluated         \* the last evaluation: tree, inputs, result

expressionVars == <<stack, evaluated>>

(* Expressions: leaves and, above them, operations to a height of          *)
(* BuildLimit.  A synthetic variable stands for a state.  Its name, of the *)
(* same kind as a caller's, matters to NoRoom only.                        *)
Synthetic(state, signature) == [kind |-> "SYNTHETIC", state |-> state, signature |-> signature]
Simple == Leaves \cup [kind : {"SYNTHETIC"}, state : States, signature : Declared]
OperationsOn(trees) ==
  [kind : {"OPERATION"}, operator : Operators, signature : Declared, arguments : Seq(trees)]
TreesTo[height \in 0..BuildLimit] ==
  IF height = 0 THEN Simple ELSE Simple \cup OperationsOn(TreesTo[height - 1])
Trees == TreesTo[BuildLimit]
IsOperation(t) == t.kind = "OPERATION"

(* What a function gives for the arguments of an operation.                *)
Below(f, t) == [i \in DOMAIN t.arguments |-> f[t.arguments[i]]]

(* Leaves are literals and variables, the operators are those of the code, *)
(* and inputs have a state, as TypedValue.parse leaves them.               *)
ASSUME ExpressionAssumption ==
  /\ \A l \in Leaves : l.kind \in {"LITERAL", "VARIABLE"}
  /\ Operators \subseteq
       {"ADD", "SUBTRACT", "MULTIPLY", "DIVIDE", "MIN", "MAX", "NEGATE", "ABS", "IF", "EQUAL",
        "LESS_THAN", "LESS_OR_EQUAL", "GREATER_THAN", "GREATER_OR_EQUAL"}
  /\ \A inputs \in Inputs : \A n \in DOMAIN inputs : inputs[n].state \in States
  /\ \A d \in DependencySets : IsFiniteSet(d)
  /\ BuildLimit \in Nat \ {0} /\ DependencyLimit \in Nat

(* The sum of a sequence of numbers of things.                             *)
Total(counts) ==
  LET total[n \in 0..Len(counts)] == IF n = 0 THEN 0 ELSE total[n - 1] + counts[n]
  IN total[Len(counts)]

Raises == [state |-> "RAISES", value |-> << >>, signature |-> << >>]

(* The operators that take two or more arguments are given two.            *)
Arity(op) ==
  CASE op \in {"NEGATE", "ABS"} -> 1
    [] op = "IF" -> 3
    [] OTHER -> 2

(* _multiply_result_signature and _divide_result_signature.                *)
ProductSignatures(a, b) ==
  {s \in {a, b, Decimal} :
     \/ Type(a) = "MONEY" /\ b \in {Rate, Decimal} /\ s = a
     \/ Type(b) = "MONEY" /\ a \in {Rate, Decimal} /\ s = b
     \/ a = Decimal /\ b = Decimal /\ s = Decimal}

QuotientSignatures(a, b) ==
  {s \in {a, Decimal} :
     \/ Type(a) = "MONEY" /\ a = b /\ s = Decimal
     \/ Type(a) = "MONEY" /\ b = Decimal /\ s = a
     \/ a = Decimal /\ b = Decimal /\ s = Decimal}

(* _validate_operation_signature.                                          *)
Agrees(op, signatures, declared) ==
  LET a == signatures[1]
      same == \A i \in DOMAIN signatures : signatures[i] = a
  IN CASE op \in {"ADD", "SUBTRACT", "MIN", "MAX", "NEGATE", "ABS"} ->
            same /\ Type(a) # "BOOLEAN" /\ a = declared
       [] op = "MULTIPLY" -> declared \in ProductSignatures(a, signatures[2])
       [] op = "DIVIDE" -> declared \in QuotientSignatures(a, signatures[2])
       [] op = "IF" -> /\ Type(a) = "BOOLEAN"
                       /\ signatures[2] = signatures[3]
                       /\ signatures[2] = declared
       [] OTHER -> /\ same
                   /\ declared = Boolean
                   /\ op = "EQUAL" \/ Type(a) # "BOOLEAN"

Nodes(e) ==
  LET nodes[t \in Trees] == IF IsOperation(t) THEN 1 + Total(Below(nodes, t)) ELSE 1
  IN nodes[e]

Depth(e) ==
  LET depth[t \in Trees] ==
        IF IsOperation(t) THEN 1 + Max({Below(depth, t)[i] : i \in DOMAIN t.arguments}) ELSE 1
  IN depth[e]

LeafDeclared(e, dependencies) ==
  e.kind = "LITERAL" \/ (e.kind = "VARIABLE" /\ e.name \in dependencies)

WellTyped(e, dependencies) ==
  LET wellTyped[t \in Trees] ==
        IF IsOperation(t)
        THEN /\ Len(t.arguments) = Arity(t.operator)
             /\ \A i \in DOMAIN t.arguments : Below(wellTyped, t)[i]
             /\ Agrees(t.operator, [i \in DOMAIN t.arguments |-> t.arguments[i].signature],
                       t.signature)
        ELSE LeafDeclared(t, dependencies)
  IN wellTyped[e]

(* validate_expression_ast.                                                *)
ValidExpression(e, dependencies) ==
  /\ Cardinality(dependencies) <= DependencyLimit
  /\ Nodes(e) <= NodeLimit
  /\ Depth(e) <= DepthLimit
  /\ WellTyped(e, dependencies)

(* What an operation makes of arguments that are all VALID.                *)
Applied(op, x, signature) ==
  LET a == x[1].value
      b == x[2].value
  IN CASE op = "ADD"       -> Valid(Plus(a, b), signature)
       [] op = "SUBTRACT"  -> Valid(Minus(a, b), signature)
       [] op = "MULTIPLY"  -> Valid(Times(a, b), signature)
       [] op = "DIVIDE"    -> IF b[1] = 0 THEN Nonvalid("BLOCKED", signature)
                                         ELSE Valid(Over(a, b), signature)
       [] op = "MIN"       -> Valid(IF Less(b, a) THEN b ELSE a, signature)
       [] op = "MAX"       -> Valid(IF Less(a, b) THEN b ELSE a, signature)
       [] op = "NEGATE"    -> Valid(Minus(Number(0), a), signature)
       [] op = "ABS"       -> Valid(IF Less(a, Number(0)) THEN Minus(Number(0), a) ELSE a, signature)
       [] op = "EQUAL"     -> Valid(Truth(SameNumber(a, b)), signature)
       [] op = "LESS_THAN" -> Valid(Truth(Less(a, b)), signature)
       [] op = "LESS_OR_EQUAL"    -> Valid(Truth(~Less(b, a)), signature)
       [] op = "GREATER_THAN"     -> Valid(Truth(Less(b, a)), signature)
       [] op = "GREATER_OR_EQUAL" -> Valid(Truth(~Less(a, b)), signature)
       [] op = "IF"        -> Valid(IF a[1] # 0 THEN b ELSE x[3].value, signature)

(* A leaf: a variable must be given, with the signature it is declared     *)
(* with; inputs and literals are taken at the calculation scale.           *)
LeafValue(e, inputs) ==
  CASE e.kind = "LITERAL" -> Normalized(Valid(e.value, e.signature))
    [] e.kind = "SYNTHETIC" -> Nonvalid(e.state, e.signature)
    [] e.kind = "VARIABLE" ->
         IF e.name \in DOMAIN inputs /\ inputs[e.name].signature = e.signature
         THEN Normalized(inputs[e.name])
         ELSE Raises

(* _expression_eager: every argument is evaluated, the worst state wins.   *)
Operation(t, x) ==
  IF \E i \in DOMAIN x : x[i] = Raises THEN Raises
  ELSE IF WorstState(x) # "VALID" THEN Nonvalid(WorstState(x), t.signature)
  ELSE Applied(t.operator, x, t.signature)

Eager(e, inputs) ==
  LET eager[t \in Trees] ==
        IF IsOperation(t) THEN Operation(t, Below(eager, t)) ELSE LeafValue(t, inputs)
  IN eager[e]

(* A slip: the tree is left as it is, so unselected branches are evaluated.*)
ResolvedEagerly(e, inputs) == [tree |-> e, synthetic |-> 0, raises |-> FALSE]

(* resolve, of _expression_lazy: the tree without its IFs, the number of   *)
(* synthetic variables this took, and whether a condition has raised; of   *)
(* an operation, from what this gives for its arguments.                   *)
Kept(t, r) ==
  [tree |-> [t EXCEPT !.arguments = [i \in DOMAIN r |-> r[i].tree]],
   synthetic |-> Total([i \in DOMAIN r |-> r[i].synthetic]),
   raises |-> \E i \in DOMAIN r : r[i].raises]

Selected(t, r, inputs) ==
  LET c == r[1]
      condition == Eager(c.tree, inputs)
      branch == r[IF condition.value = Truth(TRUE) THEN 2 ELSE 3]
  IN IF c.raises \/ condition = Raises THEN [c EXCEPT !.raises = TRUE]
     ELSE IF IsValid(condition) THEN [branch EXCEPT !.synthetic = @ + c.synthetic]
     ELSE [tree |-> Synthetic(condition.state, t.signature),
           synthetic |-> c.synthetic + 1, raises |-> FALSE]

Resolved(e, inputs) ==
  LET resolved[t \in Trees] ==
        IF ~IsOperation(t) THEN [tree |-> t, synthetic |-> 0, raises |-> FALSE]
        ELSE IF t.operator = "IF" THEN Selected(t, Below(resolved, t), inputs)
        ELSE Kept(t, Below(resolved, t))
  IN resolved[e]

(* The result of an expression is rounded once more.                       *)
Rounded(x) == IF x = Raises THEN x ELSE Normalized(x)

(* register_nonvalid adds the name of a synthetic variable to the list of  *)
(* dependencies.  Nothing keeps a caller from declaring that name: it is   *)
(* then in the list twice, and this, like a list past the limit, the eager *)
(* evaluation refuses.  The caller's variable that was overwritten is      *)
(* therefore never read, and the trees may keep the two kinds apart.       *)
NoRoom(dependencies, synthetic) ==
  \/ Cardinality(dependencies) + synthetic > DependencyLimit
  \/ \E n \in 0..(synthetic - 1) : SyntheticName(n) \in dependencies

(* evaluate_expression after the validation.                               *)
Lazy(e, inputs, dependencies) ==
  LET r == Resolved(e, inputs)
  IN IF r.raises \/ NoRoom(dependencies, r.synthetic)
     THEN Raises
     ELSE Rounded(Eager(r.tree, inputs))

Nothing == [result |-> Raises]

ExpressionInit ==
  /\ stack = << >>
  /\ evaluated = Nothing

Size == Total([i \in DOMAIN stack |-> Nodes(stack[i])])
VariableNames == {e.name : e \in {l \in Leaves : l.kind = "VARIABLE"}}

(* A leaf is pushed when the stack can still become one tree in the bound. *)
PushLeaf(leaf) ==
  /\ Size + 1 + (Len(stack) + 1) \div 2 <= BuildLimit
  /\ stack' = Append(stack, leaf)
  /\ evaluated' = Nothing

(* An operation over the trees on top of the stack.  A tree that is not    *)
(* well typed is not built upon: it makes every tree above it so.  Nor is  *)
(* one of the greatest height, which has more nodes than that.             *)
PushOperation(op, signature) ==
  LET n == Arity(op)
      k == Len(stack) - n
  IN /\ Size < BuildLimit
     /\ k >= 0
     /\ \A i \in (k + 1)..Len(stack) : /\ stack[i] \in TreesTo[BuildLimit - 1]
                                       /\ WellTyped(stack[i], VariableNames)
     /\ stack' = Append(SubSeq(stack, 1, k),
                        [kind |-> "OPERATION", operator |-> op, signature |-> signature,
                         arguments |-> SubSeq(stack, k + 1, Len(stack))])
     /\ UNCHANGED evaluated

(* evaluate_expression of the finished tree, with the inputs and declared  *)
(* dependencies of the caller.                                             *)
EvaluateExpression(inputs, dependencies) ==
  /\ Len(stack) = 1
  /\ evaluated' =
       [tree |-> stack[1], inputs |-> inputs, dependencies |-> dependencies,
        result |-> IF /\ ValidExpression(stack[1], dependencies)
                      /\ DOMAIN inputs \subseteq dependencies
                   THEN Lazy(stack[1], inputs, dependencies)
                   ELSE Raises]
  /\ stack' = << >>

ExpressionNext ==
  \/ \E leaf \in Leaves : PushLeaf(leaf)
  \/ \E op \in Operators, s \in Declared : PushOperation(op, s)
  \/ \E inputs \in Inputs, d \in DependencySets : EvaluateExpression(inputs, d)

ExpressionSpec == ExpressionInit /\ [][ExpressionNext]_expressionVars
-----------------------------------------------------------------------------
(* The meaning of an expression, read directly off the tree: an IF is its  *)
(* condition's state when that is not VALID and otherwise the branch its   *)
(* condition selects, the other branch having no part in it.               *)
MeaningOfIf(t, x) ==
  IF x[1] = Raises THEN Raises
  ELSE IF ~IsValid(x[1]) THEN Nonvalid(x[1].state, t.signature)
  ELSE x[IF x[1].value = Truth(TRUE) THEN 2 ELSE 3]

Meaning(e, inputs) ==
  LET meaning[t \in Trees] ==
        IF ~IsOperation(t) THEN LeafValue(t, inputs)
        ELSE IF t.operator = "IF" THEN MeaningOfIf(t, Below(meaning, t))
        ELSE Operation(t, Below(meaning, t))
  IN meaning[e]

Ifs(e) ==
  LET ifs[t \in Trees] ==
        IF IsOperation(t)
        THEN Total(Below(ifs, t)) + (IF t.operator = "IF" THEN 1 ELSE 0)
        ELSE 0
  IN ifs[e]

VariablesOf(e) ==
  LET variables[t \in Trees] ==
        IF IsOperation(t) THEN UNION {Below(variables, t)[i] : i \in DOMAIN t.arguments}
        ELSE IF t.kind = "VARIABLE" THEN {t} ELSE {}
  IN variables[e]

(* Rewriting the IFs away and evaluating what is left gives the meaning of *)
(* the expression, with the declared signature, so no failure and no       *)
(* missing value of a branch that is not selected reaches the result.  An  *)
(* expression that passed validation raises for no inputs with the         *)
(* declared signatures, if there is room for a synthetic variable of every *)
(* IF: under the limit, and under names the caller has not declared.       *)
(* Without that room the evaluator may raise where the expression has a    *)
(* meaning, but gives no other result.                                     *)
ShortCircuit ==
  LET e == evaluated.tree
      inputs == evaluated.inputs
      room == ~NoRoom(evaluated.dependencies, Ifs(e))
  IN evaluated # Nothing
     /\ ValidExpression(e, evaluated.dependencies)
     /\ DOMAIN inputs \subseteq evaluated.dependencies =>
       /\ room \/ evaluated.result # Raises => evaluated.result = Rounded(Meaning(e, inputs))
       /\ evaluated.result # Raises => evaluated.result.signature = e.signature
       /\ room /\ (\A x \in VariablesOf(e) : /\ x.name \in DOMAIN inputs
                                            /\ inputs[x.name].signature = x.signature)
            => evaluated.result # Raises
=============================================================================
