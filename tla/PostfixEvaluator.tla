-------------------------- MODULE PostfixEvaluator --------------------------
(***************************************************************************)
(* breakpad/include/processor/postfix_evaluator-inl.h: the stack machine   *)
(* that evaluates the program strings of STACK WIN records and the rules   *)
(* of STACK CFI records.                                                   *)
(*                                                                         *)
(* A token is an operator, an identifier or a literal; a value is pushed   *)
(* as the literal it is printed as.  The tokens of the expression come out *)
(* of the stream one by one, each a step; one that begins with '=' and goes *)
(* on is two tokens.                                                       *)
(***************************************************************************)
EXTENDS Integers, Sequences

CONSTANTS
  Values,      \* number of values of ValueType: 2^32 or 2^64 in the program
  Variables,   \* identifiers that begin with '$'
  Constants,   \* and those that do not
  Literals,    \* the literals expressions have, those with a '-' below zero
  MaxLength    \* bound: tokens of an expression

EvaluatorAssumption ==
  /\ Values \in Nat \ {0, 1} /\ MaxLength \in Nat
  /\ Variables \cap Constants = {}
  /\ Literals \subseteq Int
  /\ \A x \in Literals : -Values < x /\ x < Values

Value == 0 .. Values - 1
BinaryOperations == {"+", "-", "*", "/", "%", "@"}
Operators == BinaryOperations \cup {"^", "="}

Operator(o) == [operator |-> o]
Identifier(i) == [identifier |-> i]
Literal(x) == [literal |-> x]
IsOperator(t) == "operator" \in DOMAIN t
IsIdentifier(t) == "identifier" \in DOMAIN t
IsLiteral(t) == "literal" \in DOMAIN t

Operands ==
  {Identifier(i) : i \in Variables \cup Constants} \cup {Literal(x) : x \in Literals}
Tokens == Operands \cup {Operator(o) : o \in Operators}

VARIABLES
  dictionary,   \* *dictionary_
  memory,       \* *memory_: address to value, or no address at all if null
  stack,        \* stack_
  assigned,     \* keys set to true in *assigned
  doing,        \* "Evaluate" or "EvaluateForValue" while one runs, "idle",
                \* or "undefined" after behaviour that C++ does not define
  answer,       \* of the last call: which it was, and what it returned
  expression,   \* history: the tokens read so far
  given         \* history: dictionary when the call was made

vars == <<dictionary, memory, stack, assigned, doing, answer, expression, given>>

TypeOK ==
  /\ DOMAIN dictionary \subseteq Variables \cup Constants
  /\ \A i \in DOMAIN dictionary : dictionary[i] \in Value
  /\ stack \in Seq({t \in Tokens : ~IsOperator(t)} \cup {Literal(v) : v \in Value})
  /\ assigned \subseteq Variables
  /\ doing \in {"Evaluate", "EvaluateForValue", "idle", "undefined"}
  /\ answer.ok \in BOOLEAN /\ answer.value \in Value
  /\ expression \in Seq(Tokens)

\* Constants have values from the start; memory holds the next address, but
\* for the last one, which it does not have.
Init ==
  /\ dictionary = [i \in Constants |-> 1]
  /\ memory \in {<<>>, [a \in 0 .. Values - 2 |-> a + 1]}
  /\ stack = <<>> /\ assigned = {} /\ doing = "idle"
  /\ answer = [by |-> "Evaluate", ok |-> FALSE, value |-> 0] /\ expression = <<>> /\ given = dictionary

Running == doing \in {"Evaluate", "EvaluateForValue"}

Call(function) ==
  /\ doing = "idle" /\ expression = <<>>
  /\ doing' = function
  /\ assigned' = {}
  /\ given' = dictionary
  /\ UNCHANGED <<dictionary, memory, stack, answer, expression>>

\* Mutant: what a failed evaluation leaves is there for the next one.
ReturnLeavingStack(ok, value) ==
  /\ doing' = "idle" /\ UNCHANGED stack
  /\ answer' = [by |-> doing, ok |-> ok, value |-> value]

\* The AutoStackClearer goes.
Return(ok, value) ==
  /\ doing' = "idle" /\ stack' = <<>>
  /\ answer' = [by |-> doing, ok |-> ok, value |-> value]

Fail == Return(FALSE, 0) /\ UNCHANGED <<dictionary, assigned>>

Undefined ==
  /\ doing' = "undefined"
  /\ UNCHANGED <<dictionary, stack, assigned, answer>>
-----------------------------------------------------------------------------
\* Mutant: values do not wrap.
WrapNot(x) == x

Wrap(x) == x % Values

\* PopValue: the value of the token at the top, none if it is an identifier
\* that is not in the dictionary.
PopValue(t) ==
  IF IsLiteral(t) THEN {Wrap(t.literal)}
  ELSE {dictionary[i] : i \in DOMAIN dictionary \cap {t.identifier}}

Top(n) == stack[Len(stack) + 1 - n]
Below(n) == SubSeq(stack, 1, Len(stack) - n)

And[x \in Value] ==
  [y \in Value |-> IF x = 0 \/ y = 0 THEN 0 ELSE 2 * And[x \div 2][y \div 2] + (x % 2) * (y % 2)]
Complement(x) == Values - 1 - x

\* x & (-1 ^ (y - 1)) for "@".
Apply(o, x, y) ==
  CASE o = "+" -> Wrap(x + y)
    [] o = "-" -> Wrap(x - y)
    [] o = "*" -> Wrap(x * y)
    [] o = "/" -> x \div y
    [] o = "%" -> x % y
    [] o = "@" -> And[x][Complement(Wrap(y - 1))]

Push(rest, v) ==
  /\ stack' = Append(rest, Literal(v))
  /\ UNCHANGED <<dictionary, assigned, doing, answer>>

Binary(o) ==
  IF Len(stack) < 2 \/ PopValue(Top(1)) = {} \/ PopValue(Top(2)) = {} THEN Fail
  ELSE \E x \in PopValue(Top(2)), y \in PopValue(Top(1)) :
         IF o \in {"/", "%"} /\ y = 0 THEN Undefined ELSE Push(Below(2), Apply(o, x, y))

Dereference ==
  IF memory = <<>> \/ Len(stack) < 1 \/ PopValue(Top(1)) \cap DOMAIN memory = {} THEN Fail
  ELSE \E a \in PopValue(Top(1)) : Push(Below(1), memory[a])

\* (*dictionary_)[i] = v
Storing(i, v) == [j \in DOMAIN dictionary \cup {i} |-> IF j = i THEN v ELSE dictionary[j]]

\* Mutant: *assigned is filled for keys that were there only.
AssignReportingOld ==
  IF Len(stack) < 2 \/ PopValue(Top(1)) = {} THEN Fail
  ELSE IF IsLiteral(Top(2)) THEN IF Top(2).literal < 0 THEN Undefined ELSE Fail
  ELSE IF Top(2).identifier \notin Variables THEN Fail
  ELSE \E v \in PopValue(Top(1)) :
         /\ dictionary' = Storing(Top(2).identifier, v)
         /\ assigned' = assigned \cup ({Top(2).identifier} \cap DOMAIN dictionary)
         /\ stack' = Below(2)
         /\ UNCHANGED <<doing, answer>>

\* The value, then the identifier; if that is a literal with a '-', the code
\* negates what its null pointer for a value points to.
Assign ==
  IF Len(stack) < 2 \/ PopValue(Top(1)) = {} THEN Fail
  ELSE IF IsLiteral(Top(2)) THEN IF Top(2).literal < 0 THEN Undefined ELSE Fail
  ELSE IF Top(2).identifier \notin Variables THEN Fail
  ELSE \E v \in PopValue(Top(1)) :
         /\ dictionary' = Storing(Top(2).identifier, v)
         /\ assigned' = IF doing = "Evaluate" THEN assigned \cup {Top(2).identifier}
                                              ELSE assigned
         /\ stack' = Below(2)
         /\ UNCHANGED <<doing, answer>>

EvaluateToken(t) ==
  /\ Running /\ Len(expression) < MaxLength
  /\ expression' = Append(expression, t)
  /\ \/ \E o \in BinaryOperations : t = Operator(o) /\ Binary(o)
     \/ t = Operator("^") /\ Dereference
     \/ t = Operator("=") /\ Assign
     \/ ~IsOperator(t) /\ stack' = Append(stack, t) /\ UNCHANGED <<dictionary, assigned, doing, answer>>
  /\ UNCHANGED <<memory, given>>

\* The stream is at its end.
EndOfExpression ==
  /\ Running
  /\ IF doing = "Evaluate" THEN Return(stack = <<>>, 0)
     ELSE IF Len(stack) # 1 \/ PopValue(Top(1)) = {} THEN Return(FALSE, 0)
     ELSE \E v \in PopValue(Top(1)) : Return(TRUE, v)
  /\ UNCHANGED <<dictionary, memory, assigned, expression, given>>

\* The caller has looked at the answer; the object is used again.
Forget ==
  /\ doing = "idle" /\ expression # <<>>
  /\ expression' = <<>>
  /\ UNCHANGED <<dictionary, memory, stack, assigned, doing, answer, given>>

Next ==
  \/ \E f \in {"Evaluate", "EvaluateForValue"} : Call(f)
  \/ \E t \in Tokens : EvaluateToken(t)
  \/ EndOfExpression \/ Forget

Spec == Init /\ [][Next]_vars
-----------------------------------------------------------------------------
\* The term that ends with the n-th token of the expression: the token it
\* begins with, and its value; none if it has no value.
Term[n \in 0 .. Len(expression)] ==
  IF n = 0 THEN {}
  ELSE LET t == expression[n]
       IN IF IsLiteral(t) THEN {[from |-> n, value |-> t.literal % Values]}
          ELSE IF IsIdentifier(t)
          THEN {[from |-> n, value |-> given[i]] : i \in DOMAIN given \cap {t.identifier}}
          ELSE IF t = Operator("^")
          THEN {[from |-> u.from, value |-> memory[u.value]] :
                  u \in {v \in Term[n - 1] : v.value \in DOMAIN memory}}
          ELSE UNION {{[from |-> left.from, value |-> Apply(t.operator, left.value, right.value)] :
                         left \in Term[right.from - 1]} : right \in Term[n - 1]}

Assignments == {n \in DOMAIN expression : expression[n] = Operator("=")}
Answered(function) == doing = "idle" /\ expression # <<>> /\ answer.by = function

\* postfix_evaluator.h:101-114: EvaluateForValue succeeds if and only if the
\* expression is one term, and returns its value; an assignment stores the
\* value of the term before it.  What earlier calls did to the stack has no
\* influence.
ValuesAreTheTerms ==
  /\ Answered("EvaluateForValue") /\ Assignments = {} =>
       {v \in {answer.value} : answer.ok}
         = {t.value : t \in {u \in Term[Len(expression)] : u.from = 1}}
  /\ Running /\ expression # <<>> /\ Assignments = {Len(expression)} =>
       \E t \in Term[Len(expression) - 1] :
         LET to == expression[t.from - 1]
         IN t.from > 1 /\ IsIdentifier(to) /\ dictionary[to.identifier] = t.value

\* postfix_evaluator.h:104-107: constants stay what they are; a variable that
\* Evaluate has changed is in assigned, when it has failed half-way too.
AssignedTellsWhatChanged ==
  \A i \in DOMAIN dictionary :
    i \notin DOMAIN given \/ dictionary[i] # given[i] =>
      /\ i \in Variables
      /\ doing = "Evaluate" \/ Answered("Evaluate") => i \in assigned
=============================================================================
