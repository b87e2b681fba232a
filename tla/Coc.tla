-------------------------------- MODULE Coc --------------------------------
(***************************************************************************)
(* The filter of coc (src/src/tools/coc/filter.c, class.c, def.c), which   *)
(* turns CO into C: a machine of eight modes that reads a file and writes  *)
(* one.                                                                    *)
(*                                                                         *)
(* The filter reads characters; here it reads tokens, where a word (a run  *)
(* of characters that are no separators, @ or #) is one token, for the     *)
(* modes do to each character of a word what they do to the whole.  What   *)
(* it writes is a sequence of pieces: a token copied, or what a printf     *)
(* makes of the names it has collected.  The numbers in # and #line are    *)
(* copied or left out, the limits of the buffers (4096, 512 and 256        *)
(* characters, unchecked) are not met.                                     *)
(***************************************************************************)
EXTENDS Integers, Sequences, SequencesExt

Separators == {" ", "\n", "(", ")", "{", "}", "[", "]", "=", "*", "+", "-", "/", "&", ";", ",", ":", "."}
Spaces == {" ", "\n"}
Modes == {"BODY", "ESCAPE", "CLASS", "CLASSBODY", "DEF", "VAR", "CALL", "PREPROC"}

\* Pieces of output.
Text(tokens) == [i \in DOMAIN tokens |-> [kind |-> "text", text |-> tokens[i]]]
IsText(piece, token) == piece.kind = "text" /\ piece.text = token

\* The static variables of the filter; classes is the tree of class bodies.
Start ==
  [mode |-> "BODY", ahead |-> <<>>, receiver |-> <<>>,
   className |-> <<>>, superclassName |-> <<>>, currentClassName |-> <<>>,
   body |-> <<>>, classes |-> [name \in {} |-> 0],
   balance |-> 1, inNumber |-> FALSE, out |-> <<>>]

Write(coc, pieces) == [coc EXCEPT !.out = @ \o pieces]
Keep(coc, token) == [coc EXCEPT !.ahead = Append(@, token)]
Flush(coc, pieces) == [Write(coc, pieces) EXCEPT !.ahead = <<>>]

-----------------------------------------------------------------------------

\* What stands before, and behind, the first token of a kind.
Position(tokens, kind) == SelectInSeq(tokens, LAMBDA t : t \in kind)
Before(tokens, kind) ==
  IF Position(tokens, kind) = 0 THEN tokens ELSE SubSeq(tokens, 1, Position(tokens, kind) - 1)
Behind(tokens, kind) ==
  IF Position(tokens, kind) = 0 THEN <<>> ELSE SubSeq(tokens, Position(tokens, kind) + 1, Len(tokens))

\* class_parse_className: the word behind "class ".
ClassName(decl) ==
  IF decl = <<>> \/ Head(decl) # "class" THEN <<"missingClassKeyword">>
  ELSE Before(Behind(decl, Spaces), Separators)

\* class_parse_superclassName: what follows the first space behind the colon.
SuperclassName(decl) ==
  IF Position(decl, {":"}) = 0 THEN <<"Object">>
  ELSE Before(Behind(Behind(decl, {":"}), Spaces), Spaces)

\* def_parse_className, def_parse_methodName, and def_parse_arg for each
\* argument, which is a word for its type and one for its name.
DefClassName(decl) == Before(decl, {"@"})
DefMethodName(decl) == Before(Behind(decl, {"@"}), {"("})
DefArgs(decl) ==
  LET words == SelectSeq(Before(Behind(decl, {"("}), {")"}), LAMBDA t : t \notin Separators)
  IN [i \in 1 .. Len(words) \div 2 |->
        [kind |-> "arg", type |-> words[2 * i - 1], name |-> words[2 * i]]]

-----------------------------------------------------------------------------

BodyProcess(coc, token) ==
  IF token = "@" THEN [coc EXCEPT !.mode = "ESCAPE"]
  ELSE IF token = "#" THEN [coc EXCEPT !.mode = "PREPROC"]
  ELSE IF token \in Separators THEN Flush(coc, Text(Append(coc.ahead, token)))
  ELSE Keep(coc, token)

\* Mutant: the receiver of the last send is kept.
VarChangeKeepsReceiver(coc) ==
  [coc EXCEPT !.mode = "VAR", !.ahead = <<>>,
              !.receiver = IF coc.ahead = <<>> THEN coc.receiver ELSE coc.ahead]

\* var_change: what was kept before the @ is the receiver, or self.
VarChange(coc) ==
  [coc EXCEPT !.mode = "VAR", !.ahead = <<>>,
              !.receiver = IF coc.ahead = <<>> THEN <<"self">> ELSE coc.ahead]

\* call_change: the send is opened.
CallChange(coc) ==
  LET send == IF coc.receiver = <<"super">>
                THEN [kind |-> "invokeSuper", class |-> coc.currentClassName, selector |-> coc.ahead]
                ELSE [kind |-> "invoke", receiver |-> coc.receiver, selector |-> coc.ahead]
  IN [Flush(coc, <<send>>) EXCEPT !.mode = "CALL"]

VarProcess(coc, token) ==
  IF token = "(" THEN CallChange(coc)
  ELSE IF token \in Separators
    THEN [Flush(coc, (IF coc.ahead # <<"return">>
                        THEN <<[kind |-> "member", object |-> coc.receiver, member |-> coc.ahead]>>
                        ELSE <<[kind |-> "return"]>>) \o Text(<<token>>))
            EXCEPT !.mode = "BODY"]
  ELSE Keep(coc, token)

(***************************************************************************)
(* escape_process: @+ opens a class and @- a method; anything else is put  *)
(* back and read again in mode VAR.                                        *)
(***************************************************************************)
EscapeProcess(coc, token) ==
  IF token = "+" THEN [coc EXCEPT !.mode = "CLASS", !.ahead = <<>>]
  ELSE IF token = "-" THEN [coc EXCEPT !.mode = "DEF", !.ahead = <<>>, !.currentClassName = <<>>]
  ELSE VarProcess(VarChange(coc), token)

\* Mutant: only the body of the superclass itself is written.
ClassBodyOutputNearest(coc, name) ==
  IF name \in DOMAIN coc.classes THEN coc.classes[name].buffer ELSE <<>>

(***************************************************************************)
(* classbody_outputbody: the bodies of the superclasses seen in this file, *)
(* outermost first.  (A superclass is in the tree before its subclasses.)  *)
(***************************************************************************)
ClassBodyOutput(coc, name) ==
  LET Bodies[n \in DOMAIN coc.classes \cup {<<>>}] ==
        IF n = <<>> THEN <<>>
        ELSE Bodies[coc.classes[n].superclass] \o coc.classes[n].buffer
  IN IF name \in DOMAIN coc.classes THEN Bodies[name] ELSE <<>>

\* class_process, and classbody_change at the brace.
ClassProcess(coc, token) ==
  IF token = "{"
    THEN LET class == ClassName(coc.ahead)
             superclass == SuperclassName(coc.ahead)
             typedef == IF class = <<"Class">> THEN <<>> ELSE <<[kind |-> "typedef", class |-> class]>>
         IN [Flush(coc, typedef \o <<[kind |-> "struct", class |-> class]>>
                          \o Text(ClassBodyOutput(coc, superclass)))
               EXCEPT !.mode = "CLASSBODY", !.className = class,
                      !.superclassName = superclass, !.body = <<>>]
    ELSE Keep(coc, token)

\* classbody_process: at the end the record of the class is written and the
\* body is kept for subclasses.
ClassBodyProcess(coc, token) ==
  IF token = "}"
    THEN LET entry == [superclass |-> IF coc.superclassName \in DOMAIN coc.classes
                                        THEN coc.superclassName ELSE <<>>,
                       buffer |-> coc.body]
         IN [Flush(coc, Text(Append(coc.ahead, token))
                          \o <<[kind |-> "class", class |-> coc.className,
                                superclass |-> coc.superclassName]>>)
               EXCEPT !.mode = "BODY", !.className = <<>>,
                      !.classes = [n \in DOMAIN @ \cup {coc.className} |->
                                     IF n = coc.className THEN entry ELSE @[n]]]
    ELSE [Keep(coc, token) EXCEPT !.body = Append(@, token)]

\* def_process: the record of the method, its head and its arguments.
DefProcess(coc, token) ==
  IF token = "{"
    THEN [Flush(coc, <<[kind |-> "method", class |-> DefClassName(coc.ahead),
                        selector |-> DefMethodName(coc.ahead)]>>
                       \o DefArgs(coc.ahead) \o <<[kind |-> "line"]>>)
            EXCEPT !.mode = "BODY", !.currentClassName = DefClassName(coc.ahead)]
    ELSE Keep(coc, token)

\* Mutant: the count is not set back.
CallProcessKeepsBalance(coc, token) ==
  LET balance == coc.balance + (IF token = "(" THEN 1 ELSE IF token = ")" THEN -1 ELSE 0)
  IN IF balance = 0
       THEN [Flush(coc, Text((IF coc.ahead = <<>> THEN <<>> ELSE <<",">>) \o Append(coc.ahead, token)))
               EXCEPT !.mode = "BODY", !.balance = 0]
       ELSE [Keep(coc, token) EXCEPT !.balance = balance]

(***************************************************************************)
(* call_process: the arguments, up to the parenthesis that closes the      *)
(* send, are copied as they are, sends in them too.                        *)
(***************************************************************************)
CallProcess(coc, token) ==
  LET balance == coc.balance + (IF token = "(" THEN 1 ELSE IF token = ")" THEN -1 ELSE 0)
  IN IF balance = 0
       THEN [Flush(coc, Text((IF coc.ahead = <<>> THEN <<>> ELSE <<",">>) \o Append(coc.ahead, token)))
               EXCEPT !.mode = "BODY", !.balance = 1]
       ELSE [Keep(coc, token) EXCEPT !.balance = balance]

(***************************************************************************)
(* preproc_process: "# number" is copied.  The space behind the number is  *)
(* kept and written a second time.                                         *)
(***************************************************************************)
PreprocProcess(coc, token) ==
  IF ~coc.inNumber
    THEN IF token = " "
           THEN [Flush(coc, Text(<<"#">> \o Append(coc.ahead, token))) EXCEPT !.inNumber = TRUE]
           ELSE Keep(coc, token)
    ELSE IF token \in Spaces
           THEN [Write(coc, Text(Append(coc.ahead, token)))
                   EXCEPT !.mode = "BODY", !.ahead = <<token>>, !.inNumber = FALSE]
           ELSE Keep(coc, token)

\* One round of the loop of coc_filter.
Process(coc, token) ==
  CASE coc.mode = "BODY" -> BodyProcess(coc, token)
    [] coc.mode = "ESCAPE" -> EscapeProcess(coc, token)
    [] coc.mode = "CLASS" -> ClassProcess(coc, token)
    [] coc.mode = "CLASSBODY" -> ClassBodyProcess(coc, token)
    [] coc.mode = "DEF" -> DefProcess(coc, token)
    [] coc.mode = "VAR" -> VarProcess(coc, token)
    [] coc.mode = "CALL" -> CallProcess(coc, token)
    [] coc.mode = "PREPROC" -> PreprocProcess(coc, token)
=============================================================================
