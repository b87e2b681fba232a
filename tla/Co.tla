--------------------------------- MODULE Co ---------------------------------
(***************************************************************************)
(* A program in CO from its sources to its sends: coc translates each file *)
(* (module Coc), the linker joins the records of classes and methods,      *)
(* co_init builds the class tables from them (module CoRuntime), and the   *)
(* main function of the program sends messages.                            *)
(*                                                                         *)
(* The first file is co-runtime.co itself; every file begins with co.h,    *)
(* which coc includes.  The C compiler and the linker are external: the    *)
(* sends of a function are run as they stand in the translated file.       *)
(***************************************************************************)
EXTENDS CoRuntime, FiniteSets

F == INSTANCE Coc

CONSTANTS
  Sources         \* for each file, the declarations it may consist of

Statements ==
  [kind : {"send"}, result : STRING, receiver : STRING, selector : STRING, args : Seq(STRING)]
    \cup [kind : {"member"}, object : STRING, member : STRING]
    \cup [kind : {"return"}, value : STRING]

Declarations ==
  [kind : {"class"}, class : STRING, superclass : STRING, members : Seq(STRING)]
    \cup [kind : {"method"}, class : STRING, selector : STRING,
          args : Seq([type : STRING, name : STRING]), body : Seq(Statements)]
    \cup [kind : {"function"}, function : STRING, body : Seq(Statements)]
    \cup [kind : {"line"}, number : STRING, file : STRING]

ASSUME CoAssumption == Sources \in Seq(SUBSET Seq(Declarations))

VARIABLES
  program,        \* declarations of the files that were given to coc
  todo,           \* what the filter has not read of the last one
  coc,            \* the state of the filter
  translated,     \* what coc wrote for each file
  image,          \* the program as compiled and linked
  co,             \* the state of the run time
  records,        \* what each loop of co_init has still to visit
  stack,          \* the active methods, innermost first
  variables       \* the objects the program knows by a variable

vars == <<program, todo, coc, translated, image, co, records, stack, variables>>

-----------------------------------------------------------------------------

(***************************************************************************)
(* The text of a declaration, and of a statement in a body.                *)
(***************************************************************************)
Word(name) == IF name = "" THEN <<>> ELSE <<name>>
All(seq, Op(_)) == FlattenSeq([i \in DOMAIN seq |-> Op(seq[i])])
Self(name) == IF name = "self" THEN "" ELSE name

StatementText(s) ==
  CASE s.kind = "send" -> (IF s.result = "" THEN <<>> ELSE <<s.result, "=">>)
                            \o Word(Self(s.receiver)) \o <<"@", s.selector, "(">> \o s.args \o <<")", ";">>
    [] s.kind = "member" -> Word(Self(s.object)) \o <<"@", s.member, ";">>
    [] s.kind = "return" -> <<"@", "return", " ", s.value, ";">>

Members(d) == All(d.members, LAMBDA m : <<m, ";">>)
ArgsText(args) == All(args, LAMBDA a : <<a.type, " ", a.name, ",">>)

DeclarationText(d) ==
  CASE d.kind = "class" -> <<"@", "+", "class", " ", d.class, " ">>
                             \o (IF d.superclass = "" THEN <<>> ELSE <<":", " ", d.superclass, " ">>)
                             \o <<"{">> \o Members(d) \o <<"}", ";", "\n">>
    [] d.kind = "method" -> <<"@", "-", d.class, "@", d.selector, "(">> \o ArgsText(d.args)
                              \o <<")", " ", "{", "\n">> \o All(d.body, StatementText) \o <<"}", "\n">>
    [] d.kind = "function" -> <<d.function, "(", ")", "{">> \o All(d.body, StatementText) \o <<"}", "\n">>
    [] d.kind = "line" -> <<"#", " ", d.number, " ", d.file, "\n">>

-----------------------------------------------------------------------------

(***************************************************************************)
(* What the C compiler makes of a translated file: the structs, the        *)
(* functions and the records.                                              *)
(***************************************************************************)
\* The pieces behind place i, up to the brace that ends the struct or body.
Block(out, i) ==
  LET end == SelectInSeq(SubSeq(out, i + 1, Len(out)), LAMBDA p : F!IsText(p, "}"))
  IN SubSeq(out, i + 1, i + end - 1)

\* The members of a struct, in order; sizeof counts them.
Struct(out, class) ==
  LET i == SelectInSeq(out, LAMBDA p : p.kind = "struct" /\ p.class = <<class>>)
      names == SelectSeq(Block(out, i), LAMBDA p : ~F!IsText(p, ";"))
  IN [k \in DOMAIN names |-> names[k].text]

Records(out, kind) == SelectSeq(out, LAMBDA p : p.kind = kind)
ClassRecords(out) ==
  All(Records(out, "class"),
      LAMBDA p : <<[class |-> p.class[1], superclass |-> p.superclass[1],
                    size |-> Len(Struct(out, p.class[1]))]>>)
MethodRecords(out) ==
  All(Records(out, "method"),
      LAMBDA p : <<[class |-> p.class[1], selector |-> p.selector[1],
                    method |-> [class |-> p.class[1], selector |-> p.selector[1]]]>>)

\* The calls of invoke and invokeSuper in a block, with the variable that
\* gets the result and the first argument.
Sends(block) ==
  LET Places == {i \in DOMAIN block : block[i].kind \in {"invoke", "invokeSuper"}}
      Send(i) ==
        [super |-> block[i].kind = "invokeSuper",
         target |-> IF block[i].kind = "invokeSuper" THEN block[i].class ELSE block[i].receiver,
         selector |-> block[i].selector[1],
         arg |-> IF F!IsText(block[i + 1], ",") THEN block[i + 2].text ELSE "",
         result |-> IF i > 2 /\ F!IsText(block[i - 1], "=") THEN block[i - 2].text ELSE ""]
  IN [k \in 1 .. Cardinality(Places) |->
        Send(CHOOSE i \in Places : Cardinality({j \in Places : j <= i}) = k)]

(***************************************************************************)
(* The sections .co.classes and .co.methods hold the records of the files  *)
(* in the order they are linked.  A weak record gives its name to one      *)
(* object only, but its bytes are in the section once for each file.       *)
(***************************************************************************)
Linked(order) ==
  LET Function(out, p) ==
        [method |-> [class |-> p.class[1], selector |-> p.selector[1]],
         sends |-> Sends(Block(out, SelectInSeq(out, LAMBDA q : q = p)))]
      Functions(out) == {Function(out, p) : p \in ToSet(Records(out, "method"))}
      functions == UNION {Functions(translated[f]) : f \in DOMAIN translated}
      MainAt(out) == SelectInSeq(out, LAMBDA p : F!IsText(p, "main"))
  IN [classes |-> All(order, LAMBDA f : ClassRecords(translated[f])),
      methods |-> All(order, LAMBDA f : MethodRecords(translated[f])),
      functions |-> [m \in {f.method : f \in functions} |->
                       (CHOOSE f \in functions : f.method = m).sends],
      main |-> LET out == CHOOSE out \in ToSet(translated) : MainAt(out) # 0
               IN Sends(Block(out, MainAt(out))),
      structs |-> [f \in DOMAIN translated |->
                     [class \in {p.class[1] : p \in ToSet(Records(translated[f], "class"))} |->
                        Struct(translated[f], class)]]]

-----------------------------------------------------------------------------

\* An object is known by its place among the objects or, if it is a class,
\* among the classes.
Null == [kind |-> "null", place |-> 0]
Object(place) == [kind |-> "object", place |-> place]
ClassObject(place) == IF place = NoClass THEN Null ELSE [kind |-> "class", place |-> place]
\* object->_class
ClassOf(runtime, object) ==
  IF object.kind = "class" THEN runtime.classes[object.place].class
                           ELSE runtime.objects[object.place].class

ClassesOf(declarations) == SelectSeq(declarations, LAMBDA d : d.kind = "class")

\* All that may be declared, and the classes among it.
Files == UNION {Sources[f] : f \in DOMAIN Sources}
Declarable == UNION {ToSet(p) : p \in Files}
Names == {d.class : d \in {d \in Declarable : d.kind = "class"}}

Init ==
  /\ program = <<>> /\ todo = <<>>
  /\ coc = F!Start /\ translated = <<>> /\ image = <<>>
  /\ co = Start(Names)
  /\ records = [classes |-> <<>>, parents |-> <<>>, methods |-> <<>>]
  /\ stack = <<>> /\ variables = [x \in {} |-> Null]

\* coc is called for a file.
OpenFile ==
  /\ todo = <<>> /\ Len(program) < Len(Sources) /\ Len(translated) = Len(program)
  /\ \E declarations \in Sources[Len(program) + 1] :
       /\ program' = Append(program, declarations)
       /\ todo' = All(declarations, DeclarationText)
  /\ coc' = F!Start
  /\ UNCHANGED <<translated, image, co, records, stack, variables>>

\* One round of the loop of coc_filter; at the end of the file it returns.
Filter ==
  /\ todo # <<>>
  /\ coc' = F!Process(coc, Head(todo))
  /\ todo' = Tail(todo)
  /\ translated' = IF todo' = <<>> THEN Append(translated, coc'.out) ELSE translated
  /\ UNCHANGED <<program, image, co, records, stack, variables>>

\* The C compiler, and the linker with the object files in any order.
Link ==
  /\ Len(translated) = Len(Sources) /\ image = <<>>
  /\ \E order \in [DOMAIN translated -> DOMAIN translated] :
       IsInjective(order) /\ image' = Linked(order)
  /\ records' = [classes |-> image'.classes, parents |-> image'.classes, methods |-> image'.methods]
  /\ UNCHANGED <<program, todo, coc, translated, co, stack, variables>>

\* A method that runs: the call that was made, and the sends its function
\* has still to make.
Frame(method, call, sends) ==
  [self |-> call.self, selector |-> call.selector, super |-> call.super, arg |-> call.arg,
   result |-> call.result, method |-> method, sends |-> sends]

Main ==
  Frame([class |-> "", selector |-> "main"],
        [self |-> Null, selector |-> "main", super |-> FALSE, arg |-> "", result |-> ""],
        image.main)

(***************************************************************************)
(* co_init, which main calls before its first send; called again it does   *)
(* nothing.  The sections are those of the kernel image, whose first       *)
(* string table is the one with the names of sections (co_init takes the   *)
(* first one it meets, and panics when it finds no section of classes).    *)
(***************************************************************************)
Left == records.classes \o records.parents \o records.methods

CoInit ==
  /\ image # <<>> /\ ~Full(co) /\ Left # <<>>
  /\ \/ /\ records.classes # <<>>
        /\ co' = InitClass(co, Head(records.classes))
        /\ records' = [records EXCEPT !.classes = Tail(@)]
     \/ /\ records.classes = <<>> /\ records.parents # <<>>
        /\ co' = InitParent(co, Head(records.parents))
        /\ records' = [records EXCEPT !.parents = Tail(@)]
     \/ /\ records.classes \o records.parents = <<>> /\ records.methods # <<>>
        /\ co' = InitMethod(co, Head(records.methods))
        /\ records' = [records EXCEPT !.methods = Tail(@)]
  /\ stack' = IF Len(Left) = 1 /\ ~Full(co') THEN <<Main>> ELSE <<>>
  /\ UNCHANGED <<program, todo, coc, translated, image, variables>>

-----------------------------------------------------------------------------

Running == stack # <<>> /\ ~Full(co)
Active == Head(stack)

(***************************************************************************)
(* basicInvoke on top of the methods in rest: the method found runs on the *)
(* object; if there is none the object is sent doesNotUnderstand.  (Should *)
(* that not be found either, basicInvoke and invoke call each other for    *)
(* ever; there is no such step here.)                                      *)
(***************************************************************************)
BasicInvoke(runtime, rest, class, call) ==
  LET finder == Finder(runtime, class, call.selector)
      other == Finder(runtime, ClassOf(runtime, call.self), "doesNotUnderstand")
      method == IF finder # NoClass THEN MethodOf(runtime, finder, call.selector)
                                    ELSE MethodOf(runtime, other, "doesNotUnderstand")
  IN /\ finder # NoClass \/ other # NoClass
     /\ stack' = <<Frame(method, call, image.functions[method])>> \o rest

\* What the receiver of a send holds: self, a variable or a class; nothing is
\* sent to a variable that was not set.
Value(name) ==
  IF name = "self" THEN Active.self
  ELSE IF name \in DOMAIN variables THEN variables[name]
  ELSE IF name \in Names THEN ClassObject(co.globals[name])
  ELSE Null

\* Mutant: the search starts above the class of the object.
SuperClassOfObject(send) == co.classes[ClassOf(co, Active.self)].parent

\* invokeSuper: the parent of the class, or UnknownObject.
SuperClass(send) ==
  LET parent == co.classes[co.globals[send.target[1]]].parent
  IN IF parent # NoClass THEN parent ELSE co.globals["UnknownObject"]

IsNative(method, selector) ==
  method = [class |-> IF selector = "new" THEN "Class" ELSE "Object", selector |-> selector]

\* invoke and invokeSuper, called by the method that runs.
Send ==
  /\ Running /\ Active.sends # <<>> /\ ~IsNative(Active.method, "new")
  /\ LET send == Head(Active.sends)
         object == IF send.super THEN Active.self ELSE Value(send.target[1])
     IN /\ object # Null
        /\ BasicInvoke(co, <<[Active EXCEPT !.sends = Tail(@)]>> \o Tail(stack),
                       IF send.super THEN SuperClass(send) ELSE ClassOf(co, object),
                       [self |-> object, selector |-> send.selector, super |-> send.super,
                        arg |-> send.arg, result |-> send.result])
  /\ UNCHANGED <<program, todo, coc, translated, image, co, records, variables>>

\* Class@new: an object is created and sent init through perform; what that
\* returns is returned.
New ==
  /\ Running /\ IsNative(Active.method, "new")
  /\ co' = CreateObject(co, Active.self.place)
  /\ LET send == Head(Active.sends)
     IN IF Full(co') THEN stack' = <<>>
        ELSE BasicInvoke(co', Tail(stack), Active.self.place,
                         [self |-> Object(Len(co'.objects)), selector |-> send.selector,
                          super |-> FALSE, arg |-> send.arg, result |-> Active.result])
  /\ UNCHANGED <<program, todo, coc, translated, image, records, variables>>

\* Object@perform: basicInvoke with the selector that was passed.
Perform ==
  /\ Running /\ IsNative(Active.method, "perform")
  /\ BasicInvoke(co, Tail(stack), ClassOf(co, Active.self),
                 [self |-> Active.self, selector |-> Active.arg, super |-> FALSE,
                  arg |-> "", result |-> Active.result])
  /\ UNCHANGED <<program, todo, coc, translated, image, co, records, variables>>

\* A method returns, self unless it is doesNotUnderstand.
Return ==
  /\ Running /\ Active.sends = <<>> /\ ~IsNative(Active.method, "perform")
  /\ stack' = Tail(stack)
  /\ variables' = IF Active.result = "" THEN variables
                  ELSE [x \in {Active.result} \cup DOMAIN variables |->
                          IF x # Active.result THEN variables[x]
                          ELSE IF IsNative(Active.method, "doesNotUnderstand") THEN Null
                          ELSE Active.self]
  /\ UNCHANGED <<program, todo, coc, translated, image, co, records>>

Kernel == CoInit \/ Send \/ New \/ Perform \/ Return

Next == OpenFile \/ Filter \/ Link \/ Kernel

Spec == Init /\ [][Next]_vars

\* Once it is built the program runs; nothing else runs beside it.
FairSpec == Spec /\ WF_vars(Kernel)

-----------------------------------------------------------------------------

TypeOK ==
  /\ Len(program) <= Len(Sources) /\ Len(translated) \in Len(program) - 1 .. Len(program)
  /\ coc.mode \in F!Modes /\ coc.balance \in Nat \ {0}
  /\ coc.mode \in {"CLASS", "CLASSBODY", "DEF", "ESCAPE"} => coc.balance = 1
  /\ \A c \in DOMAIN co.classes : co.classes[c].parent \in NoClass .. Len(co.classes)
  /\ \A i \in DOMAIN stack : stack[i].self \in {Null} \cup
       {ClassObject(c) : c \in DOMAIN co.classes} \cup {Object(o) : o \in DOMAIN co.objects}

(***************************************************************************)
(* What coc is to make of a file: a class has the members of its           *)
(* superclasses, outermost first, and then its own; a send calls invoke    *)
(* with its receiver, or invokeSuper with the class whose method it is in. *)
(***************************************************************************)
StatementMeaning(s, class) ==
  CASE s.kind = "send" ->
         (IF s.result = "" THEN <<>> ELSE F!Text(<<s.result, "=">>))
           \o (IF s.receiver = "super"
                 THEN <<[kind |-> "invokeSuper", class |-> <<class>>, selector |-> <<s.selector>>]>>
                 ELSE <<[kind |-> "invoke", receiver |-> <<s.receiver>>, selector |-> <<s.selector>>]>>)
           \o F!Text((IF s.args = <<>> THEN <<>> ELSE <<",">> \o s.args) \o <<")", ";">>)
    [] s.kind = "member" -> <<[kind |-> "member", object |-> <<s.object>>, member |-> <<s.member>>]>>
                              \o F!Text(<<";">>)
    [] s.kind = "return" -> <<[kind |-> "return"]>> \o F!Text(<<" ", s.value, ";">>)

\* The members of a class of a file, those it inherits first.
AllMembers(declarations) ==
  LET classes == ClassesOf(declarations)
      Named(class) == SelectInSeq(classes, LAMBDA d : d.class = class)
      Of[i \in 0 .. Len(classes)] ==
        IF i = 0 THEN <<>>
        ELSE Of[Named(IF classes[i].superclass = "" THEN "Object" ELSE classes[i].superclass)]
               \o Members(classes[i])
  IN [i \in DOMAIN classes |-> Of[i]]

DeclarationMeaning(d, members) ==
  CASE d.kind = "class" ->
         (IF d.class = "Class" THEN <<>> ELSE <<[kind |-> "typedef", class |-> <<d.class>>]>>)
           \o <<[kind |-> "struct", class |-> <<d.class>>]>> \o F!Text(members \o <<"}">>)
           \o <<[kind |-> "class", class |-> <<d.class>>,
                 superclass |-> <<IF d.superclass = "" THEN "Object" ELSE d.superclass>>]>>
           \o F!Text(<<";", "\n">>)
    [] d.kind = "method" ->
         <<[kind |-> "method", class |-> <<d.class>>, selector |-> <<d.selector>>]>>
           \o All(d.args, LAMBDA a : <<[kind |-> "arg", type |-> a.type, name |-> a.name]>>)
           \o <<[kind |-> "line"]>> \o F!Text(<<"\n">>)
           \o All(d.body, LAMBDA s : StatementMeaning(s, d.class)) \o F!Text(<<"}", "\n">>)
    [] d.kind = "function" ->
         F!Text(<<d.function, "(", ")", "{">>)
           \o All(d.body, LAMBDA s : StatementMeaning(s, "")) \o F!Text(<<"}", "\n">>)
    [] d.kind = "line" -> F!Text(<<"#", " ", d.number, " ", " ", d.file, "\n">>)

Meaning(declarations) ==
  LET members == AllMembers(declarations)
      Place(i) == Len(ClassesOf(SubSeq(declarations, 1, i)))
  IN FlattenSeq([i \in DOMAIN declarations |->
       DeclarationMeaning(declarations[i], IF Place(i) = 0 THEN <<>> ELSE members[Place(i)])])

\* The superclass a class is declared with, and the sends a body states.
IsClass(d, class) == d.kind = "class" /\ d.class = class
Super(d) == IF d.superclass = "" THEN "Object" ELSE d.superclass
MethodId(d) == [class |-> d.class, selector |-> d.selector]
Stated(d, class) ==
  {[super |-> s.receiver = "super",
    target |-> <<IF s.receiver = "super" THEN class ELSE s.receiver>>,
    selector |-> s.selector,
    arg |-> IF s.args = <<>> THEN "" ELSE Head(s.args),
    result |-> s.result] : s \in {s \in ToSet(d.body) : s.kind = "send"}}

Declared == UNION {ToSet(program[f]) : f \in DOMAIN program}

\* The records, sends and structs of the image are those of the declarations.
ClassesCompiled ==
  /\ image.classes \in Seq([class : Names, superclass : Names \cup {"object"}, size : Nat])
  /\ \A r \in ToSet(image.classes) : \E d \in Declared : IsClass(d, r.class) /\ r.superclass = Super(d)
  /\ \A d \in Declared : d.kind = "class" => \E r \in ToSet(image.classes) : r.class = d.class

MethodsCompiled ==
  /\ image.methods \in Seq([class : Names, selector : STRING, method : [class : Names, selector : STRING]])
  /\ \A r \in ToSet(image.methods) :
       r.method = MethodId(r) /\ \E d \in Declared : d.kind = "method" /\ MethodId(d) = r.method
  /\ \A d \in Declared : d.kind = "method" =>
       /\ \E r \in ToSet(image.methods) : r.method = MethodId(d)
       /\ image.functions[MethodId(d)] \in Seq(Stated(d, d.class))
  /\ \E d \in Declared : d.kind = "function" /\ image.main \in Seq(Stated(d, ""))

StructsCompiled ==
  /\ \A s \in ToSet(image.structs) : \A class \in DOMAIN s : s[class] \in Seq(STRING)
  /\ \A s, t \in ToSet(image.structs) : \A a \in DOMAIN s, b \in DOMAIN t :
       (a = b \/ \E d \in Declared : IsClass(d, b) /\ Super(d) = a) => IsPrefix(s[a], t[b])
  /\ \A r \in ToSet(image.classes) : \E s \in ToSet(image.structs) :
       r.class \in DOMAIN s /\ r.size = Len(s[r.class])

Compiled == ClassesCompiled /\ MethodsCompiled /\ StructsCompiled

(***************************************************************************)
(* What coc writes for a file is what its declarations mean, and what is   *)
(* compiled and linked of that has their classes, methods and sends.  The  *)
(* filter keeps names, classes and counts in static variables from one     *)
(* construct to the next; none may leak into a later one.  (A file is      *)
(* looked at when it is done, and the image when it is linked; neither     *)
(* changes.)                                                               *)
(***************************************************************************)
TranslatedFaithfully ==
  /\ (todo = <<>> /\ translated # <<>> /\ image = <<>>) =>
       Last(translated) = Meaning(Last(program))
  /\ (image # <<>> /\ co.classes = <<>>) => Compiled

(***************************************************************************)
(* A method runs on objects that hold the members its class was compiled   *)
(* with, at the same places: the struct of its class, in any file, begins  *)
(* the struct of the class of the object in any file, and the object has   *)
(* memory for it.                                                          *)
(***************************************************************************)
MethodsFitObjects ==
  \A i \in DOMAIN stack : stack[i].self.kind = "object" =>
    LET object == co.objects[stack[i].self.place]
        class == co.classes[object.class].name
        compiled == stack[i].method.class
    IN \A s, t \in ToSet(image.structs) : (compiled \in DOMAIN s /\ class \in DOMAIN t) =>
         /\ IsPrefix(s[compiled], t[class])
         /\ Len(s[compiled]) <= object.size

\* The superclass of a class, and the class nearest above one, itself
\* included, that defines a method.
DeclaredClasses == {d.class : d \in {d \in Declared : d.kind = "class"}}
SuperclassOf(class) == Super(CHOOSE d \in Declared : IsClass(d, class))
Nearest(start, selector) ==
  LET Up[class \in DeclaredClasses \cup {"object"}] ==
        IF \/ class = "object"
           \/ \E d \in Declared : d.kind = "method" /\ d.class = class /\ d.selector = selector
          THEN class ELSE Up[SuperclassOf(class)]
  IN Up[start]

(***************************************************************************)
(* Every send runs the method that is nearest above the class of the       *)
(* object, and a send to super the one nearest above the class whose       *)
(* method sends it, however many files carry a record of these classes and *)
(* in whatever order they are linked.                                      *)
(***************************************************************************)
DispatchesNearest ==
  \A i \in DOMAIN stack \ {Len(stack)} :
    LET frame == stack[i]
        class == co.classes[ClassOf(co, frame.self)].name
        nearest == Nearest(IF frame.super THEN SuperclassOf(stack[i + 1].method.class) ELSE class,
                           frame.selector)
    IN frame.method =
         IF nearest # "object" THEN [class |-> nearest, selector |-> frame.selector]
         ELSE [class |-> Nearest(class, "doesNotUnderstand"), selector |-> "doesNotUnderstand"]

(***************************************************************************)
(* What the theorems about sends ask of the programs.  In each file a      *)
(* class follows its superclass, as a header includes that of the          *)
(* superclass first, and a method its class; files agree on superclasses.  *)
(* A class whose superclass is "object" sends nothing to super.  Class has *)
(* no subclasses and is not sent anything itself: there are no metaclasses.*)
(***************************************************************************)
InOrder(p) ==
  \A i \in DOMAIN p :
    /\ p[i].kind = "class" =>
         /\ p[i].class # "object" /\ Super(p[i]) # "Class"
         /\ Super(p[i]) = "object" \/ \E j \in 1 .. i - 1 : IsClass(p[j], Super(p[i]))
         /\ \E j \in DOMAIN p : IsClass(p[j], "Class")
    /\ p[i].kind = "method" => \E j \in 1 .. i - 1 : IsClass(p[j], p[i].class)

SendsInOrder(d) ==
  \A s \in ToSet(d.body) : s.kind = "send" =>
    /\ s.receiver # "Class"
    /\ s.receiver = "super" =>
         d.kind = "method" /\ \A c \in Declarable : IsClass(c, d.class) => Super(c) # "object"

ProgramsInOrder ==
  /\ \A p \in Files : InOrder(p)
  /\ \A c, d \in Declarable : d.kind = "class" /\ IsClass(c, d.class) => Super(c) = Super(d)
  /\ \A d \in Declarable : d.kind \in {"method", "function"} => SendsInOrder(d)

(***************************************************************************)
(* Every program that is built comes to the end of its main function, or   *)
(* out of memory: no chain of superclasses or super sends turns on itself. *)
(***************************************************************************)
Ended == Left = <<>> /\ stack = <<>>
SendsReturn == (image # <<>>) ~> (Full(co) \/ Ended)
=============================================================================
