-------------------------------- MODULE MCCo --------------------------------
(***************************************************************************)
(* Three files: co-runtime.co and two that include one header with three   *)
(* classes, each a subclass of the one before.  The methods the first of   *)
(* them defines, and those of the second, which has the main function, are *)
(* any of a few; the files are linked in any order.                        *)
(***************************************************************************)
EXTENDS Co

Class(class, superclass, members) ==
  [kind |-> "class", class |-> class, superclass |-> superclass, members |-> members]
Method(class, selector, args, body) ==
  [kind |-> "method", class |-> class, selector |-> selector, args |-> args, body |-> body]
SendTo(receiver, selector, args) ==
  [kind |-> "send", result |-> "", receiver |-> receiver, selector |-> selector, args |-> args]
NewIn(x, class) ==
  [kind |-> "send", result |-> x, receiver |-> class, selector |-> "new", args |-> <<>>]
Member(member) == [kind |-> "member", object |-> "self", member |-> member]
ReturnSelf == [kind |-> "return", value |-> "self"]
Arg(type, name) == [type |-> type, name |-> name]

\* co.h, the descriptor of a class with one member for its own fields.
CoHeader ==
  <<Class("Object", "object", <<"_class">>),
    Class("Class", "Object", <<"table">>),
    Class("UnknownObject", "", <<>>)>>

Runtime ==
  CoHeader \o
  <<Method("Object", "init", <<>>, <<ReturnSelf>>),
    Method("Object", "perform", <<Arg("selector_t", "selector"), Arg("va_list", "args")>>, <<>>),
    Method("Object", "doesNotUnderstand", <<Arg("selector_t", "selector")>>, <<>>),
    Method("Class", "new", <<>>, <<SendTo("obj", "perform", <<"init", ",", "_args">>)>>)>>

Header ==
  CoHeader \o
  <<[kind |-> "line", number |-> "1", file |-> "base.ho"],
    Class("Base", "", <<"base">>), Class("Child", "Base", <<"a", "b">>), Class("Leaf", "Child", <<"leaf">>)>>

\* Any of some declarations, in their order.
AnyOf(declarations) ==
  {FlattenSeq([i \in DOMAIN declarations |-> IF i \in chosen THEN <<declarations[i]>> ELSE <<>>])
     : chosen \in SUBSET DOMAIN declarations}

BaseMethods ==
  <<Method("Base", "init", <<>>, <<SendTo("super", "init", <<>>), Member("base"), ReturnSelf>>),
    Method("Base", "test", <<Arg("int", "arg")>>, <<SendTo("self", "absent", <<"f", "(", "arg", ")">>), ReturnSelf>>)>>

OtherMethods ==
  <<Method("Child", "init", <<>>, <<SendTo("super", "init", <<>>), Member("a"), ReturnSelf>>),
    Method("Child", "test", <<Arg("int", "arg")>>, <<SendTo("super", "test", <<"arg">>), Member("b"), ReturnSelf>>),
    Method("Leaf", "other", <<Arg("int", "arg"), Arg("size_t", "length")>>,
           <<Member("leaf"), SendTo("self", "test", <<"arg">>), SendTo("super", "other", <<>>), ReturnSelf>>)>>

MainFunction ==
  [kind |-> "function", function |-> "main",
   body |-> <<NewIn("x", "Leaf"), SendTo("x", "test", <<"1">>), SendTo("x", "other", <<>>), NewIn("y", "Child")>>]

MCSources ==
  <<{Runtime},
    {Header \o methods : methods \in AnyOf(BaseMethods)},
    {Header \o methods \o <<MainFunction>> : methods \in AnyOf(OtherMethods)}>>

ASSUME InstanceInOrder == ProgramsInOrder
=============================================================================
