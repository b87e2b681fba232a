------------------------------ MODULE CoRuntime ------------------------------
(***************************************************************************)
(* The run time of CO: the class tables and message lookup of              *)
(* src/src/tools/coc/co-runtime/co-runtime.co, their construction from the *)
(* sections of the kernel image (src/src/kernel/coinit.co) and the memory  *)
(* both take from src/src/kernel/mm/alloc.c.                               *)
(*                                                                         *)
(* A class is the place of its descriptor in co.classes; 0 is the null     *)
(* pointer.                                                                *)
(***************************************************************************)
EXTENDS Integers, Sequences, SequencesExt

CONSTANTS
  POOL_SIZE,        \* of the pool of mm_malloc
  ClassSize,        \* sizeof(Class_t)
  DescSize          \* sizeof(method_desc_t)

ASSUME CoRuntimeAssumption ==
  POOL_SIZE \in Nat /\ ClassSize \in Nat /\ DescSize \in Nat

NoClass == 0

\* The statics: class_list, the global of each class, and the pool, which
\* also holds the objects.
Start(names) ==
  [classes |-> <<>>, classList |-> <<>>, globals |-> [n \in names |-> NoClass],
   objects |-> <<>>, used |-> 0]

\* mm_malloc; "malloc pool full" already when the last byte is given out.
Malloc(co, size) == [co EXCEPT !.used = @ + size]
Full(co) == co.used >= POOL_SIZE

-----------------------------------------------------------------------------

\* Mutant: new classes go to the end of the list.
CreateClassLast(co, name, size) ==
  [Malloc(co, ClassSize) EXCEPT
     !.classes = Append(@, [name |-> name, parent |-> NoClass, class |-> NoClass,
                            size |-> size, methods |-> <<>>]),
     !.classList = Append(@, Len(co.classes) + 1)]

\* createClass puts the descriptor at the head of class_list.
CreateClass(co, name, size) ==
  [Malloc(co, ClassSize) EXCEPT
     !.classes = Append(@, [name |-> name, parent |-> NoClass, class |-> NoClass,
                            size |-> size, methods |-> <<>>]),
     !.classList = <<Len(co.classes) + 1>> \o @]

\* The first class of the list with the name.
FindClass(co, name) ==
  LET place == SelectInSeq(co.classList, LAMBDA c : co.classes[c].name = name)
  IN IF place = 0 THEN NoClass ELSE co.classList[place]

AddMethod(co, class, selector, method) ==
  [Malloc(co, DescSize) EXCEPT
     !.classes[class].methods = <<[selector |-> selector, method |-> method]>> \o @]

CreateObject(co, class) ==
  [Malloc(co, co.classes[class].size) EXCEPT
     !.objects = Append(@, [class |-> class, size |-> co.classes[class].size])]

\* lookup: the place of a method in the list of one class.
Lookup(co, class, selector) ==
  SelectInSeq(co.classes[class].methods, LAMBDA desc : desc.selector = selector)

(***************************************************************************)
(* The loop of basicInvoke: the class that has the method, from class up   *)
(* through its parents.                                                    *)
(***************************************************************************)
Finder(co, class, selector) ==
  LET Walk[c \in 0 .. Len(co.classes)] ==
        IF c = NoClass \/ Lookup(co, c, selector) # 0 THEN c ELSE Walk[co.classes[c].parent]
  IN Walk[class]

MethodOf(co, class, selector) == co.classes[class].methods[Lookup(co, class, selector)].method

-----------------------------------------------------------------------------

(***************************************************************************)
(* One round of each of the three loops of co_init.  A class may have a    *)
(* record for each file that includes it: its global holds the last one    *)
(* made, which is also the one findClass finds.                            *)
(***************************************************************************)
InitClass(co, record) ==
  [CreateClass(co, record.class, record.size) EXCEPT !.globals[record.class] = Len(co.classes) + 1]

InitParent(co, record) ==
  [co EXCEPT !.classes[FindClass(co, record.class)].parent = FindClass(co, record.superclass),
             !.classes[co.globals[record.class]].class = FindClass(co, "Class")]

InitMethod(co, record) ==
  AddMethod(co, FindClass(co, record.class), record.selector, record.method)
=============================================================================
