------------------------------- MODULE CoProofs -------------------------------
(***************************************************************************)
(* Theorems about the CO run time for every program: any number of files   *)
(* and classes, in any order of linking.                                   *)
(***************************************************************************)
EXTENDS Co, NatRecursion

-----------------------------------------------------------------------------
(* Class tables.                                                           *)

\* A sequence with one more element before it.
LEMMA ConsFacts ==
  ASSUME NEW S, NEW x \in S, NEW q \in Seq(S), NEW t, t = <<x>> \o q
  PROVE  /\ t \in Seq(S) /\ Len(t) = Len(q) + 1 /\ t[1] = x
         /\ \A i \in 1 .. Len(q) : i + 1 \in 1 .. Len(t) /\ t[i + 1] = q[i]
         /\ \A i \in 1 .. Len(t) : i # 1 => i - 1 \in 1 .. Len(q) /\ t[i] = q[i - 1]
OBVIOUS

MethodDescs == [selector : STRING, method : [class : Names, selector : STRING]]
Descriptors ==
  [name : Names, parent : Nat, class : Nat, size : Nat, methods : Seq(MethodDescs)]
Runtimes ==
  [classes : Seq(Descriptors), classList : Seq(Nat), globals : [Names -> Nat],
   objects : Seq([class : Nat, size : Nat]), used : Nat]

\* c is the first class of the list with the name, if there is one.
IsFirst(r, name, c) ==
  \/ /\ c = NoClass
     /\ \A i \in 1 .. Len(r.classList) : r.classes[r.classList[i]].name # name
  \/ \E i \in 1 .. Len(r.classList) :
       /\ c = r.classList[i] /\ r.classes[c].name = name
       /\ \A j \in 1 .. i - 1 : r.classes[r.classList[j]].name # name

\* findClass takes the first class of the list with the name.
LEMMA FindClassFacts ==
  ASSUME NEW r, r.classList \in Seq(Nat), NEW name, NEW c, c = FindClass(r, name)
  PROVE  IsFirst(r, name, c)
<1> DEFINE I == {i \in 1 .. Len(r.classList) : r.classes[r.classList[i]].name = name}
<1>1. CASE I = {}
  <2>1. c = NoClass BY ONLY <1>1, c = FindClass(r, name) DEF FindClass, SelectInSeq
  <2> QED BY <1>1, <2>1 DEF IsFirst
<1>2. CASE I # {}
  <2>1. I \in SUBSET Nat OBVIOUS
  <2>2. PICK i \in I : \A j \in I : i <= j BY <1>2, <2>1, NatLeast
  <2>3. Min(I) = i
    <3> HIDE DEF I
    <3>1. Min(I) \in I /\ \A j \in I : Min(I) <= j BY ONLY <2>2 DEF Min
    <3>2. Min(I) \in Nat /\ i \in Nat BY ONLY <2>1, <2>2, <3>1
    <3>3. Min(I) <= i /\ i <= Min(I) BY ONLY <2>2, <3>1
    <3> QED BY ONLY <3>2, <3>3
  <2>4. SelectInSeq(r.classList, LAMBDA d : r.classes[d].name = name) = i
    BY ONLY <1>2, <2>3 DEF SelectInSeq
  <2>5. i # 0 BY <2>1, <2>2
  <2> HIDE DEF I
  <2>6. c = r.classList[i] BY ONLY <2>4, <2>5, c = FindClass(r, name) DEF FindClass
  <2>7. i \in 1 .. Len(r.classList) /\ r.classes[r.classList[i]].name = name BY DEF I
  <2>8. ASSUME NEW j \in 1 .. i - 1 PROVE r.classes[r.classList[j]].name # name
    <3>1. j \in 1 .. Len(r.classList) /\ ~(i <= j) BY <2>7
    <3>2. j \notin I BY ONLY <2>2, <3>1
    <3> QED BY ONLY <3>1, <3>2 DEF I
  <2> QED BY ONLY <2>6, <2>7, <2>8 DEF IsFirst
<1> QED BY <1>1, <1>2

\* lookup finds a method with the selector if there is one.
LEMMA LookupFacts ==
  ASSUME NEW r, NEW c, NEW S, r.classes[c].methods \in Seq(S), NEW selector
  PROVE  LET methods == r.classes[c].methods
             i == Lookup(r, c, selector)
         IN IF \E j \in 1 .. Len(methods) : methods[j].selector = selector
              THEN i \in 1 .. Len(methods) /\ methods[i].selector = selector
              ELSE i = 0
<1> DEFINE methods == r.classes[c].methods
           I == {i \in 1 .. Len(methods) : methods[i].selector = selector}
<1>1. CASE I = {} BY <1>1 DEF Lookup, SelectInSeq
<1>2. CASE I # {}
  <2>1. I \in SUBSET Nat OBVIOUS
  <2>2. PICK i \in I : \A j \in I : i <= j BY <1>2, <2>1, NatLeast
  <2>3. Min(I) = i BY <2>1, <2>2 DEF Min
  <2>4. Lookup(r, c, selector) = i BY <1>2, <2>3 DEF Lookup, SelectInSeq
  <2> QED BY <2>2, <2>4
<1> QED BY <1>1, <1>2

ClassRecordSet == [class : Names, superclass : Names \cup {"object"}, size : Nat]
MethodRecordSet == [class : Names, selector : STRING, method : [class : Names, selector : STRING]]

NewDescriptor(record) ==
  [name |-> record.class, parent |-> NoClass, class |-> NoClass, size |-> record.size, methods |-> <<>>]

\* A round of the first loop of co_init.
LEMMA InitClassFacts ==
  ASSUME NEW r \in Runtimes, NEW record \in ClassRecordSet, NEW s, s = InitClass(r, record)
  PROVE  /\ s \in Runtimes
         /\ s.classes = Append(r.classes, NewDescriptor(record))
         /\ s.classList = <<Len(r.classes) + 1>> \o r.classList
         /\ s.globals = [r.globals EXCEPT ![record.class] = Len(r.classes) + 1]
         /\ s.objects = r.objects
<1> DEFINE d == NewDescriptor(record)
           k == Len(r.classes) + 1
<1>1. d \in Descriptors BY DEF NewDescriptor, Descriptors, ClassRecordSet, NoClass
<1>2. k \in Nat BY DEF Runtimes
<1>3. Append(r.classes, d) \in Seq(Descriptors) BY <1>1 DEF Runtimes
<1>4. <<k>> \o r.classList \in Seq(Nat) BY <1>2 DEF Runtimes
<1>5. [r.globals EXCEPT ![record.class] = k] \in [Names -> Nat]
  BY <1>2 DEF Runtimes, ClassRecordSet
<1>6. r.used + ClassSize \in Nat BY CoRuntimeAssumption DEF Runtimes
<1>7. s = [classes |-> Append(r.classes, d), classList |-> <<k>> \o r.classList,
           globals |-> [r.globals EXCEPT ![record.class] = k], objects |-> r.objects,
           used |-> r.used + ClassSize]
  BY DEF NewDescriptor, InitClass, CreateClass, Malloc, Runtimes
<1> HIDE DEF d
<1>8. r.objects \in Seq([class : Nat, size : Nat]) BY DEF Runtimes
<1>9. s \in Runtimes BY ONLY <1>3, <1>4, <1>5, <1>6, <1>7, <1>8 DEF Runtimes
<1> QED BY <1>7, <1>9 DEF d

\* Descriptors keep their names: only the second and third loop change them.
SameNames(r, s) ==
  /\ s.classList = r.classList /\ s.globals = r.globals
  /\ Len(s.classes) = Len(r.classes)
  /\ \A c \in DOMAIN r.classes :
       s.classes[c].name = r.classes[c].name /\ s.classes[c].size = r.classes[c].size

\* What findClass answers depends on the list and the names.
LEMMA FindsTheSame ==
  ASSUME NEW r \in Runtimes, NEW s, SameNames(r, s), \A i \in DOMAIN r.classList : r.classList[i] \in DOMAIN r.classes,
         NEW name
  PROVE  FindClass(s, name) = FindClass(r, name)
<1> DEFINE I == {i \in 1 .. Len(r.classList) : r.classes[r.classList[i]].name = name}
           J == {i \in 1 .. Len(s.classList) : s.classes[s.classList[i]].name = name}
<1>1. I = J BY DEF Runtimes, SameNames
<1>2. FindClass(r, name) = IF (IF I # {} THEN Min(I) ELSE 0) = 0 THEN NoClass
                           ELSE r.classList[IF I # {} THEN Min(I) ELSE 0]
  BY DEF FindClass, SelectInSeq
<1>3. FindClass(s, name) = IF (IF J # {} THEN Min(J) ELSE 0) = 0 THEN NoClass
                           ELSE s.classList[IF J # {} THEN Min(J) ELSE 0]
  BY DEF FindClass, SelectInSeq
<1>4. s.classList = r.classList BY DEF SameNames
<1> HIDE DEF I, J
<1> QED BY ONLY <1>1, <1>2, <1>3, <1>4

\* A round of the second loop.
LEMMA InitParentFacts ==
  ASSUME NEW r \in Runtimes, NEW record \in ClassRecordSet, NEW s, s = InitParent(r, record)
  PROVE  /\ s \in Runtimes /\ SameNames(r, s) /\ s.objects = r.objects
         /\ \A c \in DOMAIN r.classes :
              /\ s.classes[c].methods = r.classes[c].methods
              /\ s.classes[c].parent = IF c = FindClass(r, record.class)
                                         THEN FindClass(r, record.superclass) ELSE r.classes[c].parent
              /\ s.classes[c].class = IF c = r.globals[record.class]
                                        THEN FindClass(r, "Class") ELSE r.classes[c].class
<1> DEFINE a == FindClass(r, record.class)
           b == r.globals[record.class]
           P == FindClass(r, record.superclass)
           C == FindClass(r, "Class")
           L == [r.classes EXCEPT ![a].parent = P]
           M == [L EXCEPT ![b].class = C]
<1>1. s = [r EXCEPT !.classes = M] BY DEF InitParent, Runtimes
<1>2. r.classes \in Seq(Descriptors) /\ r.classList \in Seq(Nat) BY DEF Runtimes
<1>3. P \in Nat /\ C \in Nat
  <2>1. IsFirst(r, record.superclass, P) /\ IsFirst(r, "Class", C)
    BY ONLY <1>2, FindClassFacts
  <2> HIDE DEF P, C
  <2> QED BY ONLY <1>2, <2>1 DEF IsFirst, NoClass
<1> HIDE DEF P, C, a, b
<1>4. ASSUME NEW c \in DOMAIN r.classes
      PROVE  /\ M[c] \in Descriptors /\ M[c].name = r.classes[c].name /\ M[c].size = r.classes[c].size
             /\ M[c].methods = r.classes[c].methods
             /\ M[c].parent = IF c = a THEN P ELSE r.classes[c].parent
             /\ M[c].class = IF c = b THEN C ELSE r.classes[c].class
  <2>1. r.classes[c] \in Descriptors BY <1>2, <1>4
  <2>2. L[c] = IF c = a THEN [r.classes[c] EXCEPT !.parent = P] ELSE r.classes[c] BY <1>2, <1>4
  <2>3. /\ L[c] \in Descriptors /\ L[c].name = r.classes[c].name /\ L[c].size = r.classes[c].size
        /\ L[c].methods = r.classes[c].methods /\ L[c].class = r.classes[c].class
        /\ L[c].parent = IF c = a THEN P ELSE r.classes[c].parent
    BY <1>3, <2>1, <2>2 DEF Descriptors
  <2>4. c \in DOMAIN L BY <1>4
  <2> HIDE DEF L
  <2>5. M[c] = IF c = b THEN [L[c] EXCEPT !.class = C] ELSE L[c] BY <2>4
  <2> HIDE DEF M
  <2> QED BY <1>3, <2>3, <2>5 DEF Descriptors
<1>5. DOMAIN M = DOMAIN r.classes /\ M = [c \in DOMAIN M |-> M[c]] OBVIOUS
<1> HIDE DEF L, M
<1>6. M \in Seq(Descriptors) /\ Len(M) = Len(r.classes)
  <2>1. M = [c \in 1 .. Len(r.classes) |-> M[c]] BY <1>2, <1>5
  <2>2. \A c \in 1 .. Len(r.classes) : M[c] \in Descriptors BY <1>2, <1>4
  <2> DEFINE N == [c \in 1 .. Len(r.classes) |-> M[c]]
  <2>3. N \in Seq(Descriptors) /\ Len(N) = Len(r.classes) BY <1>2, <2>2
  <2>4. M = N BY <2>1
  <2> QED BY ONLY <2>3, <2>4
<1>7. s \in Runtimes BY <1>1, <1>6 DEF Runtimes
<1>8. s.classes = M /\ s.classList = r.classList /\ s.globals = r.globals /\ s.objects = r.objects
  BY <1>1 DEF Runtimes
<1> QED BY <1>4, <1>6, <1>7, <1>8 DEF SameNames, a, b, P, C

\* A round of the third loop.
LEMMA InitMethodFacts ==
  ASSUME NEW r \in Runtimes, NEW record \in MethodRecordSet, NEW s, s = InitMethod(r, record)
  PROVE  /\ s \in Runtimes /\ SameNames(r, s) /\ s.objects = r.objects
         /\ \A c \in DOMAIN r.classes :
              /\ s.classes[c].parent = r.classes[c].parent /\ s.classes[c].class = r.classes[c].class
              /\ s.classes[c].methods =
                   IF c = FindClass(r, record.class)
                     THEN <<[selector |-> record.selector, method |-> record.method]>> \o r.classes[c].methods
                     ELSE r.classes[c].methods
<1> DEFINE a == FindClass(r, record.class)
           M == <<[selector |-> record.selector, method |-> record.method]>> \o r.classes[a].methods
           L == [r.classes EXCEPT ![a].methods = M]
<1>1. s = [r EXCEPT !.used = r.used + DescSize, !.classes = L]
  BY DEF InitMethod, AddMethod, Malloc, Runtimes
<1>2. r.classes \in Seq(Descriptors) BY DEF Runtimes
<1>3. ASSUME NEW c \in DOMAIN r.classes
      PROVE  /\ L[c] \in Descriptors /\ L[c].parent = r.classes[c].parent /\ L[c].class = r.classes[c].class
             /\ L[c].name = r.classes[c].name /\ L[c].size = r.classes[c].size
             /\ L[c].methods = IF c = a THEN M ELSE r.classes[c].methods
  <2>1. r.classes[c] \in Descriptors BY <1>2, <1>3
  <2>2. CASE c # a
    <3>1. L[c] = r.classes[c] BY <1>2, <2>2
    <3> QED BY <2>1, <2>2, <3>1
  <2>3. CASE c = a
    <3>1. L[c] = [r.classes[c] EXCEPT !.methods = M] BY <1>2, <2>3
    <3>2. M \in Seq(MethodDescs)
      <4>1. r.classes[a].methods \in Seq(MethodDescs) BY <2>1, <2>3 DEF Descriptors
      <4>2. [selector |-> record.selector, method |-> record.method] \in MethodDescs
        BY DEF MethodDescs, MethodRecordSet
      <4> QED BY <4>1, <4>2
    <3> HIDE DEF M, L
    <3> QED BY <2>1, <2>3, <3>1, <3>2 DEF Descriptors
  <2> QED BY <2>2, <2>3
<1>4. DOMAIN L = DOMAIN r.classes OBVIOUS
<1> HIDE DEF L
<1>5. L \in Seq(Descriptors) /\ Len(L) = Len(r.classes)
  <2>1. L = [c \in 1 .. Len(r.classes) |-> L[c]]
    <3>1. L = [c \in DOMAIN L |-> L[c]] BY DEF L
    <3> QED BY ONLY <1>2, <1>4, <3>1
  <2>2. \A c \in 1 .. Len(r.classes) : L[c] \in Descriptors BY <1>2, <1>3
  <2> DEFINE N == [c \in 1 .. Len(r.classes) |-> L[c]]
  <2>3. N \in Seq(Descriptors) /\ Len(N) = Len(r.classes) BY <1>2, <2>2
  <2>4. L = N BY <2>1
  <2> QED BY ONLY <2>3, <2>4
<1>6. r.used + DescSize \in Nat BY CoRuntimeAssumption DEF Runtimes
<1>7. s \in Runtimes BY <1>1, <1>5, <1>6 DEF Runtimes
<1>8. s.classes = L /\ s.classList = r.classList /\ s.globals = r.globals /\ s.objects = r.objects
  BY <1>1 DEF Runtimes
<1> QED BY <1>3, <1>5, <1>7, <1>8 DEF SameNames

-----------------------------------------------------------------------------
(* What co_init has done after some rounds.                                *)

AllNames == Names \cup {"object", "Class"}
Global(r, name) == IF name \in Names THEN r.globals[name] ELSE NoClass

\* The class that findClass finds is the one in the global of that name.
Found(r) ==
  /\ r \in Runtimes
  /\ \A i \in DOMAIN r.classList : r.classList[i] \in DOMAIN r.classes
  /\ \A name \in AllNames : FindClass(r, name) = Global(r, name)
  /\ \A c \in DOMAIN r.classes : r.globals[r.classes[c].name] # NoClass
  /\ \A name \in Names : r.globals[name] # NoClass =>
       r.globals[name] \in DOMAIN r.classes /\ r.classes[r.globals[name]].name = name

LEMMA FoundStays ==
  ASSUME NEW r, Found(r), NEW s \in Runtimes, SameNames(r, s)
  PROVE  Found(s)
<1>1. r \in Runtimes BY DEF Found
<1>2. DOMAIN s.classes = DOMAIN r.classes BY <1>1 DEF Runtimes, SameNames
<1>3. \A name : FindClass(s, name) = FindClass(r, name) BY <1>1, FindsTheSame DEF Found
<1>4. \A name : Global(s, name) = Global(r, name) BY DEF Global, SameNames
<1> QED BY <1>2, <1>3, <1>4 DEF Found, SameNames

\* A new class is the one that is found: it is the first of the list.
LEMMA FindsTheNew ==
  ASSUME NEW r \in Runtimes, \A i \in DOMAIN r.classList : r.classList[i] \in DOMAIN r.classes,
         NEW record \in ClassRecordSet, NEW sought,
         NEW s, s = InitClass(r, record)
  PROVE  FindClass(s, sought) = IF sought = record.class THEN Len(r.classes) + 1 ELSE FindClass(r, sought)
<1> DEFINE k == Len(r.classes) + 1
           n == Len(r.classList)
           c == FindClass(s, sought)
           d == FindClass(r, sought)
<1> SUFFICES c = IF sought = record.class THEN k ELSE d OBVIOUS
<1>k. k = Len(r.classes) + 1 OBVIOUS
<1>n. n = Len(r.classList) OBVIOUS
<1>c. c = FindClass(s, sought) OBVIOUS
<1>d. d = FindClass(r, sought) OBVIOUS
<1> HIDE DEF k, n, c, d
<1>1. /\ s.classList = <<k>> \o r.classList /\ s \in Runtimes
      /\ s.classes = Append(r.classes, NewDescriptor(record))
  BY <1>k, InitClassFacts
<1>2. r.classes \in Seq(Descriptors) /\ r.classList \in Seq(Nat) /\ s.classList \in Seq(Nat) /\ k \in Nat
  BY <1>1, <1>k DEF Runtimes
<1>3. s.classes[k].name = record.class /\ \A j \in DOMAIN r.classes : s.classes[j] = r.classes[j]
  BY <1>1, <1>2, <1>k DEF NewDescriptor
<1>4. Len(s.classList) = n + 1 /\ s.classList[1] = k /\ \A i \in 1 .. n : s.classList[i + 1] = r.classList[i]
  <2>1. Len(s.classList) = Len(r.classList) + 1 /\ s.classList[1] = k
        /\ \A i \in 1 .. Len(r.classList) : s.classList[i + 1] = r.classList[i]
    BY ONLY <1>1, <1>2, ConsFacts
  <2> QED BY ONLY <2>1, <1>n
<1>5. \A i \in 1 .. n : s.classes[s.classList[i + 1]].name = r.classes[r.classList[i]].name
  <2> SUFFICES ASSUME NEW i \in 1 .. n
               PROVE  s.classes[s.classList[i + 1]].name = r.classes[r.classList[i]].name OBVIOUS
  <2>1. r.classList[i] \in DOMAIN r.classes BY <1>2, <1>n
  <2>2. s.classes[r.classList[i]] = r.classes[r.classList[i]] BY <1>3, <2>1
  <2>3. s.classList[i + 1] = r.classList[i] BY <1>4
  <2> QED BY ONLY <2>2, <2>3
<1>6. \/ c = NoClass /\ \A i \in 1 .. n + 1 : s.classes[s.classList[i]].name # sought
      \/ \E i \in 1 .. n + 1 : /\ c = s.classList[i] /\ s.classes[c].name = sought
                               /\ \A j \in 1 .. i - 1 : s.classes[s.classList[j]].name # sought
  <2>1. \/ /\ c = NoClass
           /\ \A i \in 1 .. Len(s.classList) : s.classes[s.classList[i]].name # sought
        \/ \E i \in 1 .. Len(s.classList) :
             /\ c = s.classList[i] /\ s.classes[c].name = sought
             /\ \A j \in 1 .. i - 1 : s.classes[s.classList[j]].name # sought
    <3>1. s.classList \in Seq(Nat) BY <1>2
    <3>2. IsFirst(s, sought, c) BY ONLY <3>1, <1>c, FindClassFacts
    <3> QED BY ONLY <3>2 DEF IsFirst
  <2>2. Len(s.classList) = n + 1 BY <1>4
  <2> QED BY ONLY <2>1, <2>2
<1>7. \/ d = NoClass /\ \A i \in 1 .. n : r.classes[r.classList[i]].name # sought
      \/ \E i \in 1 .. n : /\ d = r.classList[i] /\ r.classes[d].name = sought
                           /\ \A j \in 1 .. i - 1 : r.classes[r.classList[j]].name # sought
  <2>1. r.classList \in Seq(Nat) BY <1>2
  <2>2. IsFirst(r, sought, d) BY ONLY <2>1, <1>d, FindClassFacts
  <2> QED BY ONLY <2>2, <1>n DEF IsFirst
<1>8. n \in Nat BY <1>2, <1>n
<1>9. CASE sought = record.class
  <2>1. 1 \in 1 .. n + 1 /\ s.classes[s.classList[1]].name = sought BY <1>3, <1>4, <1>8, <1>9
  <2>2. PICK i \in 1 .. n + 1 : /\ c = s.classList[i]
                                /\ \A j \in 1 .. i - 1 : s.classes[s.classList[j]].name # sought
    BY <1>6, <2>1
  <2>3. i = 1 BY <1>8, <2>1, <2>2
  <2> QED BY <1>4, <1>9, <2>2, <2>3
<1>10. CASE sought # record.class
  <2>1. s.classes[s.classList[1]].name # sought BY <1>3, <1>4, <1>10
  <2>2. CASE d = NoClass /\ \A i \in 1 .. n : r.classes[r.classList[i]].name # sought
    <3>1. ASSUME NEW i \in 1 .. n + 1 PROVE s.classes[s.classList[i]].name # sought
      <4>1. CASE i = 1 BY <2>1, <4>1
      <4>2. CASE i # 1
        <5>1. i - 1 \in 1 .. n /\ (i - 1) + 1 = i BY <1>8, <4>2
        <5> QED BY <1>5, <2>2, <5>1
      <4> QED BY <4>1, <4>2
    <3>2. c = NoClass BY <1>6, <3>1
    <3> QED BY <1>10, <2>2, <3>2
  <2>3. ASSUME NEW i \in 1 .. n, d = r.classList[i], r.classes[d].name = sought,
               \A j \in 1 .. i - 1 : r.classes[r.classList[j]].name # sought
        PROVE  c = d
    <3>1. i + 1 \in 1 .. n + 1 /\ s.classes[s.classList[i + 1]].name = sought
      BY <1>5, <1>8, <2>3
    <3>2. PICK m \in 1 .. n + 1 : /\ c = s.classList[m] /\ s.classes[c].name = sought
                                  /\ \A j \in 1 .. m - 1 : s.classes[s.classList[j]].name # sought
      BY <1>6, <3>1
    <3>3. m # 1 BY <2>1, <3>2
    <3>4. m - 1 \in 1 .. n /\ (m - 1) + 1 = m BY <1>8, <3>3
    <3>5. s.classList[m] = r.classList[m - 1] /\ s.classes[s.classList[m]].name = r.classes[r.classList[m - 1]].name
      BY <1>4, <1>5, <3>4
    <3>9. c = r.classList[m - 1] /\ r.classes[r.classList[m - 1]].name = sought
      BY ONLY <3>2, <3>5
    <3>6. ~(m - 1 < i) BY ONLY <1>8, <2>3, <3>4, <3>9
    <3>7. ~(i < m - 1)
      <4> SUFFICES ASSUME i < m - 1 PROVE FALSE OBVIOUS
      <4>1. i + 1 \in 1 .. m - 1 BY <1>8
      <4> QED BY <3>1, <3>2, <4>1
    <3>8. i = m - 1 BY <1>8, <3>6, <3>7
    <3> QED BY ONLY <2>3, <3>9, <3>8
  <2> QED BY <1>7, <1>10, <2>2, <2>3
<1> QED BY <1>9, <1>10

LEMMA FoundCreated ==
  ASSUME NEW r, Found(r), NEW record \in ClassRecordSet,
         NEW s, s = InitClass(r, record), NEW k, k = Len(r.classes) + 1
  PROVE  Found(s)
<1>1. /\ s \in Runtimes /\ s.classList = <<k>> \o r.classList
      /\ s.classes = Append(r.classes, NewDescriptor(record))
      /\ s.globals = [r.globals EXCEPT ![record.class] = k]
  BY InitClassFacts DEF Found
<1>2. /\ r.classes \in Seq(Descriptors) /\ r.classList \in Seq(Nat) /\ r.globals \in [Names -> Nat]
      /\ k \in Nat /\ k # NoClass
  BY DEF Found, Runtimes, NoClass
<1>3. record.class \in Names BY DEF ClassRecordSet
<1>4. /\ s.classes[k].name = record.class /\ \A c \in DOMAIN r.classes : s.classes[c] = r.classes[c]
      /\ DOMAIN s.classes = DOMAIN r.classes \cup {k}
  BY <1>1, <1>2 DEF NewDescriptor
<1>5. \A i \in DOMAIN s.classList : s.classList[i] \in DOMAIN s.classes
  <2> SUFFICES ASSUME NEW i \in DOMAIN s.classList PROVE s.classList[i] \in DOMAIN s.classes OBVIOUS
  <2>1. (i = 1 /\ s.classList[i] = k) \/ (i - 1 \in DOMAIN r.classList /\ s.classList[i] = r.classList[i - 1])
    <3> DEFINE t == s.classList
               q == r.classList
    <3>1. \A j \in 1 .. Len(t) : j # 1 => j - 1 \in 1 .. Len(q) /\ t[j] = q[j - 1]
      BY ONLY <1>1, <1>2, ConsFacts
    <3>2. t[1] = k BY ONLY <1>1, <1>2, ConsFacts
    <3>3. t \in Seq(Nat) BY <1>1 DEF Runtimes
    <3>4. i \in 1 .. Len(t) BY <3>3
    <3>5. DOMAIN q = 1 .. Len(q) BY <1>2
    <3> HIDE DEF t, q
    <3> SUFFICES (i = 1 /\ t[i] = k) \/ (i - 1 \in DOMAIN q /\ t[i] = q[i - 1]) BY DEF t, q
    <3> QED BY ONLY <3>1, <3>2, <3>4, <3>5
  <2> QED BY <1>4, <2>1 DEF Found
<1>6. ASSUME NEW name \in Names
      PROVE  s.globals[name] = IF name = record.class THEN k ELSE r.globals[name]
  BY <1>1, <1>2
<1>7. \A name \in AllNames : FindClass(s, name) = Global(s, name)
  <2> SUFFICES ASSUME NEW name \in AllNames PROVE FindClass(s, name) = Global(s, name) OBVIOUS
  <2>1. FindClass(s, name) = IF name = record.class THEN k ELSE FindClass(r, name)
    <3>1. r \in Runtimes /\ \A i \in DOMAIN r.classList : r.classList[i] \in DOMAIN r.classes BY DEF Found
    <3> QED BY ONLY <3>1, FindsTheNew, record \in ClassRecordSet, s = InitClass(r, record), k = Len(r.classes) + 1
  <2>2. FindClass(r, name) = Global(r, name) BY DEF Found
  <2> QED BY <1>3, <1>6, <2>1, <2>2 DEF Global
<1>8. ASSUME NEW c \in DOMAIN s.classes PROVE s.globals[s.classes[c].name] # NoClass
  <2>1. CASE c = k BY <1>2, <1>3, <1>4, <1>6, <2>1
  <2>2. CASE c \in DOMAIN r.classes
    <3>1. s.classes[c].name = r.classes[c].name /\ r.classes[c].name \in Names
      <4>1. r.classes[c] \in Descriptors BY <1>2, <2>2
      <4>2. r.classes[c].name \in Names BY <4>1 DEF Descriptors
      <4> QED BY <1>4, <2>2, <4>2
    <3>2. r.globals[r.classes[c].name] # NoClass BY <2>2 DEF Found
    <3> QED BY ONLY <1>2, <1>6, <3>1, <3>2
  <2> QED BY <1>4, <2>1, <2>2
<1>9. ASSUME NEW name \in Names, s.globals[name] # NoClass
      PROVE  s.globals[name] \in DOMAIN s.classes /\ s.classes[s.globals[name]].name = name
  BY <1>4, <1>6, <1>9 DEF Found
<1> QED BY <1>1, <1>5, <1>7, <1>8, <1>9 DEF Found

-----------------------------------------------------------------------------
(* Walks: from each element to the next, up to one of those to stop at.    *)

IsWalk(f, S, stop, next) == f = [x \in S |-> IF x \in stop THEN x ELSE f[next[x]]]

Descends(S, stop, next, rank) ==
  /\ rank \in [S -> Nat]
  /\ \A x \in S \ stop : next[x] \in S /\ rank[next[x]] < rank[x]

LEMMA WalkExists ==
  ASSUME NEW S, NEW stop, NEW next, NEW rank, Descends(S, stop, next, rank)
  PROVE  \E f : IsWalk(f, S, stop, next)
<1> DEFINE T == [S -> S]
           Step(n, g) == [x \in S |-> IF x \in S \ stop /\ rank[next[x]] < n
                                        THEN g[rank[next[x]]][next[x]] ELSE x]
           step == [n \in Nat |-> [g \in [Nat -> T] |-> Step(n, g)]]
<1>1. T # {}
  <2>1. [x \in S |-> x] \in T OBVIOUS
  <2> QED BY <2>1
<1>2. ASSUME NEW n \in Nat, NEW g \in [Nat -> T] PROVE Step(n, g) \in T
  <2> SUFFICES ASSUME NEW x \in S, x \in S \ stop, rank[next[x]] < n
               PROVE  g[rank[next[x]]][next[x]] \in S
    OBVIOUS
  <2>1. next[x] \in S /\ rank[next[x]] \in Nat BY DEF Descends
  <2>2. g[rank[next[x]]] \in T BY <2>1
  <2> QED BY <2>1, <2>2
<1>3. step \in [Nat -> [[Nat -> T] -> T]] BY <1>2
<1>4. ASSUME NEW n \in Nat, NEW g \in [Nat -> T], NEW h \in [Nat -> T],
             \A i \in 0 .. n - 1 : g[i] = h[i]
      PROVE  step[n][g] = step[n][h]
  <2>1. ASSUME NEW x \in S
        PROVE  (IF x \in S \ stop /\ rank[next[x]] < n THEN g[rank[next[x]]][next[x]] ELSE x)
                 = (IF x \in S \ stop /\ rank[next[x]] < n THEN h[rank[next[x]]][next[x]] ELSE x)
    <3>1. CASE x \in S \ stop /\ rank[next[x]] < n
      <4>1. rank[next[x]] \in 0 .. n - 1 BY <3>1 DEF Descends
      <4> QED BY <1>4, <4>1
    <3> QED BY <3>1
  <2>2. Step(n, g) = Step(n, h) BY <2>1
  <2> QED BY <2>2
<1> HIDE DEF T, step
<1>5. IsStep(step, T) BY <1>3, <1>4 DEF IsStep
<1>6. PICK G : IsSolution(G, step, T) BY <1>1, <1>5, RecursionExists
<1> DEFINE f == [x \in S |-> G[rank[x]][x]]
<1>7. ASSUME NEW x \in S
      PROVE  G[rank[x]][x] = IF x \in stop THEN x ELSE f[next[x]]
  <2>1. rank[x] \in Nat BY DEF Descends
  <2>2. G \in [Nat -> T] /\ G[rank[x]] = step[rank[x]][G] BY <1>6, <2>1 DEF IsSolution
  <2>3. G[rank[x]] = Step(rank[x], G) BY <2>1, <2>2 DEF step
  <2>4. x \notin stop => next[x] \in S /\ rank[next[x]] < rank[x] BY DEF Descends
  <2>5. G[rank[x]][x] = IF x \in S \ stop /\ rank[next[x]] < rank[x]
                          THEN G[rank[next[x]]][next[x]] ELSE x
    BY <2>3
  <2> QED BY <2>4, <2>5
<1>8. f = [x \in S |-> IF x \in stop THEN x ELSE f[next[x]]] BY <1>7
<1> HIDE DEF f
<1> QED BY <1>8 DEF IsWalk

\* A walk ends at one of those to stop at, and never leaves a set closed under
\* its steps.
LEMMA WalkStays ==
  ASSUME NEW S, NEW stop, NEW next, NEW rank, Descends(S, stop, next, rank),
         NEW f, IsWalk(f, S, stop, next),
         NEW T \in SUBSET S, \A x \in T \ stop : next[x] \in T
  PROVE  \A x \in T : f[x] \in T \cap stop
<1> DEFINE Bad == {rank[x] : x \in {x \in T : f[x] \notin T \cap stop}}
<1> SUFFICES ASSUME Bad # {} PROVE FALSE OBVIOUS
<1>1. Bad \in SUBSET Nat BY DEF Descends
<1>2. PICK n \in Bad : \A m \in Bad : n <= m BY <1>1, NatLeast
<1>3. PICK x \in T : f[x] \notin T \cap stop /\ n = rank[x] BY <1>2
<1>4. f[x] = IF x \in stop THEN x ELSE f[next[x]] BY DEF IsWalk
<1>5. x \notin stop BY <1>3, <1>4
<1>6. next[x] \in T /\ rank[next[x]] < rank[x] BY <1>5 DEF Descends
<1>7. rank[next[x]] \in Bad BY <1>3, <1>4, <1>5, <1>6
<1>8. rank[next[x]] \in Nat /\ rank[x] \in Nat BY <1>6 DEF Descends
<1> QED BY <1>2, <1>3, <1>6, <1>7, <1>8

\* Two walks in step end in step.
LEMMA WalksAgree ==
  ASSUME NEW S, NEW stop, NEW next, NEW rank, Descends(S, stop, next, rank),
         NEW f, IsWalk(f, S, stop, next),
         NEW Z, NEW halt, NEW jump, NEW g, IsWalk(g, Z, halt, jump),
         NEW h \in [S -> Z], \A x \in S : h[x] \in halt <=> x \in stop,
         \A x \in S \ stop : jump[h[x]] = h[next[x]]
  PROVE  \A x \in S : g[h[x]] = h[f[x]]
<1> DEFINE Bad == {rank[x] : x \in {x \in S : g[h[x]] # h[f[x]]}}
<1> SUFFICES ASSUME Bad # {} PROVE FALSE OBVIOUS
<1>1. Bad \in SUBSET Nat BY DEF Descends
<1>2. PICK n \in Bad : \A m \in Bad : n <= m BY <1>1, NatLeast
<1>3. PICK x \in S : g[h[x]] # h[f[x]] /\ n = rank[x] BY <1>2
<1>4. f[x] = IF x \in stop THEN x ELSE f[next[x]] BY DEF IsWalk
<1>5. g[h[x]] = IF h[x] \in halt THEN h[x] ELSE g[jump[h[x]]] BY DEF IsWalk
<1>6. x \notin stop BY <1>3, <1>4, <1>5
<1>7. next[x] \in S /\ rank[next[x]] < rank[x] BY <1>6 DEF Descends
<1>8. g[h[next[x]]] # h[f[next[x]]] BY <1>3, <1>4, <1>5, <1>6
<1>9. rank[next[x]] \in Bad BY <1>7, <1>8
<1>10. rank[next[x]] \in Nat /\ rank[x] \in Nat BY <1>7 DEF Descends
<1> QED BY <1>2, <1>3, <1>7, <1>9, <1>10

-----------------------------------------------------------------------------
(* The program that is linked: its classes with their superclasses, its    *)
(* methods, and the records the files carry of both.                       *)

Sound(h) ==
  /\ h.classes \subseteq Names /\ "object" \notin Names
  /\ h.up \in [h.classes -> h.classes \cup {"object"}]
  /\ \A N \in h.classes : h.up[N] # "Class" /\ "Class" \in h.classes
  /\ \E rank \in [h.classes -> Nat] : \A N \in h.classes : h.up[N] \in h.classes => rank[h.up[N]] < rank[N]
  /\ h.records \subseteq ClassRecordSet
  /\ \A record \in h.records : record.class \in h.classes /\ record.superclass = h.up[record.class]
  /\ \A N \in h.classes : \E record \in h.records : record.class = N
  /\ h.methodRecords \subseteq MethodRecordSet
  /\ \A record \in h.methodRecords :
       record.class \in h.classes /\ record.method = MethodId(record) /\ record.method \in h.methods
  /\ \A m \in h.methods :
       /\ m.class \in h.classes /\ m = MethodId(m)
       /\ \E record \in h.methodRecords : record.method = m

\* What is true of a class at any time: it has no parent yet or the right one,
\* and no methods but its own.
Table(r, h, c) ==
  LET d == r.classes[c]
  IN /\ d.name \in h.classes
     /\ d.parent \in {NoClass, IF c = r.globals[d.name] THEN Global(r, h.up[d.name]) ELSE NoClass}
     /\ \E record \in h.records : record.class = d.name /\ record.size = d.size
     /\ \A j \in 1 .. Len(d.methods) :
          /\ d.methods[j].method = [class |-> d.name, selector |-> d.methods[j].selector]
          /\ d.methods[j].method \in h.methods

Tables(r, h) == Found(r) /\ \A c \in DOMAIN r.classes : Table(r, h, c)

Fresh(r) == \A c \in DOMAIN r.classes : r.classes[c].parent = NoClass /\ r.classes[c].methods = <<>>
Joined(r, h, N) ==
  /\ r.classes[r.globals[N]].parent = Global(r, h.up[N])
  /\ r.classes[r.globals[N]].class = r.globals["Class"]
Has(r, N, selector) ==
  \E j \in 1 .. Len(r.classes[r.globals[N]].methods) :
    r.classes[r.globals[N]].methods[j].selector = selector

\* The loops of co_init with some records of classes, of parents and of methods
\* still to come.
Loading(r, h, rc, rp, rm) ==
  /\ Tables(r, h)
  /\ rc # {} => Fresh(r) /\ rp = h.records /\ rm = h.methodRecords
  /\ \A record \in h.records : record \in rc \/ r.globals[record.class] # NoClass
  /\ \A record \in h.records : record \in rp \/ Joined(r, h, record.class)
  /\ \A record \in h.methodRecords : record \in rm \/ Has(r, record.class, record.selector)

LEMMA LoadClass ==
  ASSUME NEW h, Sound(h), NEW r, NEW rc, NEW rp, NEW rm, Loading(r, h, rc, rp, rm),
         NEW record \in h.records, record \in rc, NEW rd, rd \subseteq rc, rc \subseteq rd \cup {record},
         NEW s, s = InitClass(r, record)
  PROVE  Loading(s, h, rd, rp, rm)
<1> DEFINE k == Len(r.classes) + 1
<1>1. /\ r \in Runtimes /\ Found(r) /\ Fresh(r) /\ rp = h.records /\ rm = h.methodRecords
      /\ \A c \in DOMAIN r.classes : Table(r, h, c)
  BY DEF Loading, Tables, Found
<1>2. record \in ClassRecordSet /\ record.class \in Names BY DEF Sound, ClassRecordSet
<1>3. Found(s) BY <1>1, <1>2, FoundCreated
<1>4. /\ s \in Runtimes /\ s.classes = Append(r.classes, NewDescriptor(record))
      /\ s.globals = [r.globals EXCEPT ![record.class] = k]
  BY <1>1, <1>2, InitClassFacts
<1>5. r.classes \in Seq(Descriptors) /\ r.globals \in [Names -> Nat] /\ k # NoClass
  BY <1>1 DEF Runtimes, NoClass
<1> HIDE DEF k
<1>6. /\ \A c \in DOMAIN r.classes : s.classes[c] = r.classes[c]
      /\ DOMAIN s.classes = DOMAIN r.classes \cup {k} /\ s.classes[k] = NewDescriptor(record)
  BY <1>4, <1>5 DEF k
<1>7. \A c \in DOMAIN s.classes : s.classes[c].parent = NoClass /\ s.classes[c].methods = <<>>
  BY <1>1, <1>6 DEF Fresh, NewDescriptor
<1>8. ASSUME NEW c \in DOMAIN s.classes
      PROVE  /\ s.classes[c].name \in h.classes
             /\ \E rec \in h.records : rec.class = s.classes[c].name /\ rec.size = s.classes[c].size
  <2>1. CASE c = k
    <3>1. s.classes[c].name = record.class /\ s.classes[c].size = record.size
      BY <1>6, <2>1 DEF NewDescriptor
    <3>2. record.class \in h.classes BY DEF Sound
    <3> QED BY <3>1, <3>2
  <2>2. CASE c \in DOMAIN r.classes BY <1>1, <1>6, <2>2 DEF Table
  <2> QED BY <1>6, <2>1, <2>2
<1>9. ASSUME NEW c \in DOMAIN s.classes PROVE Table(s, h, c)
  <2>1. s.classes[c].parent = NoClass /\ s.classes[c].methods = <<>> BY <1>7
  <2> QED BY <1>8, <2>1 DEF Table
<1>10. ASSUME NEW rec \in h.records PROVE rec \in rd \/ s.globals[rec.class] # NoClass
  <2>1. rec.class \in Names BY DEF Sound
  <2>2. s.globals[rec.class] = IF rec.class = record.class THEN k ELSE r.globals[rec.class]
    BY <1>4, <1>5, <2>1
  <2>3. rec \in rc \/ r.globals[rec.class] # NoClass BY DEF Loading
  <2> QED BY <1>5, <2>2, <2>3
<1> QED BY <1>1, <1>3, <1>7, <1>9, <1>10 DEF Loading, Tables, Fresh

LEMMA LoadParent ==
  ASSUME NEW h, Sound(h), NEW r, NEW rp, NEW rm, Loading(r, h, {}, rp, rm),
         NEW record \in h.records, NEW rq, rp \subseteq rq \cup {record},
         NEW s, s = InitParent(r, record)
  PROVE  Loading(s, h, {}, rq, rm)
<1>1. r \in Runtimes /\ Found(r) /\ \A c \in DOMAIN r.classes : Table(r, h, c)
  BY DEF Loading, Tables, Found
<1>2. /\ record \in ClassRecordSet /\ record.class \in Names /\ record.class \in h.classes
      /\ record.superclass = h.up[record.class] /\ "Class" \in Names
      /\ record.superclass \in AllNames
  BY DEF Sound, ClassRecordSet, AllNames
<1>3. /\ FindClass(r, record.class) = r.globals[record.class]
      /\ FindClass(r, record.superclass) = Global(r, h.up[record.class])
      /\ FindClass(r, "Class") = r.globals["Class"]
  BY <1>1, <1>2 DEF Found, Global, AllNames
<1>4. /\ s \in Runtimes /\ SameNames(r, s)
      /\ \A c \in DOMAIN r.classes :
           /\ s.classes[c].methods = r.classes[c].methods
           /\ s.classes[c].parent = IF c = r.globals[record.class]
                                      THEN Global(r, h.up[record.class]) ELSE r.classes[c].parent
           /\ s.classes[c].class = IF c = r.globals[record.class]
                                     THEN r.globals["Class"] ELSE r.classes[c].class
  BY ONLY <1>1, <1>2, <1>3, InitParentFacts, s = InitParent(r, record)
<1>5. Found(s) BY <1>1, <1>4, FoundStays
<1>6. /\ DOMAIN s.classes = DOMAIN r.classes /\ s.globals = r.globals
      /\ \A name : Global(s, name) = Global(r, name)
      /\ \A c \in DOMAIN r.classes : s.classes[c].name = r.classes[c].name /\ s.classes[c].size = r.classes[c].size
  BY <1>1, <1>4 DEF Runtimes, SameNames, Global
<1>7. \A rec \in h.records : r.globals[rec.class] \in DOMAIN r.classes
                             /\ r.classes[r.globals[rec.class]].name = rec.class
  <2> SUFFICES ASSUME NEW rec \in h.records
               PROVE  r.globals[rec.class] \in DOMAIN r.classes
                        /\ r.classes[r.globals[rec.class]].name = rec.class
    OBVIOUS
  <2>1. r.globals[rec.class] # NoClass BY DEF Loading
  <2>2. rec.class \in Names BY DEF Sound
  <2> QED BY <1>1, <2>1, <2>2 DEF Found
<1>8. ASSUME NEW c \in DOMAIN s.classes PROVE Table(s, h, c)
  <2>1. Table(r, h, c) BY <1>1, <1>6
  <2>2. c = r.globals[record.class] => r.classes[c].name = record.class BY <1>7
  <2>3. s.classes[c].parent \in {NoClass, IF c = s.globals[s.classes[c].name]
                                            THEN Global(s, h.up[s.classes[c].name]) ELSE NoClass}
    <3>1. CASE c = r.globals[record.class]
      <4>1. s.classes[c].name = record.class /\ c = s.globals[record.class] BY <1>6, <2>2, <3>1
      <4>2. s.classes[c].parent = Global(s, h.up[record.class]) BY <1>4, <1>6, <3>1
      <4> QED BY ONLY <4>1, <4>2
    <3>2. CASE c # r.globals[record.class] BY <1>4, <1>6, <2>1, <3>2 DEF Table
    <3> QED BY <3>1, <3>2
  <2>4. s.classes[c].methods = r.classes[c].methods BY <1>4, <1>6
  <2> QED BY <1>6, <2>1, <2>3, <2>4 DEF Table
<1>9. ASSUME NEW rec \in h.records PROVE rec \in rq \/ Joined(s, h, rec.class)
  <2>1. CASE rec.class = record.class BY <1>4, <1>6, <1>7, <2>1 DEF Joined
  <2>2. CASE rec.class # record.class
    <3>1. r.globals[rec.class] # r.globals[record.class] BY <1>7, <2>2
    <3>2. rec \in rp \/ Joined(r, h, rec.class) BY DEF Loading
    <3> QED BY <1>4, <1>6, <1>7, <2>2, <3>1, <3>2 DEF Joined
  <2> QED BY <2>1, <2>2
<1>10. \A rec \in h.records : s.globals[rec.class] # NoClass BY <1>6 DEF Loading
<1>11. ASSUME NEW rec \in h.methodRecords PROVE rec \in rm \/ Has(s, rec.class, rec.selector)
  <2>1. rec.class \in h.classes BY DEF Sound
  <2>2. PICK rec2 \in h.records : rec2.class = rec.class BY <2>1 DEF Sound
  <2>3. r.globals[rec.class] \in DOMAIN r.classes BY <1>7, <2>2
  <2>4. rec \in rm \/ Has(r, rec.class, rec.selector) BY DEF Loading
  <2>5. s.classes[s.globals[rec.class]].methods = r.classes[r.globals[rec.class]].methods
    BY <1>4, <1>6, <2>3
  <2> QED BY <2>4, <2>5 DEF Has
<1> QED BY <1>5, <1>8, <1>9, <1>10, <1>11 DEF Loading, Tables

LEMMA LoadMethod ==
  ASSUME NEW h, Sound(h), NEW r, NEW rm, Loading(r, h, {}, {}, rm),
         NEW record \in h.methodRecords, NEW rn, rm \subseteq rn \cup {record},
         NEW s, s = InitMethod(r, record)
  PROVE  Loading(s, h, {}, {}, rn)
<1> DEFINE a == r.globals[record.class]
           desc == [selector |-> record.selector, method |-> record.method]
<1>1. r \in Runtimes /\ Found(r) /\ \A c \in DOMAIN r.classes : Table(r, h, c)
  BY DEF Loading, Tables, Found
<1>2. /\ record \in MethodRecordSet /\ record.class \in Names /\ record.class \in h.classes
      /\ record.class \in AllNames /\ record.method \in h.methods
      /\ record.method = [class |-> record.class, selector |-> record.selector]
  BY DEF Sound, MethodRecordSet, AllNames, MethodId
<1>3. FindClass(r, record.class) = a BY <1>1, <1>2 DEF Found, Global
<1> HIDE DEF a, desc
<1>4. /\ s \in Runtimes /\ SameNames(r, s)
      /\ \A c \in DOMAIN r.classes :
           /\ s.classes[c].parent = r.classes[c].parent /\ s.classes[c].class = r.classes[c].class
           /\ s.classes[c].methods = IF c = a THEN <<desc>> \o r.classes[c].methods ELSE r.classes[c].methods
  <2> USE DEF desc
  <2> QED BY ONLY <1>1, <1>2, <1>3, InitMethodFacts, s = InitMethod(r, record)
<1>5. Found(s) BY <1>1, <1>4, FoundStays
<1>6. /\ DOMAIN s.classes = DOMAIN r.classes /\ s.globals = r.globals
      /\ \A name : Global(s, name) = Global(r, name)
      /\ \A c \in DOMAIN r.classes : s.classes[c].name = r.classes[c].name /\ s.classes[c].size = r.classes[c].size
  BY <1>1, <1>4 DEF Runtimes, SameNames, Global
<1>7. ASSUME NEW N \in h.classes
      PROVE  r.globals[N] \in DOMAIN r.classes /\ r.classes[r.globals[N]].name = N
  <2>1. PICK rec \in h.records : rec.class = N BY DEF Sound
  <2>2. r.globals[N] # NoClass BY <2>1 DEF Loading
  <2>3. N \in Names BY DEF Sound
  <2> QED BY <1>1, <2>2, <2>3 DEF Found
<1>8. a \in DOMAIN r.classes /\ r.classes[a].name = record.class BY <1>2, <1>7 DEF a
<1>9. ASSUME NEW c \in DOMAIN r.classes
      PROVE  r.classes[c].methods \in Seq(MethodDescs)
  <2>1. r.classes[c] \in Descriptors BY <1>1 DEF Runtimes
  <2> QED BY <2>1 DEF Descriptors
<1>10. desc \in MethodDescs BY <1>2 DEF desc, MethodDescs, MethodRecordSet
<1>11. /\ s.classes[a].methods[1] = desc /\ 1 \in 1 .. Len(s.classes[a].methods)
       /\ \A j \in 1 .. Len(r.classes[a].methods) :
            j + 1 \in 1 .. Len(s.classes[a].methods) /\ s.classes[a].methods[j + 1] = r.classes[a].methods[j]
       /\ \A j \in 1 .. Len(s.classes[a].methods) : j # 1 =>
            j - 1 \in 1 .. Len(r.classes[a].methods) /\ s.classes[a].methods[j] = r.classes[a].methods[j - 1]
  <2> DEFINE t == s.classes[a].methods
             q == r.classes[a].methods
  <2>1. t = <<desc>> \o q BY <1>4, <1>8
  <2>2. q \in Seq(MethodDescs) BY <1>8, <1>9
  <2> HIDE DEF t, q
  <2>3. /\ t[1] = desc /\ Len(t) = Len(q) + 1
        /\ \A j \in 1 .. Len(q) : j + 1 \in 1 .. Len(t) /\ t[j + 1] = q[j]
        /\ \A j \in 1 .. Len(t) : j # 1 => j - 1 \in 1 .. Len(q) /\ t[j] = q[j - 1]
    BY ONLY <1>10, <2>1, <2>2, ConsFacts
  <2>4. Len(q) \in Nat BY <2>2
  <2>5. 1 \in 1 .. Len(t) BY <2>3, <2>4
  <2> QED BY <2>3, <2>5 DEF t, q
<1>12. ASSUME NEW c \in DOMAIN r.classes, NEW j \in 1 .. Len(s.classes[c].methods)
       PROVE  /\ s.classes[c].methods[j].method = [class |-> s.classes[c].name,
                                                    selector |-> s.classes[c].methods[j].selector]
              /\ s.classes[c].methods[j].method \in h.methods
  <2>0. Table(r, h, c) BY <1>1
  <2>1. CASE c = a
    <3>1. CASE j = 1 BY <1>2, <1>6, <1>8, <1>11, <2>1, <3>1 DEF desc
    <3>2. CASE j # 1
      <4>1. j - 1 \in 1 .. Len(r.classes[c].methods) /\ s.classes[c].methods[j] = r.classes[c].methods[j - 1]
        BY <1>11, <2>1, <3>2
      <4> QED BY <1>6, <2>0, <4>1 DEF Table
    <3> QED BY <3>1, <3>2
  <2>2. CASE c # a
    <3>1. s.classes[c].methods = r.classes[c].methods BY <1>4, <2>2
    <3> QED BY <1>6, <2>0, <3>1 DEF Table
  <2> QED BY <2>1, <2>2
<1>13. ASSUME NEW c \in DOMAIN s.classes PROVE Table(s, h, c)
  <2>1. Table(r, h, c) BY <1>1, <1>6
  <2>2. c \in DOMAIN r.classes BY <1>6
  <2> QED BY ONLY <1>4, <1>6, <1>12, <2>1, <2>2 DEF Table
<1>14. ASSUME NEW rec \in h.records PROVE Joined(s, h, rec.class)
  <2>1. Joined(r, h, rec.class) BY DEF Loading
  <2>2. rec.class \in h.classes BY DEF Sound
  <2> QED BY <1>4, <1>6, <1>7, <2>1, <2>2 DEF Joined
<1>15. \A rec \in h.records : s.globals[rec.class] # NoClass BY <1>6 DEF Loading
<1>16. ASSUME NEW rec \in h.methodRecords PROVE rec \in rn \/ Has(s, rec.class, rec.selector)
  <2>0. rec.class \in h.classes BY DEF Sound
  <2>1. CASE rec = record
    <3>1. s.classes[a].methods[1].selector = rec.selector BY <1>11, <2>1 DEF desc
    <3>2. s.globals[rec.class] = a BY <1>6, <2>1 DEF a
    <3> QED BY <1>11, <3>1, <3>2 DEF Has
  <2>2. CASE rec # record
    <3>1. rec \in rm \/ Has(r, rec.class, rec.selector) BY DEF Loading
    <3>2. CASE Has(r, rec.class, rec.selector) /\ r.globals[rec.class] = a
      <4>1. PICK j \in 1 .. Len(r.classes[a].methods) : r.classes[a].methods[j].selector = rec.selector
        BY <3>2 DEF Has
      <4>2. s.globals[rec.class] = a BY <1>6, <3>2
      <4>3. j + 1 \in 1 .. Len(s.classes[a].methods) /\ s.classes[a].methods[j + 1].selector = rec.selector
        BY <1>11, <4>1
      <4> QED BY <4>2, <4>3 DEF Has
    <3>3. CASE Has(r, rec.class, rec.selector) /\ r.globals[rec.class] # a
      <4>1. s.classes[s.globals[rec.class]].methods = r.classes[r.globals[rec.class]].methods
        BY <1>4, <1>6, <1>7, <2>0, <3>3
      <4> QED BY <3>3, <4>1 DEF Has
    <3> QED BY <2>2, <3>1, <3>2, <3>3
  <2> QED BY <2>1, <2>2
<1> QED BY <1>5, <1>13, <1>14, <1>15, <1>16 DEF Loading, Tables

\* When the loops are done: the tables are those of the program.
Ready(r, h) ==
  /\ Tables(r, h)
  /\ \A N \in h.classes :
       /\ r.globals[N] \in DOMAIN r.classes /\ r.classes[r.globals[N]].name = N
       /\ Joined(r, h, N)
       /\ \A selector : Has(r, N, selector) <=> [class |-> N, selector |-> selector] \in h.methods

LEMMA LoadedReady ==
  ASSUME NEW h, Sound(h), NEW r, Loading(r, h, {}, {}, {})
  PROVE  Ready(r, h)
<1> SUFFICES ASSUME NEW N \in h.classes
             PROVE  /\ r.globals[N] \in DOMAIN r.classes /\ r.classes[r.globals[N]].name = N
                    /\ Joined(r, h, N)
                    /\ \A selector : Has(r, N, selector) <=> [class |-> N, selector |-> selector] \in h.methods
  BY DEF Ready, Loading
<1>1. PICK rec \in h.records : rec.class = N BY DEF Sound
<1>2. r.globals[N] # NoClass /\ Joined(r, h, N) BY <1>1 DEF Loading
<1>3. N \in Names BY DEF Sound
<1>4. r.globals[N] \in DOMAIN r.classes /\ r.classes[r.globals[N]].name = N
  BY <1>2, <1>3 DEF Loading, Tables, Found
<1>5. ASSUME NEW selector, Has(r, N, selector) PROVE [class |-> N, selector |-> selector] \in h.methods
  <2>1. Table(r, h, r.globals[N]) BY <1>4 DEF Loading, Tables
  <2> QED BY <1>4, <1>5, <2>1 DEF Has, Table
<1>6. ASSUME NEW selector, [class |-> N, selector |-> selector] \in h.methods PROVE Has(r, N, selector)
  <2> DEFINE m == [class |-> N, selector |-> selector]
  <2>1. PICK record \in h.methodRecords : record.method = m BY <1>6 DEF Sound
  <2>2. record.method = MethodId(record) /\ Has(r, record.class, record.selector)
    BY DEF Sound, Loading
  <2>3. record.class = N /\ record.selector = selector BY <2>1, <2>2 DEF MethodId
  <2> QED BY <2>2, <2>3
<1> QED BY <1>2, <1>4, <1>5, <1>6

-----------------------------------------------------------------------------
(* Lookup finds what is nearest.                                           *)

Hierarchy(h) == h.classes \cup {"object"}
Stops(h, selector) == {"object"} \cup {N \in h.classes : [class |-> N, selector |-> selector] \in h.methods}
NearestWalk(h, selector) == CHOOSE f : IsWalk(f, Hierarchy(h), Stops(h, selector), h.up)
NearestIn(h, start, selector) == NearestWalk(h, selector)[start]

\* The superclasses of a class, itself included.
Ancestors(h, N) ==
  {A \in h.classes : \A T \in SUBSET h.classes :
     (N \in T /\ \A B \in T : h.up[B] \in h.classes => h.up[B] \in T) => A \in T}

LEMMA AncestorsFacts ==
  ASSUME NEW h, Sound(h), NEW N \in h.classes
  PROVE  /\ Ancestors(h, N) \subseteq h.classes /\ N \in Ancestors(h, N)
         /\ \A A \in Ancestors(h, N) : h.up[A] \in h.classes => h.up[A] \in Ancestors(h, N)
         /\ \A A \in Ancestors(h, N) : Ancestors(h, A) \subseteq Ancestors(h, N)
         /\ N # "Class" => "Class" \notin Ancestors(h, N)
<1>1. Ancestors(h, N) \subseteq h.classes /\ N \in Ancestors(h, N) BY DEF Ancestors
<1>2. \A A \in Ancestors(h, N) : h.up[A] \in h.classes => h.up[A] \in Ancestors(h, N)
  BY DEF Ancestors
<1>3. ASSUME NEW A \in Ancestors(h, N), NEW B \in Ancestors(h, A) PROVE B \in Ancestors(h, N)
  <2> DEFINE T == Ancestors(h, N)
  <2>1. T \in SUBSET h.classes /\ A \in T /\ \A C \in T : h.up[C] \in h.classes => h.up[C] \in T
    BY <1>1, <1>2
  <2> HIDE DEF T
  <2>2. B \in T BY <2>1 DEF Ancestors
  <2> QED BY <2>2 DEF T
<1>4. ASSUME N # "Class" PROVE "Class" \notin Ancestors(h, N)
  <2> DEFINE T == h.classes \ {"Class"}
  <2>1. T \in SUBSET h.classes /\ N \in T /\ \A C \in T : h.up[C] \in h.classes => h.up[C] \in T
    BY <1>4 DEF Sound
  <2>2. "Class" \notin T OBVIOUS
  <2> HIDE DEF T
  <2> QED BY <2>1, <2>2 DEF Ancestors
<1> QED BY <1>1, <1>2, <1>3, <1>4

\* The superclasses come to an end.
LEMMA HierarchyDescends ==
  ASSUME NEW h, Sound(h), NEW selector
  PROVE  \E rank : Descends(Hierarchy(h), Stops(h, selector), h.up, rank)
<1>1. PICK rank \in [h.classes -> Nat] :
        \A N \in h.classes : h.up[N] \in h.classes => rank[h.up[N]] < rank[N]
  BY DEF Sound
<1> DEFINE R == [N \in Hierarchy(h) |-> IF N = "object" THEN 0 ELSE rank[N] + 1]
<1>2. "object" \notin h.classes BY DEF Sound
<1>3. R \in [Hierarchy(h) -> Nat] BY DEF Hierarchy
<1>4. ASSUME NEW N \in Hierarchy(h) \ Stops(h, selector)
      PROVE  h.up[N] \in Hierarchy(h) /\ R[h.up[N]] < R[N]
  <2>1. N \in h.classes /\ h.up[N] \in Hierarchy(h) BY DEF Hierarchy, Stops, Sound
  <2>2. R[N] = rank[N] + 1 /\ rank[N] \in Nat BY <1>2, <2>1 DEF Hierarchy
  <2>3. CASE h.up[N] = "object"
    <3>1. R[h.up[N]] = 0 BY <2>1, <2>3
    <3> QED BY <2>1, <2>2, <3>1
  <2>4. CASE h.up[N] # "object"
    <3>1. h.up[N] \in h.classes BY <2>1, <2>4 DEF Hierarchy
    <3>2. R[h.up[N]] = rank[h.up[N]] + 1 /\ rank[h.up[N]] \in Nat BY <2>1, <2>4, <3>1
    <3> QED BY <1>1, <2>1, <2>2, <3>1, <3>2
  <2> QED BY <2>3, <2>4
<1> HIDE DEF R
<1> QED BY <1>3, <1>4 DEF Descends

LEMMA NearestFacts ==
  ASSUME NEW h, Sound(h), NEW selector
  PROVE  /\ IsWalk(NearestWalk(h, selector), Hierarchy(h), Stops(h, selector), h.up)
         /\ \A N \in h.classes :
              NearestIn(h, N, selector) \in {"object"} \cup
                {A \in Ancestors(h, N) : [class |-> A, selector |-> selector] \in h.methods}
         /\ NearestIn(h, "object", selector) = "object"
<1> DEFINE f == NearestWalk(h, selector)
<1>1. PICK rank : Descends(Hierarchy(h), Stops(h, selector), h.up, rank) BY HierarchyDescends
<1>2. \E g : IsWalk(g, Hierarchy(h), Stops(h, selector), h.up) BY <1>1, WalkExists
<1>3. IsWalk(f, Hierarchy(h), Stops(h, selector), h.up) BY <1>2 DEF NearestWalk
<1> HIDE DEF f
<1>4. ASSUME NEW N \in h.classes
      PROVE  f[N] \in {"object"} \cup {A \in Ancestors(h, N) : [class |-> A, selector |-> selector] \in h.methods}
  <2> DEFINE T == {"object"} \cup Ancestors(h, N)
  <2>1. T \in SUBSET Hierarchy(h) BY AncestorsFacts DEF Hierarchy
  <2>2. ASSUME NEW A \in T \ Stops(h, selector) PROVE h.up[A] \in T
    <3>1. A \in Ancestors(h, N) /\ A \in h.classes BY AncestorsFacts DEF Stops
    <3>2. h.up[A] \in h.classes \cup {"object"} BY <3>1 DEF Sound
    <3> QED BY <3>1, <3>2, AncestorsFacts
  <2>3. N \in T BY AncestorsFacts
  <2>4. f[N] \in T \cap Stops(h, selector)
    <3> HIDE DEF T
    <3> QED BY <1>1, <1>3, <2>1, <2>2, <2>3, WalkStays
  <2> QED BY <2>4 DEF Stops
<1>5. f["object"] = "object" BY <1>3 DEF IsWalk, Hierarchy, Stops
<1> QED BY <1>3, <1>4, <1>5 DEF NearestIn, f

LEMMA GlobalFacts ==
  ASSUME NEW h, Sound(h), NEW r, Ready(r, h)
  PROVE  /\ \A N \in h.classes : /\ Global(r, N) = r.globals[N] /\ Global(r, N) # NoClass
                                 /\ Global(r, N) \in DOMAIN r.classes
                                 /\ r.classes[Global(r, N)].name = N
         /\ Global(r, "object") = NoClass
         /\ r \in Runtimes /\ Len(r.classes) \in Nat /\ DOMAIN r.classes = 1 .. Len(r.classes)
<1>1. r \in Runtimes BY DEF Ready, Tables, Found
<1>2. Len(r.classes) \in Nat /\ DOMAIN r.classes = 1 .. Len(r.classes) BY <1>1 DEF Runtimes
<1>3. \A N \in h.classes : r.globals[N] \in DOMAIN r.classes /\ r.classes[r.globals[N]].name = N
  BY DEF Ready
<1>4. \A N \in h.classes : Global(r, N) = r.globals[N] BY DEF Sound, Global
<1>5. Global(r, "object") = NoClass BY DEF Sound, Global
<1> QED BY <1>1, <1>2, <1>3, <1>4, <1>5 DEF NoClass

\* The method lists hold what is looked for.
LEMMA LookupIs ==
  ASSUME NEW h, Sound(h), NEW r, Ready(r, h), NEW N \in h.classes, NEW selector
  PROVE  /\ Lookup(r, Global(r, N), selector) # 0 <=> [class |-> N, selector |-> selector] \in h.methods
         /\ [class |-> N, selector |-> selector] \in h.methods =>
              MethodOf(r, Global(r, N), selector) = [class |-> N, selector |-> selector]
<1> DEFINE c == Global(r, N)
           i == Lookup(r, c, selector)
<1>1. c = r.globals[N] /\ c \in DOMAIN r.classes /\ r.classes[c].name = N /\ r \in Runtimes
  BY GlobalFacts
<1>2. r.classes[c].methods \in Seq(MethodDescs)
  <2>1. r.classes[c] \in Descriptors BY <1>1 DEF Runtimes
  <2> QED BY <2>1 DEF Descriptors
<1>3. Has(r, N, selector) <=> [class |-> N, selector |-> selector] \in h.methods BY DEF Ready
<1>4. Has(r, N, selector) <=> \E j \in 1 .. Len(r.classes[c].methods) : r.classes[c].methods[j].selector = selector
  BY <1>1 DEF Has
<1> HIDE DEF c
<1>5. IF \E j \in 1 .. Len(r.classes[c].methods) : r.classes[c].methods[j].selector = selector
        THEN i \in 1 .. Len(r.classes[c].methods) /\ r.classes[c].methods[i].selector = selector
        ELSE i = 0
  BY <1>2, LookupFacts
<1>6. Table(r, h, c) BY <1>1 DEF Ready, Tables
<1>7. ASSUME Has(r, N, selector) PROVE i # 0 /\ MethodOf(r, c, selector) = [class |-> N, selector |-> selector]
  <2>1. i \in 1 .. Len(r.classes[c].methods) /\ r.classes[c].methods[i].selector = selector
    BY <1>4, <1>5, <1>7
  <2>2. i # 0
    <3>1. Len(r.classes[c].methods) \in Nat BY <1>2
    <3> QED BY <2>1, <3>1
  <2> HIDE DEF i
  <2>3. r.classes[c].methods[i].method = [class |-> N, selector |-> selector]
    BY <1>1, <1>6, <2>1 DEF Table
  <2> QED BY <2>2, <2>3 DEF MethodOf, i
<1>8. ~Has(r, N, selector) => i = 0 BY <1>4, <1>5
<1> QED BY <1>3, <1>7, <1>8 DEF c

LEMMA FinderIs ==
  ASSUME NEW h, Sound(h), NEW r, Ready(r, h), NEW N \in Hierarchy(h), NEW selector
  PROVE  Finder(r, Global(r, N), selector) = Global(r, NearestIn(h, N, selector))
<1> DEFINE Z == 0 .. Len(r.classes)
           halt == {NoClass} \cup {c \in Z : Lookup(r, c, selector) # 0}
           jump == [c \in 1 .. Len(r.classes) |-> r.classes[c].parent]
           g == CHOOSE w : w = [c \in Z |-> IF c = NoClass \/ Lookup(r, c, selector) # 0 THEN c
                                            ELSE w[r.classes[c].parent]]
           f == NearestWalk(h, selector)
           H == [A \in Hierarchy(h) |-> Global(r, A)]
<1>1. Finder(r, Global(r, N), selector) = g[Global(r, N)] BY DEF Finder
<1>2. Len(r.classes) \in Nat /\ DOMAIN r.classes = 1 .. Len(r.classes) BY GlobalFacts
<1>3. PICK rank \in [h.classes -> Nat] : \A A \in h.classes : h.up[A] \in h.classes => rank[h.up[A]] < rank[A]
  BY DEF Sound
<1> DEFINE R == [c \in Z |-> IF c = NoClass THEN 0 ELSE rank[r.classes[c].name] + 1]
<1>4. ASSUME NEW c \in Z \ halt
      PROVE  jump[c] = r.classes[c].parent /\ jump[c] \in Z /\ R[c] \in Nat /\ R[jump[c]] < R[c]
  <2>1. c \in 1 .. Len(r.classes) /\ c # NoClass BY <1>2 DEF NoClass
  <2>2. jump[c] = r.classes[c].parent BY <2>1
  <2>3. Table(r, h, c) BY <1>2, <2>1 DEF Ready, Tables
  <2> DEFINE A == r.classes[c].name
  <2>4. A \in h.classes /\ r.classes[c].parent \in {NoClass, Global(r, h.up[A])} BY <2>3 DEF Table
  <2>5. R[c] = rank[A] + 1 /\ rank[A] \in Nat BY <2>1, <2>4
  <2> HIDE DEF A, jump
  <2>6. CASE jump[c] = NoClass
    <3>1. jump[c] \in Z /\ R[jump[c]] = 0 BY <1>2, <2>6 DEF NoClass
    <3> QED BY <2>2, <2>5, <3>1
  <2>7. CASE jump[c] # NoClass
    <3>1. jump[c] = Global(r, h.up[A]) BY <2>2, <2>4, <2>7
    <3>2. h.up[A] \in h.classes
      <4>1. h.up[A] \in h.classes \cup {"object"} BY <2>4 DEF Sound
      <4>2. Global(r, "object") = NoClass BY GlobalFacts
      <4> QED BY ONLY <4>1, <4>2, <2>7, <3>1
    <3>3. jump[c] \in 1 .. Len(r.classes) /\ r.classes[jump[c]].name = h.up[A] BY <1>2, <3>1, <3>2, GlobalFacts
    <3>4. jump[c] \in Z /\ R[jump[c]] = rank[h.up[A]] + 1 /\ rank[h.up[A]] \in Nat
      BY <1>2, <2>7, <3>2, <3>3
    <3>5. rank[h.up[A]] < rank[A] BY <1>3, <2>4, <3>2
    <3> HIDE DEF R, Z
    <3> QED BY <2>2, <2>5, <3>4, <3>5
  <2> QED BY <2>6, <2>7
<1>5. R \in [Z -> Nat]
  <2> SUFFICES ASSUME NEW c \in Z, c # NoClass PROVE rank[r.classes[c].name] \in Nat OBVIOUS
  <2>1. Table(r, h, c) BY <1>2 DEF Ready, Tables, NoClass
  <2> QED BY <2>1 DEF Table
<1> HIDE DEF R
<1>6. Descends(Z, halt, jump, R)
  <2> HIDE DEF Z, halt, jump
  <2> QED BY <1>4, <1>5 DEF Descends
<1>7. PICK w : IsWalk(w, Z, halt, jump)
  <2> HIDE DEF Z, halt, jump
  <2> QED BY <1>6, WalkExists
<1>8. ASSUME NEW v
      PROVE  [c \in Z |-> IF c = NoClass \/ Lookup(r, c, selector) # 0 THEN c ELSE v[r.classes[c].parent]]
               = [c \in Z |-> IF c \in halt THEN c ELSE v[jump[c]]]
  <2>1. ASSUME NEW c \in Z
        PROVE  (IF c = NoClass \/ Lookup(r, c, selector) # 0 THEN c ELSE v[r.classes[c].parent])
                 = (IF c \in halt THEN c ELSE v[jump[c]])
    <3>1. CASE c \in halt BY <3>1
    <3>2. CASE c \notin halt
      <4>1. jump[c] = r.classes[c].parent BY <1>4, <3>2
      <4>2. c # NoClass /\ Lookup(r, c, selector) = 0 BY <3>2
      <4> QED BY <3>2, <4>1, <4>2
    <3> QED BY <3>1, <3>2
  <2> HIDE DEF Z, halt, jump
  <2> QED BY <2>1
<1>9. IsWalk(g, Z, halt, jump)
  <2>1. w = [c \in Z |-> IF c = NoClass \/ Lookup(r, c, selector) # 0 THEN c ELSE w[r.classes[c].parent]]
    BY <1>7, <1>8 DEF IsWalk
  <2>2. g = [c \in Z |-> IF c = NoClass \/ Lookup(r, c, selector) # 0 THEN c ELSE g[r.classes[c].parent]]
    BY <2>1
  <2> QED BY <1>8, <2>2 DEF IsWalk
<1> HIDE DEF g
<1>10. PICK rank2 : Descends(Hierarchy(h), Stops(h, selector), h.up, rank2) BY HierarchyDescends
<1>11. IsWalk(f, Hierarchy(h), Stops(h, selector), h.up) BY NearestFacts
<1>12. H \in [Hierarchy(h) -> Z]
  <2> SUFFICES ASSUME NEW A \in Hierarchy(h) PROVE Global(r, A) \in Z OBVIOUS
  <2> QED BY <1>2, GlobalFacts DEF Hierarchy, NoClass
<1>13. ASSUME NEW A \in Hierarchy(h) PROVE H[A] \in halt <=> A \in Stops(h, selector)
  <2>1. CASE A = "object"
    <3>1. H[A] = NoClass BY <2>1, GlobalFacts
    <3> QED BY <2>1, <3>1 DEF Stops
  <2>2. CASE A # "object"
    <3>1. A \in h.classes /\ A \in Hierarchy(h) BY <2>2 DEF Hierarchy
    <3>2. H[A] = Global(r, A) /\ H[A] # NoClass /\ H[A] \in Z BY <1>12, <3>1, GlobalFacts
    <3>3. Lookup(r, H[A], selector) # 0 <=> [class |-> A, selector |-> selector] \in h.methods
      BY <3>1, <3>2, LookupIs
    <3> HIDE DEF H
    <3> QED BY <2>2, <3>1, <3>2, <3>3 DEF Stops
  <2> QED BY <2>1, <2>2
<1>14. ASSUME NEW A \in Hierarchy(h) \ Stops(h, selector) PROVE jump[H[A]] = H[h.up[A]]
  <2>1. A \in h.classes /\ h.up[A] \in Hierarchy(h) BY DEF Hierarchy, Stops, Sound
  <2>2. H[A] = r.globals[A] /\ H[A] \in 1 .. Len(r.classes) /\ H[h.up[A]] = Global(r, h.up[A])
    BY <1>2, <2>1, GlobalFacts
  <2>3. Joined(r, h, A) BY <2>1 DEF Ready
  <2> HIDE DEF H
  <2> QED BY <2>2, <2>3 DEF Joined
<1> HIDE DEF Z, halt, jump, f, H
<1>15. g[H[N]] = H[f[N]]
  BY ONLY <1>9, <1>10, <1>11, <1>12, <1>13, <1>14, WalksAgree, N \in Hierarchy(h)
<1>16. f[N] \in Hierarchy(h)
  <2>1. NearestIn(h, N, selector) \in Hierarchy(h) BY NearestFacts, AncestorsFacts DEF Hierarchy
  <2> QED BY <2>1 DEF NearestIn, f
<1>17. NearestIn(h, N, selector) = f[N] BY DEF NearestIn, f
<1> QED BY <1>1, <1>15, <1>16, <1>17 DEF H

-----------------------------------------------------------------------------
(* A program that runs.                                                    *)

\* What the method m may send: to super only if its class has a superclass,
\* and nothing to the class Class.
MaySend(h, m, send) ==
  IF send.super THEN m.class \in h.classes /\ send.target[1] = m.class /\ h.up[m.class] # "object"
                ELSE send.target[1] # "Class"
AreSends(h, m, sends) == \E S : sends \in Seq(S) /\ \A send \in S : MaySend(h, m, send)

MainMethod == [class |-> "", selector |-> "main"]

SoundSends(h) ==
  /\ \A m \in h.methods : AreSends(h, m, h.functions[m])
  /\ AreSends(h, MainMethod, h.main)

\* The class of an object is N.
IsA(r, h, object, N) ==
  \/ N = "Class" /\ \E M \in h.classes : M # "Class" /\ object = ClassObject(r.globals[M])
  \/ N # "Class" /\ \E o \in 1 .. Len(r.objects) :
       object = Object(o) /\ r.objects[o].class = r.globals[N]
IsValue(r, h, object) == object = Null \/ \E N \in h.classes : IsA(r, h, object, N)

\* The method that is to answer a selector, looked for from start upwards, for
\* an object of class N.
Answer(h, start, selector, N) ==
  IF NearestIn(h, start, selector) # "object"
    THEN [class |-> NearestIn(h, start, selector), selector |-> selector]
    ELSE [class |-> NearestIn(h, N, "doesNotUnderstand"), selector |-> "doesNotUnderstand"]

IsFrame(f) ==
  f = [self |-> f.self, selector |-> f.selector, super |-> f.super, arg |-> f.arg,
       result |-> f.result, method |-> f.method, sends |-> f.sends]

\* A method that was called by another, and the main function.
Called(r, h, f, below) ==
  \E N \in h.classes :
    /\ IsA(r, h, f.self, N)
    /\ f.method \in h.methods /\ f.method.class \in Ancestors(h, N)
    /\ f.super => below.method.class \in h.classes
    /\ f.method = Answer(h, IF f.super THEN h.up[below.method.class] ELSE N, f.selector, N)
IsMain(f) == f.self = Null /\ f.method = MainMethod /\ f.result = ""
OnTop(r, h, f, q) ==
  /\ IsFrame(f) /\ AreSends(h, f.method, f.sends)
  /\ IF q = <<>> THEN IsMain(f) ELSE Called(r, h, f, q[1])

IsStack(r, h, st) ==
  /\ \E S : st \in Seq(S)
  /\ \A i \in 1 .. Len(st) :
       /\ IsFrame(st[i]) /\ AreSends(h, st[i].method, st[i].sends)
       /\ IF i = Len(st) THEN IsMain(st[i]) ELSE Called(r, h, st[i], st[i + 1])

LEMMA StackTail ==
  ASSUME NEW r, NEW h, NEW st, IsStack(r, h, st), st # <<>>
  PROVE  IsStack(r, h, Tail(st)) /\ OnTop(r, h, Head(st), Tail(st))
<1>1. PICK S : st \in Seq(S) BY DEF IsStack
<1> DEFINE q == Tail(st)
<1>2. /\ q \in Seq(S) /\ Len(q) = Len(st) - 1 /\ Len(st) \in Nat /\ Len(st) > 0 /\ Head(st) = st[1]
      /\ \A i \in 1 .. Len(q) : q[i] = st[i + 1]
  BY <1>1
<1> HIDE DEF q
<1>3. q = <<>> <=> Len(st) = 1
  <2>1. q = <<>> <=> Len(q) = 0 BY <1>2
  <2> QED BY <1>2, <2>1
<1>4. ASSUME NEW i \in 1 .. Len(q)
      PROVE  /\ IsFrame(q[i]) /\ AreSends(h, q[i].method, q[i].sends)
             /\ IF i = Len(q) THEN IsMain(q[i]) ELSE Called(r, h, q[i], q[i + 1])
  <2>1. i + 1 \in 1 .. Len(st) /\ (i = Len(q) <=> i + 1 = Len(st)) /\ q[i] = st[i + 1] BY <1>2
  <2>2. i # Len(q) => q[i + 1] = st[(i + 1) + 1]
    <3>1. i # Len(q) => i + 1 \in 1 .. Len(q) BY <1>2
    <3> QED BY <1>2, <3>1
  <2>3. /\ IsFrame(st[i + 1]) /\ AreSends(h, st[i + 1].method, st[i + 1].sends)
        /\ IF i + 1 = Len(st) THEN IsMain(st[i + 1]) ELSE Called(r, h, st[i + 1], st[(i + 1) + 1])
    BY <2>1 DEF IsStack
  <2> QED BY ONLY <2>1, <2>2, <2>3
<1>5. IsStack(r, h, q) BY <1>2, <1>4 DEF IsStack
<1>6. OnTop(r, h, st[1], q)
  <2>1. 1 \in 1 .. Len(st) /\ 1 + 1 = 2 BY <1>2
  <2>2. /\ IsFrame(st[1]) /\ AreSends(h, st[1].method, st[1].sends)
        /\ IF 1 = Len(st) THEN IsMain(st[1]) ELSE Called(r, h, st[1], st[1 + 1])
    BY <2>1 DEF IsStack
  <2>3. Len(st) # 1 => q[1] = st[1 + 1] BY <1>2
  <2> QED BY <1>3, <2>2, <2>3 DEF OnTop
<1> QED BY <1>2, <1>5, <1>6 DEF q

LEMMA StackPush ==
  ASSUME NEW r, NEW h, NEW q, IsStack(r, h, q), NEW f, OnTop(r, h, f, q), NEW st, st = <<f>> \o q
  PROVE  IsStack(r, h, st) /\ st # <<>> /\ Head(st) = f /\ Tail(st) = q
<1>1. PICK S : q \in Seq(S) BY DEF IsStack
<1> DEFINE T == S \cup {f}
<1>2. q \in Seq(T) BY <1>1
<1> HIDE DEF T
<1>3. f \in T BY DEF T
<1>4. /\ st \in Seq(T) /\ Len(st) = Len(q) + 1 /\ st[1] = f
      /\ \A i \in 1 .. Len(q) : i + 1 \in 1 .. Len(st) /\ st[i + 1] = q[i]
      /\ \A i \in 1 .. Len(st) : i # 1 => i - 1 \in 1 .. Len(q) /\ st[i] = q[i - 1]
  BY ONLY <1>2, <1>3, ConsFacts, st = <<f>> \o q
<1>5. Len(q) \in Nat BY <1>1
<1>6. st # <<>> /\ Head(st) = f /\ Tail(st) = q BY <1>2, <1>3, <1>4, <1>5
<1>7. ASSUME NEW i \in 1 .. Len(st)
      PROVE  /\ IsFrame(st[i]) /\ AreSends(h, st[i].method, st[i].sends)
             /\ IF i = Len(st) THEN IsMain(st[i]) ELSE Called(r, h, st[i], st[i + 1])
  <2>1. CASE i = 1
    <3>1. q = <<>> <=> i = Len(st) BY <1>1, <1>4, <1>5, <2>1
    <3>2. i # Len(st) => st[i + 1] = q[1]
      <4>1. i # Len(st) => 1 \in 1 .. Len(q) BY <1>4, <1>5, <2>1
      <4> QED BY <1>4, <2>1, <4>1
    <3> QED BY <1>4, <2>1, <3>1, <3>2 DEF OnTop
  <2>2. CASE i # 1
    <3>1. i - 1 \in 1 .. Len(q) /\ st[i] = q[i - 1] BY <1>4, <2>2
    <3>2. i = Len(st) <=> i - 1 = Len(q) BY <1>4, <1>5, <3>1
    <3>3. i # Len(st) => st[i + 1] = q[(i - 1) + 1]
      <4>1. i # Len(st) => i \in 1 .. Len(q) /\ (i - 1) + 1 = i BY <1>4, <1>5, <3>1
      <4> QED BY <1>4, <4>1
    <3>4. /\ IsFrame(q[i - 1]) /\ AreSends(h, q[i - 1].method, q[i - 1].sends)
          /\ IF i - 1 = Len(q) THEN IsMain(q[i - 1]) ELSE Called(r, h, q[i - 1], q[(i - 1) + 1])
      BY <3>1 DEF IsStack
    <3> QED BY ONLY <3>1, <3>2, <3>3, <3>4
  <2> QED BY <2>1, <2>2
<1>8. IsStack(r, h, st) BY <1>4, <1>7 DEF IsStack
<1> QED BY <1>6, <1>8

ObjectsSound(r, h) ==
  \A o \in 1 .. Len(r.objects) : \E N \in h.classes :
    /\ N # "Class" /\ r.objects[o].class = r.globals[N]
    /\ r.objects[o].size = r.classes[r.globals[N]].size

\* The state of the run time, the active methods and the variables.
SendsSoundly(r, h, st, vs) ==
  /\ Ready(r, h) /\ ObjectsSound(r, h) /\ IsStack(r, h, st)
  /\ \A x \in DOMAIN vs : IsValue(r, h, vs[x])

\* The class pointer of an object is the global of its class.
LEMMA ClassOfIs ==
  ASSUME NEW h, Sound(h), NEW r, Ready(r, h), NEW N \in h.classes, NEW object, IsA(r, h, object, N)
  PROVE  /\ ClassOf(r, object) = Global(r, N) /\ object # Null
         /\ r.classes[ClassOf(r, object)].name = N
         /\ N = "Class" => object.kind = "class" /\
              \E M \in h.classes : M # "Class" /\ object.place = r.globals[M]
         /\ N # "Class" => object.kind = "object" /\ object.place \in 1 .. Len(r.objects)
                           /\ r.objects[object.place].class = r.globals[N]
<1>1. Global(r, N) = r.globals[N] /\ r.classes[Global(r, N)].name = N BY GlobalFacts
<1>2. CASE N = "Class"
  <2>1. PICK M \in h.classes : M # "Class" /\ object = ClassObject(r.globals[M]) BY <1>2 DEF IsA
  <2>2. r.globals[M] # NoClass /\ r.globals[M] \in DOMAIN r.classes BY GlobalFacts
  <2>3. object = [kind |-> "class", place |-> r.globals[M]] BY <2>1, <2>2 DEF ClassObject
  <2>4. ClassOf(r, object) = r.classes[r.globals[M]].class BY <2>3 DEF ClassOf
  <2>5. r.classes[r.globals[M]].class = r.globals["Class"] BY DEF Ready, Joined
  <2> QED BY <1>1, <1>2, <2>1, <2>3, <2>4, <2>5 DEF Null
<1>3. CASE N # "Class"
  <2>1. PICK o \in 1 .. Len(r.objects) : object = Object(o) /\ r.objects[o].class = r.globals[N]
    BY <1>3 DEF IsA
  <2> QED BY <1>1, <1>3, <2>1 DEF Object, ClassOf, Null
<1> QED BY <1>2, <1>3

\* What basicInvoke runs.
Chosen(r, class, call) ==
  LET finder == Finder(r, class, call.selector)
      other == Finder(r, ClassOf(r, call.self), "doesNotUnderstand")
  IN IF finder # NoClass THEN MethodOf(r, finder, call.selector) ELSE MethodOf(r, other, "doesNotUnderstand")
Answered(r, class, call) ==
  \/ Finder(r, class, call.selector) # NoClass
  \/ Finder(r, ClassOf(r, call.self), "doesNotUnderstand") # NoClass

LEMMA ChosenIs ==
  ASSUME NEW h, Sound(h), NEW r, Ready(r, h), NEW N \in h.classes, NEW call, IsA(r, h, call.self, N),
         NEW start \in {"object"} \cup Ancestors(h, N), Answered(r, Global(r, start), call)
  PROVE  LET m == Chosen(r, Global(r, start), call)
         IN /\ m = Answer(h, start, call.selector, N)
            /\ m \in h.methods /\ m.class \in Ancestors(h, N)
<1> DEFINE A == NearestIn(h, start, call.selector)
           B == NearestIn(h, N, "doesNotUnderstand")
           finder == Finder(r, Global(r, start), call.selector)
           other == Finder(r, ClassOf(r, call.self), "doesNotUnderstand")
<1>1. start \in Hierarchy(h) /\ N \in Hierarchy(h) BY AncestorsFacts DEF Hierarchy
<1>2. finder = Global(r, A) BY <1>1, FinderIs
<1>3. other = Global(r, B)
  <2>1. ClassOf(r, call.self) = Global(r, N) BY ClassOfIs
  <2> QED BY <1>1, <2>1, FinderIs
<1>4. A \in {"object"} \cup {C \in Ancestors(h, N) : [class |-> C, selector |-> call.selector] \in h.methods}
  <2>1. CASE start = "object" BY <2>1, NearestFacts
  <2>2. CASE start \in Ancestors(h, N)
    <3>1. start \in h.classes /\ Ancestors(h, start) \subseteq Ancestors(h, N) BY <2>2, AncestorsFacts
    <3>2. A \in {"object"} \cup {C \in Ancestors(h, start) : [class |-> C, selector |-> call.selector] \in h.methods}
      BY <3>1, NearestFacts
    <3> HIDE DEF A
    <3> QED BY <3>1, <3>2
  <2> QED BY <2>1, <2>2
<1>5. B \in {"object"} \cup {C \in Ancestors(h, N) : [class |-> C, selector |-> "doesNotUnderstand"] \in h.methods}
  BY NearestFacts
<1>6. Global(r, "object") = NoClass BY GlobalFacts
<1>7. Ancestors(h, N) \subseteq h.classes /\ "object" \notin h.classes BY AncestorsFacts DEF Sound
<1>8. Answer(h, start, call.selector, N) =
        IF A # "object" THEN [class |-> A, selector |-> call.selector]
                        ELSE [class |-> B, selector |-> "doesNotUnderstand"]
  BY DEF Answer
<1>9. Chosen(r, Global(r, start), call) =
        IF finder # NoClass THEN MethodOf(r, finder, call.selector) ELSE MethodOf(r, other, "doesNotUnderstand")
  BY DEF Chosen
<1>10. finder # NoClass \/ other # NoClass BY DEF Answered
<1> HIDE DEF A, B, finder, other
<1>11. CASE A # "object"
  <2>1. A \in h.classes /\ [class |-> A, selector |-> call.selector] \in h.methods /\ A \in Ancestors(h, N)
    BY <1>4, <1>7, <1>11
  <2>2. finder # NoClass BY <1>2, <2>1, GlobalFacts
  <2>3. MethodOf(r, finder, call.selector) = [class |-> A, selector |-> call.selector]
    BY <1>2, <2>1, LookupIs
  <2> QED BY ONLY <1>8, <1>9, <1>11, <2>1, <2>2, <2>3
<1>12. CASE A = "object"
  <2>1. finder = NoClass /\ B # "object" BY <1>2, <1>3, <1>6, <1>10, <1>12
  <2>2. B \in h.classes /\ [class |-> B, selector |-> "doesNotUnderstand"] \in h.methods /\ B \in Ancestors(h, N)
    BY <1>5, <1>7, <2>1
  <2>3. MethodOf(r, other, "doesNotUnderstand") = [class |-> B, selector |-> "doesNotUnderstand"]
    BY <1>3, <2>2, LookupIs
  <2> QED BY ONLY <1>8, <1>9, <1>12, <2>1, <2>2, <2>3
<1> QED BY <1>11, <1>12

LEMMA FrameIs ==
  ASSUME NEW m, NEW call, NEW sends, NEW f, f = Frame(m, call, sends)
  PROVE  /\ IsFrame(f) /\ f.self = call.self /\ f.selector = call.selector /\ f.super = call.super
         /\ f.result = call.result /\ f.method = m /\ f.sends = sends
BY DEF Frame, IsFrame

\* A method that is called is put on the stack.
LEMMA CallOn ==
  ASSUME NEW h, Sound(h), SoundSends(h), NEW r, Ready(r, h), NEW q, IsStack(r, h, q), q # <<>>,
         NEW N \in h.classes, NEW call, IsA(r, h, call.self, N),
         NEW start \in {"object"} \cup Ancestors(h, N),
         call.super => q[1].method.class \in h.classes /\ start = h.up[q[1].method.class],
         ~call.super => start = N,
         NEW class, class = Global(r, start), Answered(r, class, call),
         NEW m, m = Chosen(r, class, call), NEW t, t = <<Frame(m, call, h.functions[m])>> \o q
  PROVE  IsStack(r, h, t)
<1> DEFINE f == Frame(m, call, h.functions[m])
<1>1. m = Answer(h, start, call.selector, N) /\ m \in h.methods /\ m.class \in Ancestors(h, N)
  BY ChosenIs
<1>2. /\ IsFrame(f) /\ f.self = call.self /\ f.selector = call.selector /\ f.super = call.super
      /\ f.method = m /\ f.sends = h.functions[m]
  BY FrameIs
<1>3. AreSends(h, m, h.functions[m]) BY <1>1 DEF SoundSends
<1> HIDE DEF f
<1>4. Called(r, h, f, q[1])
  <2>1. start = IF f.super THEN h.up[q[1].method.class] ELSE N BY <1>2
  <2> QED BY <1>1, <1>2, <2>1 DEF Called
<1>5. OnTop(r, h, f, q) BY <1>2, <1>3, <1>4 DEF OnTop
<1>6. t = <<f>> \o q BY DEF f
<1> QED BY <1>5, <1>6, StackPush

LEMMA FrameWithout ==
  ASSUME NEW f, IsFrame(f), NEW sends
  PROVE  LET g == [f EXCEPT !.sends = sends]
         IN /\ IsFrame(g) /\ g.self = f.self /\ g.selector = f.selector /\ g.super = f.super
            /\ g.result = f.result /\ g.method = f.method /\ g.sends = sends
<1>1. PICK self, selector, super, arg, result, method, old :
        f = [self |-> self, selector |-> selector, super |-> super, arg |-> arg,
             result |-> result, method |-> method, sends |-> old]
  BY DEF IsFrame
<1>2. [f EXCEPT !.sends = sends] =
        [self |-> self, selector |-> selector, super |-> super, arg |-> arg,
         result |-> result, method |-> method, sends |-> sends]
  BY ONLY <1>1
<1> QED BY ONLY <1>1, <1>2 DEF IsFrame

\* A method that has sent a message has one less to send.
LEMMA ActiveGoesOn ==
  ASSUME NEW h, NEW r, NEW st, IsStack(r, h, st), st # <<>>, Head(st).sends # <<>>,
         NEW q, q = <<[Head(st) EXCEPT !.sends = Tail(@)]>> \o Tail(st)
  PROVE  /\ IsStack(r, h, q) /\ q # <<>> /\ q[1].method = Head(st).method
         /\ MaySend(h, Head(st).method, Head(Head(st).sends))
<1> DEFINE a == Head(st)
           b == [a EXCEPT !.sends = Tail(a.sends)]
           rest == Tail(st)
<1>1. IsStack(r, h, rest) /\ OnTop(r, h, a, rest) BY StackTail
<1>2. PICK S : a.sends \in Seq(S) /\ \A send \in S : MaySend(h, a.method, send)
  BY <1>1 DEF OnTop, AreSends
<1>3. Tail(a.sends) \in Seq(S) /\ Head(a.sends) \in S BY <1>2
<1>4. IsFrame(a) BY <1>1 DEF OnTop
<1>5. q = <<b>> \o rest OBVIOUS
<1> HIDE DEF a, rest
<1>6. /\ IsFrame(b) /\ b.self = a.self /\ b.selector = a.selector /\ b.super = a.super
      /\ b.result = a.result /\ b.method = a.method /\ b.sends = Tail(a.sends)
  BY ONLY <1>4, FrameWithout
<1> HIDE DEF b
<1>7. AreSends(h, b.method, b.sends) BY <1>2, <1>3, <1>6 DEF AreSends
<1>8. OnTop(r, h, b, rest)
  <2>1. CASE rest = <<>> BY <1>1, <1>6, <1>7, <2>1 DEF OnTop, IsMain
  <2>2. CASE rest # <<>>
    <3>1. Called(r, h, a, rest[1]) BY <1>1, <2>2 DEF OnTop
    <3>2. Called(r, h, b, rest[1]) BY <1>6, <3>1 DEF Called
    <3> QED BY <1>6, <1>7, <2>2, <3>2 DEF OnTop
  <2> QED BY <2>1, <2>2
<1>9. IsStack(r, h, q) /\ q # <<>> /\ Head(q) = b
  <2>1. ASSUME NEW g, NEW u, IsStack(r, h, u), OnTop(r, h, g, u), q = <<g>> \o u
        PROVE  IsStack(r, h, q) /\ q # <<>> /\ Head(q) = g
    <3>1. IsStack(r, h, q) BY ONLY <2>1, StackPush
    <3>2. q # <<>> BY ONLY <2>1, StackPush
    <3>3. Head(q) = g BY ONLY <2>1, StackPush
    <3> QED BY <3>1, <3>2, <3>3
  <2> QED BY <1>1, <1>5, <1>8, <2>1
<1>10. q[1] = b
  <2>1. PICK T : q \in Seq(T) BY <1>9 DEF IsStack
  <2> QED BY <1>9, <2>1
<1> QED BY <1>2, <1>3, <1>6, <1>9, <1>10 DEF a

\* A method that is not the main function was called.
LEMMA OthersAreCalled ==
  ASSUME NEW h, NEW r, NEW st, IsStack(r, h, st), st # <<>>, Head(st).method # MainMethod
  PROVE  /\ Tail(st) # <<>> /\ IsStack(r, h, Tail(st)) /\ Called(r, h, Head(st), Tail(st)[1])
BY StackTail DEF OnTop, IsMain

\* A new object changes nothing for what there is.
LEMMA CreateFacts ==
  ASSUME NEW h, Sound(h), NEW r, Ready(r, h), ObjectsSound(r, h),
         NEW M \in h.classes, M # "Class", NEW s, s = CreateObject(r, r.globals[M])
  PROVE  /\ Ready(s, h) /\ ObjectsSound(s, h)
         /\ \A object, N : IsA(r, h, object, N) => IsA(s, h, object, N)
         /\ IsA(s, h, Object(Len(s.objects)), M)
<1> DEFINE c == r.globals[M]
           o == [class |-> c, size |-> r.classes[c].size]
           k == Len(r.objects) + 1
<1>1. r \in Runtimes /\ c \in DOMAIN r.classes /\ c \in 1 .. Len(r.classes) /\ Len(r.classes) \in Nat BY GlobalFacts
<1>2. r.classes \in Seq(Descriptors) /\ r.objects \in Seq([class : Nat, size : Nat]) /\ r.used \in Nat
  BY <1>1 DEF Runtimes
<1>3. c \in Nat /\ r.classes[c].size \in Nat
  <2> HIDE DEF c
  <2>1. c \in Nat /\ r.classes[c] \in Descriptors BY <1>1, <1>2
  <2> QED BY <2>1 DEF Descriptors
<1>4. s = [classes |-> r.classes, classList |-> r.classList, globals |-> r.globals,
           objects |-> Append(r.objects, o), used |-> r.used + r.classes[c].size]
  BY <1>1 DEF CreateObject, Malloc, Runtimes
<1> HIDE DEF c
<1>5. /\ s \in Runtimes /\ s.classes = r.classes /\ s.classList = r.classList /\ s.globals = r.globals
      /\ s.objects = Append(r.objects, o)
  <2>1. Append(r.objects, o) \in Seq([class : Nat, size : Nat]) BY <1>2, <1>3
  <2>2. r.used + r.classes[c].size \in Nat BY <1>2, <1>3
  <2> HIDE DEF o
  <2> QED BY <1>1, <1>4, <2>1, <2>2 DEF Runtimes
<1>6. SameNames(r, s) BY <1>5 DEF SameNames
<1>7. Found(s) BY <1>5, <1>6, FoundStays DEF Ready, Tables
<1>8. \A N : Global(s, N) = Global(r, N) BY <1>5 DEF Global
<1>9. Tables(s, h)
  <2> SUFFICES ASSUME NEW d \in DOMAIN s.classes PROVE Table(s, h, d) BY <1>7 DEF Tables
  <2>1. Table(r, h, d) BY <1>5 DEF Ready, Tables
  <2> QED BY <1>5, <1>8, <2>1 DEF Table
<1>10. Ready(s, h)
  <2> SUFFICES ASSUME NEW N \in h.classes
               PROVE  /\ s.globals[N] \in DOMAIN s.classes /\ s.classes[s.globals[N]].name = N
                      /\ Joined(s, h, N)
                      /\ \A selector : Has(s, N, selector) <=> [class |-> N, selector |-> selector] \in h.methods
    BY <1>9 DEF Ready
  <2>1. /\ r.globals[N] \in DOMAIN r.classes /\ r.classes[r.globals[N]].name = N
        /\ Joined(r, h, N)
        /\ \A selector : Has(r, N, selector) <=> [class |-> N, selector |-> selector] \in h.methods
    BY DEF Ready
  <2>2. s.classes = r.classes /\ s.globals = r.globals BY ONLY <1>5
  <2>3. Joined(s, h, N) BY ONLY <1>8, <2>1, <2>2 DEF Joined
  <2>4. \A selector : Has(s, N, selector) <=> Has(r, N, selector) BY ONLY <2>2 DEF Has
  <2> QED BY ONLY <2>1, <2>2, <2>3, <2>4
<1>11. /\ Len(s.objects) = k /\ k \in 1 .. Len(s.objects) /\ s.objects[k] = o
       /\ 1 .. Len(s.objects) = 1 .. Len(r.objects) \cup {k}
       /\ \A i \in 1 .. Len(r.objects) : s.objects[i] = r.objects[i]
  <2>1. r.objects \in Seq([class : Nat, size : Nat]) /\ o \in [class : Nat, size : Nat]
    BY ONLY <1>2, <1>3
  <2> HIDE DEF o
  <2> QED BY ONLY <1>5, <2>1
<1> HIDE DEF k
<1>12. ObjectsSound(s, h)
  <2> SUFFICES ASSUME NEW i \in 1 .. Len(s.objects)
               PROVE  \E N \in h.classes : /\ N # "Class" /\ s.objects[i].class = s.globals[N]
                                           /\ s.objects[i].size = s.classes[s.globals[N]].size
    BY DEF ObjectsSound
  <2>1. CASE i = k BY <1>5, <1>11, <2>1 DEF c
  <2>2. CASE i \in 1 .. Len(r.objects) BY <1>5, <1>11, <2>2 DEF ObjectsSound
  <2> QED BY <1>11, <2>1, <2>2
<1>13. ASSUME NEW object, NEW N, IsA(r, h, object, N) PROVE IsA(s, h, object, N)
  BY <1>5, <1>11, <1>13 DEF IsA
<1>14. IsA(s, h, Object(Len(s.objects)), M) BY <1>5, <1>11 DEF IsA, c
<1> QED BY <1>10, <1>12, <1>13, <1>14

LEMMA StackStays ==
  ASSUME NEW h, NEW r, NEW s, \A object, N : IsA(r, h, object, N) => IsA(s, h, object, N),
         NEW st, IsStack(r, h, st)
  PROVE  IsStack(s, h, st)
<1>1. ASSUME NEW f, NEW below, Called(r, h, f, below) PROVE Called(s, h, f, below)
  BY <1>1 DEF Called
<1> QED BY <1>1 DEF IsStack

-----------------------------------------------------------------------------
(* The invariant.                                                          *)

\* The program that is linked.
Plan ==
  [classes |-> DeclaredClasses, up |-> [N \in DeclaredClasses |-> SuperclassOf(N)],
   methods |-> {MethodId(d) : d \in {d \in Declared : d.kind = "method"}},
   records |-> ToSet(image.classes), methodRecords |-> ToSet(image.methods),
   functions |-> image.functions, main |-> image.main, structs |-> ToSet(image.structs)]

IsFilter(c) ==
  c = [mode |-> c.mode, ahead |-> c.ahead, receiver |-> c.receiver, className |-> c.className,
       superclassName |-> c.superclassName, currentClassName |-> c.currentClassName, body |-> c.body,
       classes |-> c.classes, balance |-> c.balance, inNumber |-> c.inNumber, out |-> c.out]

\* Parentheses are counted in the arguments of a send and nowhere else.
FilterSound(c) ==
  /\ IsFilter(c) /\ c.mode \in F!Modes /\ c.balance \in Nat \ {0}
  /\ c.mode # "CALL" => c.balance = 1

\* Files are translated one after the other, and linked when all are.
FilesInv ==
  /\ program \in Seq(Files) /\ Len(program) <= Len(Sources)
  /\ \E S : translated \in Seq(S)
  /\ Len(translated) \in Len(program) - 1 .. Len(program)
  /\ todo # <<>> => Len(translated) = Len(program) - 1
  /\ FilterSound(coc)
  /\ image # <<>> => Len(translated) = Len(Sources)

\* The run time while it is initialised and while the program runs.
Executes(h, r, rs, st, vs) ==
  /\ Tables(r, h)
  /\ rs \in [classes : Seq(ClassRecordSet), parents : Seq(ClassRecordSet), methods : Seq(MethodRecordSet)]
  /\ ToSet(rs.classes) \subseteq h.records /\ ToSet(rs.parents) \subseteq h.records
  /\ ToSet(rs.methods) \subseteq h.methodRecords
  /\ rs.classes \o rs.parents \o rs.methods # <<>> =>
       /\ Loading(r, h, ToSet(rs.classes), ToSet(rs.parents), ToSet(rs.methods))
       /\ st = <<>> /\ r.objects = <<>> /\ DOMAIN vs = {}
  /\ st # <<>> => SendsSoundly(r, h, st, vs)

KernelInv ==
  /\ image = <<>> => co = Start(Names) /\ stack = <<>> /\ DOMAIN variables = {}
  /\ image # <<>> => Compiled /\ Executes(Plan, co, records, stack, variables)

IInv == FilesInv /\ KernelInv

\* What the files declare.
LEMMA DeclaredFacts ==
  ASSUME ProgramsInOrder, program \in Seq(Files)
  PROVE  /\ Declared \subseteq Declarable /\ "object" \notin Names
         /\ DeclaredClasses \subseteq Names
         /\ \A d \in Declared : d.kind = "class" =>
              /\ d.class \in DeclaredClasses /\ "Class" \in DeclaredClasses
              /\ Super(d) # "Class" /\ Super(d) \in DeclaredClasses \cup {"object"}
              /\ SuperclassOf(d.class) = Super(d)
         /\ \A N \in DeclaredClasses : \E d \in Declared : IsClass(d, N)
         /\ \A d \in Declared : d.kind = "method" => d.class \in DeclaredClasses
<1>1. \A p \in Files : InOrder(p) BY DEF ProgramsInOrder
<1>2. ASSUME NEW d \in Declared
      PROVE  \E p \in Files : ToSet(p) \subseteq Declared /\ d \in ToSet(p)
  <2>1. PICK f \in DOMAIN program : d \in ToSet(program[f]) BY DEF Declared
  <2>2. program[f] \in Files OBVIOUS
  <2>3. ToSet(program[f]) \subseteq Declared BY DEF Declared
  <2> QED BY <2>1, <2>2, <2>3
<1>3. Declared \subseteq Declarable BY <1>2 DEF Declarable
<1>4. "object" \notin Names
  <2> SUFFICES ASSUME NEW d \in Declarable, d.kind = "class" PROVE d.class # "object" BY DEF Names
  <2>1. PICK p \in Files : d \in ToSet(p) BY DEF Declarable
  <2>2. PICK i \in DOMAIN p : d = p[i] BY <2>1 DEF ToSet
  <2> QED BY <1>1, <2>2 DEF InOrder
<1>5. DeclaredClasses \subseteq Names BY <1>3 DEF DeclaredClasses, Names
<1>6. \A N \in DeclaredClasses : \E d \in Declared : IsClass(d, N) BY DEF DeclaredClasses, IsClass
<1>7. \A d \in Declared : \A N : IsClass(d, N) => N \in DeclaredClasses BY DEF DeclaredClasses, IsClass
<1>8. ASSUME NEW d \in Declared, d.kind = "class"
      PROVE  /\ d.class \in DeclaredClasses /\ "Class" \in DeclaredClasses
             /\ Super(d) # "Class" /\ Super(d) \in DeclaredClasses \cup {"object"}
             /\ SuperclassOf(d.class) = Super(d)
  <2>1. PICK p \in Files : ToSet(p) \subseteq Declared /\ d \in ToSet(p) BY <1>2
  <2>2. PICK i \in DOMAIN p : d = p[i] BY <2>1 DEF ToSet
  <2>3. /\ Super(d) # "Class"
        /\ Super(d) = "object" \/ \E j \in 1 .. i - 1 : IsClass(p[j], Super(d))
        /\ \E j \in DOMAIN p : IsClass(p[j], "Class")
    BY <1>1, <1>8, <2>2 DEF InOrder
  <2>4. p \in Seq(Declarations)
    <3>1. PICK f \in DOMAIN Sources : p \in Sources[f] BY DEF Files
    <3> QED BY <3>1, CoAssumption
  <2>5. \A j \in 1 .. i - 1 : j \in DOMAIN p BY <2>4
  <2>6. \A j \in DOMAIN p : p[j] \in Declared BY <2>1 DEF ToSet
  <2>7. "Class" \in DeclaredClasses BY <1>7, <2>3, <2>6
  <2>8. Super(d) \in DeclaredClasses \cup {"object"} BY <1>7, <2>3, <2>5, <2>6
  <2>9. d.class \in DeclaredClasses BY <1>7, <1>8 DEF IsClass
  <2>10. SuperclassOf(d.class) = Super(d)
    <3> DEFINE c == CHOOSE c \in Declared : IsClass(c, d.class)
    <3>1. IsClass(d, d.class) BY <1>8 DEF IsClass
    <3>2. c \in Declared /\ IsClass(c, d.class) BY <3>1
    <3>3. SuperclassOf(d.class) = Super(c) BY DEF SuperclassOf
    <3> HIDE DEF c
    <3> QED BY <1>3, <1>8, <3>2, <3>3 DEF ProgramsInOrder
  <2> QED BY <2>3, <2>7, <2>8, <2>9, <2>10
<1>9. ASSUME NEW d \in Declared, d.kind = "method" PROVE d.class \in DeclaredClasses
  <2>1. PICK p \in Files : ToSet(p) \subseteq Declared /\ d \in ToSet(p) BY <1>2
  <2>2. PICK i \in DOMAIN p : d = p[i] BY <2>1 DEF ToSet
  <2>3. PICK j \in 1 .. i - 1 : IsClass(p[j], d.class) BY <1>1, <1>9, <2>2 DEF InOrder
  <2>4. p \in Seq(Declarations)
    <3>1. PICK f \in DOMAIN Sources : p \in Sources[f] BY DEF Files
    <3> QED BY <3>1, CoAssumption
  <2>5. p[j] \in Declared
    <3>1. j \in DOMAIN p BY <2>4
    <3> QED BY <2>1, <3>1 DEF ToSet
  <2> QED BY <1>7, <2>3, <2>5
<1> QED BY <1>3, <1>4, <1>5, <1>6, <1>8, <1>9

\* A class is declared behind its superclass: the first place of a class in a
\* file is behind that of its superclass.
LEMMA SuperclassesFirst ==
  ASSUME ProgramsInOrder, program \in Seq(Files)
  PROVE  \E rank \in [DeclaredClasses -> Nat] :
           \A N \in DeclaredClasses : SuperclassOf(N) \in DeclaredClasses => rank[SuperclassOf(N)] < rank[N]
<1> DEFINE Places(N) == {i \in Nat : \E f \in DOMAIN program : i \in DOMAIN program[f] /\ IsClass(program[f][i], N)}
           Least(N) == CHOOSE i \in Places(N) : \A j \in Places(N) : i <= j
           rank == [N \in DeclaredClasses |-> Least(N)]
<1>0. ASSUME NEW f \in DOMAIN program
      PROVE  program[f] \in Files /\ program[f] \in Seq(Declarations)
             /\ \A i \in DOMAIN program[f] : i \in Nat /\ program[f][i] \in Declared
  <2>1. program[f] \in Files OBVIOUS
  <2>2. PICK g \in DOMAIN Sources : program[f] \in Sources[g] BY <2>1 DEF Files
  <2>3. program[f] \in Seq(Declarations) BY <2>2, CoAssumption
  <2>4. \A i \in DOMAIN program[f] : program[f][i] \in Declared BY DEF Declared, ToSet
  <2> QED BY <2>1, <2>3, <2>4
<1>1. ASSUME NEW N \in DeclaredClasses PROVE Places(N) # {}
  <2>1. PICK d \in Declared : IsClass(d, N) BY <1>1, DeclaredFacts
  <2>2. PICK f \in DOMAIN program : d \in ToSet(program[f]) BY DEF Declared
  <2>3. PICK i \in DOMAIN program[f] : d = program[f][i] BY <2>2 DEF ToSet
  <2>4. i \in Nat BY <1>0
  <2> QED BY <2>1, <2>3, <2>4
<1>2. ASSUME NEW N \in DeclaredClasses
      PROVE  Least(N) \in Places(N) /\ \A j \in Places(N) : Least(N) <= j
  <2>1. Places(N) \in SUBSET Nat OBVIOUS
  <2> HIDE DEF Places
  <2>2. \E i \in Places(N) : \A j \in Places(N) : i <= j BY <1>1, <2>1, NatLeast
  <2> QED BY <2>2
<1>3. rank \in [DeclaredClasses -> Nat]
  <2> HIDE DEF Least
  <2> QED BY <1>2
<1>4. ASSUME NEW N \in DeclaredClasses, SuperclassOf(N) \in DeclaredClasses
      PROVE  rank[SuperclassOf(N)] < rank[N]
  <2> DEFINE i == Least(N)
             k == Least(SuperclassOf(N))
  <2>1. i \in Places(N) /\ k \in Places(SuperclassOf(N)) /\ \A j \in Places(SuperclassOf(N)) : k <= j
    BY <1>2, <1>4
  <2>2. rank[N] = i /\ rank[SuperclassOf(N)] = k BY <1>4
  <2> HIDE DEF i, k, Least
  <2>3. PICK f \in DOMAIN program : i \in DOMAIN program[f] /\ IsClass(program[f][i], N) BY <2>1
  <2> DEFINE p == program[f]
             d == p[i]
  <2>4. p \in Files /\ p \in Seq(Declarations) /\ d \in Declared BY <1>0, <2>3
  <2>5. d.kind = "class" /\ d.class = N BY <2>3 DEF IsClass
  <2>6. SuperclassOf(N) = Super(d) /\ Super(d) # "object"
    <3>1. SuperclassOf(N) = Super(d) BY <2>4, <2>5, DeclaredFacts
    <3>2. "object" \notin DeclaredClasses BY DeclaredFacts
    <3> QED BY <1>4, <3>1, <3>2
  <2>7. InOrder(p) BY <2>4 DEF ProgramsInOrder
  <2>8. PICK j \in 1 .. i - 1 : IsClass(p[j], Super(d)) BY <2>3, <2>5, <2>6, <2>7 DEF InOrder
  <2>9. i \in Nat /\ k \in Nat BY <2>1
  <2>10. j \in DOMAIN p /\ j \in Nat
    <3>1. i \in DOMAIN p BY <2>3
    <3> QED BY <2>4, <2>8, <2>9, <3>1
  <2>11. j \in Places(SuperclassOf(N)) BY <2>6, <2>8, <2>10
  <2> HIDE DEF p, d, Places
  <2> QED BY <2>1, <2>2, <2>8, <2>9, <2>10, <2>11
<1> HIDE DEF rank
<1> QED BY <1>3, <1>4

\* The structs of a class and of its superclasses agree, and the records have
\* their size.
SoundStructs(h) ==
  /\ \A s \in h.structs : \A class \in DOMAIN s : s[class] \in Seq(STRING)
  /\ \A s, t \in h.structs : \A a \in DOMAIN s, b \in DOMAIN t :
       (a = b \/ (b \in h.classes /\ h.up[b] = a)) => IsPrefix(s[a], t[b])
  /\ \A record \in h.records : \E s \in h.structs :
       record.class \in DOMAIN s /\ record.size = Len(s[record.class])

LEMMA PlanIs ==
  /\ Plan.classes = DeclaredClasses /\ Plan.up = [N \in DeclaredClasses |-> SuperclassOf(N)]
  /\ Plan.methods = {MethodId(d) : d \in {d \in Declared : d.kind = "method"}}
  /\ Plan.records = ToSet(image.classes) /\ Plan.methodRecords = ToSet(image.methods)
  /\ Plan.functions = image.functions /\ Plan.main = image.main /\ Plan.structs = ToSet(image.structs)
BY DEF Plan

LEMMA SoundPlan ==
  ASSUME ProgramsInOrder, program \in Seq(Files), Compiled
  PROVE  Sound(Plan)
<1> DEFINE h == Plan
<1>0. ClassesCompiled /\ MethodsCompiled BY DEF Compiled
<1>1. h.classes = DeclaredClasses /\ h.up = [N \in DeclaredClasses |-> SuperclassOf(N)]
      /\ h.methods = {MethodId(d) : d \in {d \in Declared : d.kind = "method"}}
      /\ h.records = ToSet(image.classes) /\ h.methodRecords = ToSet(image.methods)
  BY PlanIs
<1> HIDE DEF h
<1>2. h.classes \subseteq Names /\ "object" \notin Names BY <1>1, DeclaredFacts
<1>3. ASSUME NEW N \in h.classes
      PROVE  /\ h.up[N] \in h.classes \cup {"object"} /\ h.up[N] # "Class" /\ "Class" \in h.classes
             /\ h.up[N] = SuperclassOf(N)
  <2>1. PICK d \in Declared : IsClass(d, N) BY <1>1, DeclaredFacts
  <2>2. d.kind = "class" /\ d.class = N BY <2>1 DEF IsClass
  <2>3. h.up[N] = SuperclassOf(N) BY <1>1
  <2>4. SuperclassOf(N) = Super(d) BY <2>2, DeclaredFacts
  <2>5. "Class" \in DeclaredClasses /\ Super(d) # "Class" /\ Super(d) \in DeclaredClasses \cup {"object"}
    BY <2>2, DeclaredFacts
  <2> QED BY <1>1, <2>3, <2>4, <2>5
<1>4. h.up \in [h.classes -> h.classes \cup {"object"}]
  <2> SUFFICES ASSUME NEW N \in DeclaredClasses PROVE SuperclassOf(N) \in h.classes \cup {"object"} BY <1>1
  <2> QED BY <1>1, <1>3
<1>5. \E rank \in [h.classes -> Nat] : \A N \in h.classes : h.up[N] \in h.classes => rank[h.up[N]] < rank[N]
  <2>1. PICK rank \in [DeclaredClasses -> Nat] :
          \A N \in DeclaredClasses : SuperclassOf(N) \in DeclaredClasses => rank[SuperclassOf(N)] < rank[N]
    BY SuperclassesFirst
  <2> QED BY <1>1, <1>3, <2>1
<1>6. h.records \subseteq ClassRecordSet
  <2>1. image.classes \in Seq(ClassRecordSet) BY <1>0 DEF ClassesCompiled, ClassRecordSet
  <2> QED BY <1>1, <2>1 DEF ToSet
<1>7. ASSUME NEW record \in h.records
      PROVE  record.class \in h.classes /\ record.superclass = h.up[record.class]
  <2>1. PICK d \in Declared : IsClass(d, record.class) /\ record.superclass = Super(d)
    BY <1>0, <1>1 DEF ClassesCompiled
  <2>2. d.kind = "class" /\ d.class = record.class BY <2>1 DEF IsClass
  <2>3. record.class \in h.classes /\ SuperclassOf(record.class) = Super(d) BY <1>1, <2>2, DeclaredFacts
  <2> QED BY <1>3, <2>1, <2>3
<1>8. ASSUME NEW N \in h.classes PROVE \E record \in h.records : record.class = N
  <2>1. PICK d \in Declared : IsClass(d, N) BY <1>1, DeclaredFacts
  <2> QED BY <1>0, <1>1, <2>1 DEF ClassesCompiled, IsClass
<1>9. h.methodRecords \subseteq MethodRecordSet
  <2>1. image.methods \in Seq(MethodRecordSet) BY <1>0 DEF MethodsCompiled, MethodRecordSet
  <2> QED BY <1>1, <2>1 DEF ToSet
<1>10. ASSUME NEW record \in h.methodRecords
       PROVE  record.class \in h.classes /\ record.method = MethodId(record) /\ record.method \in h.methods
  <2>1. PICK d \in Declared : d.kind = "method" /\ MethodId(d) = record.method /\ record.method = MethodId(record)
    BY <1>0, <1>1 DEF MethodsCompiled
  <2>2. d.class = record.class BY <2>1 DEF MethodId
  <2> QED BY <1>1, <2>1, <2>2, DeclaredFacts
<1>11. ASSUME NEW m \in h.methods
       PROVE  m.class \in h.classes /\ m = MethodId(m) /\ \E record \in h.methodRecords : record.method = m
  <2>1. PICK d \in Declared : d.kind = "method" /\ m = MethodId(d) BY <1>1
  <2>2. m.class = d.class /\ m.selector = d.selector /\ m = MethodId(m) BY <2>1 DEF MethodId
  <2>3. m.class \in h.classes BY <1>1, <2>1, <2>2, DeclaredFacts
  <2>4. PICK record \in ToSet(image.methods) : record.method = m BY <1>0, <2>1 DEF MethodsCompiled
  <2> QED BY <1>1, <2>2, <2>3, <2>4
<1> QED BY <1>2, <1>3, <1>4, <1>5, <1>6, <1>7, <1>8, <1>9, <1>10, <1>11 DEF Sound, h

LEMMA SoundPlanSends ==
  ASSUME ProgramsInOrder, program \in Seq(Files), Compiled
  PROVE  SoundSends(Plan)
<1>0. MethodsCompiled /\ Sound(Plan) BY SoundPlan DEF Compiled
<1>1. Declared \subseteq Declarable BY DeclaredFacts
<1>2. ASSUME NEW d \in Declared, d.kind \in {"method", "function"}, NEW m,
             NEW class, NEW sends \in Seq(Stated(d, class)), d.kind = "method" => class = d.class /\ m = MethodId(d)
      PROVE  AreSends(Plan, m, sends)
  <2>1. SendsInOrder(d) BY <1>1, <1>2 DEF ProgramsInOrder
  <2>2. ASSUME NEW send \in Stated(d, class) PROVE MaySend(Plan, m, send)
    <3>1. PICK s \in ToSet(d.body) :
            /\ s.kind = "send"
            /\ send = [super |-> s.receiver = "super",
                       target |-> <<IF s.receiver = "super" THEN class ELSE s.receiver>>,
                       selector |-> s.selector, arg |-> IF s.args = <<>> THEN "" ELSE Head(s.args),
                       result |-> s.result]
      BY DEF Stated
    <3>2. CASE s.receiver = "super"
      <4>1. d.kind = "method" /\ \A c \in Declarable : IsClass(c, d.class) => Super(c) # "object"
        BY <2>1, <3>1, <3>2 DEF SendsInOrder
      <4>2. m.class = d.class /\ class = d.class BY <1>2, <4>1 DEF MethodId
      <4>3. d.class \in DeclaredClasses BY <4>1, DeclaredFacts
      <4>4. PICK c \in Declared : IsClass(c, d.class) BY <4>3, DeclaredFacts
      <4>5. SuperclassOf(d.class) = Super(c) /\ Super(c) # "object"
        BY <1>1, <4>1, <4>4, DeclaredFacts DEF IsClass
      <4>6. Plan.up[d.class] # "object" /\ d.class \in Plan.classes BY <4>3, <4>5, PlanIs
      <4>7. send.super /\ send.target[1] = class BY <3>1, <3>2
      <4> QED BY <4>2, <4>6, <4>7 DEF MaySend
    <3>3. CASE s.receiver # "super"
      <4>1. ~send.super /\ send.target[1] = s.receiver BY <3>1, <3>3
      <4>2. s.receiver # "Class" BY <2>1, <3>1 DEF SendsInOrder
      <4> QED BY <4>1, <4>2 DEF MaySend
    <3> QED BY <3>2, <3>3
  <2> QED BY <2>2 DEF AreSends
<1>3. ASSUME NEW m \in Plan.methods PROVE AreSends(Plan, m, Plan.functions[m])
  <2>1. PICK d \in Declared : d.kind = "method" /\ m = MethodId(d) BY PlanIs
  <2>2. image.functions[m] \in Seq(Stated(d, d.class)) BY <1>0, <2>1 DEF MethodsCompiled
  <2>3. AreSends(Plan, m, image.functions[m]) BY <1>2, <2>1, <2>2
  <2> QED BY <2>3, PlanIs
<1>4. AreSends(Plan, MainMethod, Plan.main)
  <2>1. PICK d \in Declared : d.kind = "function" /\ image.main \in Seq(Stated(d, ""))
    BY <1>0 DEF MethodsCompiled
  <2>2. AreSends(Plan, MainMethod, image.main) BY <1>2, <2>1
  <2> QED BY <2>2, PlanIs
<1> QED BY <1>3, <1>4 DEF SoundSends

LEMMA SoundPlanStructs ==
  ASSUME ProgramsInOrder, program \in Seq(Files), Compiled
  PROVE  SoundStructs(Plan)
<1>0. StructsCompiled /\ Sound(Plan) BY SoundPlan DEF Compiled
<1>1. ASSUME NEW b \in Plan.classes PROVE \E d \in Declared : IsClass(d, b) /\ Super(d) = Plan.up[b]
  <2>1. b \in DeclaredClasses /\ Plan.up[b] = SuperclassOf(b) BY PlanIs
  <2>2. PICK d \in Declared : IsClass(d, b) BY <2>1, DeclaredFacts
  <2>3. Super(d) = SuperclassOf(b) BY <2>2, DeclaredFacts DEF IsClass
  <2> QED BY <2>1, <2>2, <2>3
<1>2. Plan.structs = ToSet(image.structs) /\ Plan.records = ToSet(image.classes) BY PlanIs
<1> QED BY <1>0, <1>1, <1>2 DEF StructsCompiled, SoundStructs

-----------------------------------------------------------------------------
(* The filter.                                                             *)

\* What the handlers do to the mode and the balance.
Holds(c, mode, balance) == IsFilter(c) /\ c.mode = mode /\ c.balance = balance

LEMMA Updates ==
  ASSUME NEW c, NEW mode, NEW balance, Holds(c, mode, balance), NEW v
  PROVE  /\ Holds([c EXCEPT !.mode = v], v, balance)
         /\ Holds([c EXCEPT !.ahead = v], mode, balance)
         /\ Holds([c EXCEPT !.receiver = v], mode, balance)
         /\ Holds([c EXCEPT !.className = v], mode, balance)
         /\ Holds([c EXCEPT !.superclassName = v], mode, balance)
         /\ Holds([c EXCEPT !.currentClassName = v], mode, balance)
         /\ Holds([c EXCEPT !.body = v], mode, balance)
         /\ Holds([c EXCEPT !.classes = v], mode, balance)
         /\ Holds([c EXCEPT !.balance = v], mode, v)
         /\ Holds([c EXCEPT !.inNumber = v], mode, balance)
         /\ Holds([c EXCEPT !.out = v], mode, balance)
<1>1. PICK ahead, receiver, className, superclassName, currentClassName, body, classes, inNumber, out :
        c = [mode |-> mode, ahead |-> ahead, receiver |-> receiver, className |-> className,
              superclassName |-> superclassName, currentClassName |-> currentClassName, body |-> body,
              classes |-> classes, balance |-> balance, inNumber |-> inNumber, out |-> out]
  BY DEF Holds, IsFilter
<1>2. Holds([c EXCEPT !.mode = v], v, balance)
  <2>1. [c EXCEPT !.mode = v] =
          [mode |-> v, ahead |-> ahead, receiver |-> receiver, className |-> className,
           superclassName |-> superclassName, currentClassName |-> currentClassName, body |-> body,
           classes |-> classes, balance |-> balance, inNumber |-> inNumber, out |-> out]
    BY ONLY <1>1
  <2> QED BY ONLY <2>1 DEF Holds, IsFilter
<1>3. Holds([c EXCEPT !.ahead = v], mode, balance)
  <2>1. [c EXCEPT !.ahead = v] =
          [mode |-> mode, ahead |-> v, receiver |-> receiver, className |-> className,
           superclassName |-> superclassName, currentClassName |-> currentClassName, body |-> body,
           classes |-> classes, balance |-> balance, inNumber |-> inNumber, out |-> out]
    BY ONLY <1>1
  <2> QED BY ONLY <2>1 DEF Holds, IsFilter
<1>4. Holds([c EXCEPT !.receiver = v], mode, balance)
  <2>1. [c EXCEPT !.receiver = v] =
          [mode |-> mode, ahead |-> ahead, receiver |-> v, className |-> className,
           superclassName |-> superclassName, currentClassName |-> currentClassName, body |-> body,
           classes |-> classes, balance |-> balance, inNumber |-> inNumber, out |-> out]
    BY ONLY <1>1
  <2> QED BY ONLY <2>1 DEF Holds, IsFilter
<1>5. Holds([c EXCEPT !.className = v], mode, balance)
  <2>1. [c EXCEPT !.className = v] =
          [mode |-> mode, ahead |-> ahead, receiver |-> receiver, className |-> v,
           superclassName |-> superclassName, currentClassName |-> currentClassName, body |-> body,
           classes |-> classes, balance |-> balance, inNumber |-> inNumber, out |-> out]
    BY ONLY <1>1
  <2> QED BY ONLY <2>1 DEF Holds, IsFilter
<1>6. Holds([c EXCEPT !.superclassName = v], mode, balance)
  <2>1. [c EXCEPT !.superclassName = v] =
          [mode |-> mode, ahead |-> ahead, receiver |-> receiver, className |-> className,
           superclassName |-> v, currentClassName |-> currentClassName, body |-> body,
           classes |-> classes, balance |-> balance, inNumber |-> inNumber, out |-> out]
    BY ONLY <1>1
  <2> QED BY ONLY <2>1 DEF Holds, IsFilter
<1>7. Holds([c EXCEPT !.currentClassName = v], mode, balance)
  <2>1. [c EXCEPT !.currentClassName = v] =
          [mode |-> mode, ahead |-> ahead, receiver |-> receiver, className |-> className,
           superclassName |-> superclassName, currentClassName |-> v, body |-> body,
           classes |-> classes, balance |-> balance, inNumber |-> inNumber, out |-> out]
    BY ONLY <1>1
  <2> QED BY ONLY <2>1 DEF Holds, IsFilter
<1>8. Holds([c EXCEPT !.body = v], mode, balance)
  <2>1. [c EXCEPT !.body = v] =
          [mode |-> mode, ahead |-> ahead, receiver |-> receiver, className |-> className,
           superclassName |-> superclassName, currentClassName |-> currentClassName, body |-> v,
           classes |-> classes, balance |-> balance, inNumber |-> inNumber, out |-> out]
    BY ONLY <1>1
  <2> QED BY ONLY <2>1 DEF Holds, IsFilter
<1>9. Holds([c EXCEPT !.classes = v], mode, balance)
  <2>1. [c EXCEPT !.classes = v] =
          [mode |-> mode, ahead |-> ahead, receiver |-> receiver, className |-> className,
           superclassName |-> superclassName, currentClassName |-> currentClassName, body |-> body,
           classes |-> v, balance |-> balance, inNumber |-> inNumber, out |-> out]
    BY ONLY <1>1
  <2> QED BY ONLY <2>1 DEF Holds, IsFilter
<1>10. Holds([c EXCEPT !.balance = v], mode, v)
  <2>1. [c EXCEPT !.balance = v] =
          [mode |-> mode, ahead |-> ahead, receiver |-> receiver, className |-> className,
           superclassName |-> superclassName, currentClassName |-> currentClassName, body |-> body,
           classes |-> classes, balance |-> v, inNumber |-> inNumber, out |-> out]
    BY ONLY <1>1
  <2> QED BY ONLY <2>1 DEF Holds, IsFilter
<1>11. Holds([c EXCEPT !.inNumber = v], mode, balance)
  <2>1. [c EXCEPT !.inNumber = v] =
          [mode |-> mode, ahead |-> ahead, receiver |-> receiver, className |-> className,
           superclassName |-> superclassName, currentClassName |-> currentClassName, body |-> body,
           classes |-> classes, balance |-> balance, inNumber |-> v, out |-> out]
    BY ONLY <1>1
  <2> QED BY ONLY <2>1 DEF Holds, IsFilter
<1>12. Holds([c EXCEPT !.out = v], mode, balance)
  <2>1. [c EXCEPT !.out = v] =
          [mode |-> mode, ahead |-> ahead, receiver |-> receiver, className |-> className,
           superclassName |-> superclassName, currentClassName |-> currentClassName, body |-> body,
           classes |-> classes, balance |-> balance, inNumber |-> inNumber, out |-> v]
    BY ONLY <1>1
  <2> QED BY ONLY <2>1 DEF Holds, IsFilter
<1> QED BY <1>2, <1>3, <1>4, <1>5, <1>6, <1>7, <1>8, <1>9, <1>10, <1>11, <1>12

LEMMA WritesHold ==
  ASSUME NEW c, NEW mode, NEW balance, Holds(c, mode, balance), NEW v
  PROVE  /\ Holds(F!Write(c, v), mode, balance) /\ Holds(F!Flush(c, v), mode, balance)
         /\ Holds(F!Keep(c, v), mode, balance)
<1>1. Holds(F!Write(c, v), mode, balance) BY Updates DEF F!Write
<1>2. Holds(F!Flush(c, v), mode, balance)
  <2> DEFINE d == F!Write(c, v)
  <2>1. Holds(d, mode, balance) BY <1>1
  <2> HIDE DEF d
  <2>2. Holds([d EXCEPT !.ahead = <<>>], mode, balance) BY <2>1, Updates
  <2> QED BY <2>2 DEF F!Flush, d
<1>3. Holds(F!Keep(c, v), mode, balance) BY Updates DEF F!Keep
<1> QED BY <1>1, <1>2, <1>3

\* In each mode: the mode and the balance that follow.
HoldsOne(c, modes) == \E mode \in modes : Holds(c, mode, 1)

LEMMA VarHolds ==
  ASSUME NEW c, Holds(c, "VAR", 1), NEW token
  PROVE  HoldsOne(F!VarProcess(c, token), {"VAR", "CALL", "BODY"})
<1>1. CASE token = "("
  <2> DEFINE send == IF c.receiver = <<"super">>
                       THEN [kind |-> "invokeSuper", class |-> c.currentClassName, selector |-> c.ahead]
                       ELSE [kind |-> "invoke", receiver |-> c.receiver, selector |-> c.ahead]
             d == F!Flush(c, <<send>>)
  <2>1. F!VarProcess(c, token) = [d EXCEPT !.mode = "CALL"] BY <1>1 DEF F!VarProcess, F!CallChange
  <2>2. Holds(d, "VAR", 1)
    <3> HIDE DEF send
    <3> QED BY WritesHold
  <2> HIDE DEF d
  <2>3. Holds([d EXCEPT !.mode = "CALL"], "CALL", 1) BY <2>2, Updates
  <2> QED BY <2>1, <2>3 DEF HoldsOne
<1>2. CASE token # "(" /\ token \in F!Separators
  <2> DEFINE pieces == (IF c.ahead # <<"return">>
                          THEN <<[kind |-> "member", object |-> c.receiver, member |-> c.ahead]>>
                          ELSE <<[kind |-> "return"]>>) \o F!Text(<<token>>)
             d == F!Flush(c, pieces)
  <2>1. F!VarProcess(c, token) = [d EXCEPT !.mode = "BODY"] BY <1>2 DEF F!VarProcess
  <2>2. Holds(d, "VAR", 1)
    <3> HIDE DEF pieces
    <3> QED BY WritesHold
  <2> HIDE DEF d
  <2>3. Holds([d EXCEPT !.mode = "BODY"], "BODY", 1) BY <2>2, Updates
  <2> QED BY <2>1, <2>3 DEF HoldsOne
<1>3. CASE token # "(" /\ token \notin F!Separators
  <2>1. F!VarProcess(c, token) = F!Keep(c, token) BY <1>3 DEF F!VarProcess
  <2> QED BY <2>1, WritesHold DEF HoldsOne
<1> QED BY <1>1, <1>2, <1>3

LEMMA BodyHolds ==
  ASSUME NEW c, Holds(c, "BODY", 1), NEW token
  PROVE  HoldsOne(F!BodyProcess(c, token), {"ESCAPE", "PREPROC", "BODY"})
<1>1. CASE token = "@"
  <2>1. F!BodyProcess(c, token) = [c EXCEPT !.mode = "ESCAPE"] BY <1>1 DEF F!BodyProcess
  <2>2. Holds([c EXCEPT !.mode = "ESCAPE"], "ESCAPE", 1) BY Updates
  <2> QED BY <2>1, <2>2 DEF HoldsOne
<1>2. CASE token = "#"
  <2>1. F!BodyProcess(c, token) = [c EXCEPT !.mode = "PREPROC"] BY <1>2 DEF F!BodyProcess
  <2>2. Holds([c EXCEPT !.mode = "PREPROC"], "PREPROC", 1) BY Updates
  <2> QED BY <2>1, <2>2 DEF HoldsOne
<1>3. CASE token \notin {"@", "#"} /\ token \in F!Separators
  <2>1. F!BodyProcess(c, token) = F!Flush(c, F!Text(Append(c.ahead, token))) BY <1>3 DEF F!BodyProcess
  <2> QED BY <2>1, WritesHold DEF HoldsOne
<1>4. CASE token \notin {"@", "#"} /\ token \notin F!Separators
  <2>1. F!BodyProcess(c, token) = F!Keep(c, token) BY <1>4 DEF F!BodyProcess
  <2> QED BY <2>1, WritesHold DEF HoldsOne
<1> QED BY <1>1, <1>2, <1>3, <1>4

LEMMA EscapeHolds ==
  ASSUME NEW c, Holds(c, "ESCAPE", 1), NEW token
  PROVE  HoldsOne(F!EscapeProcess(c, token), {"CLASS", "DEF", "VAR", "CALL", "BODY"})
<1>1. CASE token = "+"
  <2> DEFINE d == [c EXCEPT !.mode = "CLASS"]
  <2>1. F!EscapeProcess(c, token) = [d EXCEPT !.ahead = <<>>] BY <1>1 DEF F!EscapeProcess
  <2>2. Holds(d, "CLASS", 1) BY Updates
  <2> HIDE DEF d
  <2>3. Holds([d EXCEPT !.ahead = <<>>], "CLASS", 1) BY <2>2, Updates
  <2> QED BY <2>1, <2>3 DEF HoldsOne
<1>2. CASE token = "-"
  <2> DEFINE d == [c EXCEPT !.mode = "DEF"]
             e == [d EXCEPT !.ahead = <<>>]
  <2>1. F!EscapeProcess(c, token) = [e EXCEPT !.currentClassName = <<>>] BY <1>2 DEF F!EscapeProcess
  <2>2. Holds(d, "DEF", 1) BY Updates
  <2> HIDE DEF d
  <2>3. Holds(e, "DEF", 1) BY <2>2, Updates
  <2> HIDE DEF e
  <2>4. Holds([e EXCEPT !.currentClassName = <<>>], "DEF", 1) BY <2>3, Updates
  <2> QED BY <2>1, <2>4 DEF HoldsOne
<1>3. CASE token \notin {"+", "-"}
  <2> DEFINE w == IF c.ahead = <<>> THEN <<"self">> ELSE c.ahead
             d == [c EXCEPT !.mode = "VAR"]
             e == [d EXCEPT !.ahead = <<>>]
             g == [e EXCEPT !.receiver = w]
  <2>1. F!EscapeProcess(c, token) = F!VarProcess(F!VarChange(c), token) BY <1>3 DEF F!EscapeProcess
  <2>2. F!VarChange(c) = g BY DEF F!VarChange
  <2>3. Holds(d, "VAR", 1) BY Updates
  <2> HIDE DEF d, w
  <2>4. Holds(e, "VAR", 1) BY <2>3, Updates
  <2> HIDE DEF e
  <2>5. Holds(g, "VAR", 1) BY <2>4, Updates
  <2> HIDE DEF g
  <2>6. HoldsOne(F!VarProcess(g, token), {"VAR", "CALL", "BODY"}) BY <2>5, VarHolds
  <2> QED BY <2>1, <2>2, <2>6 DEF HoldsOne
<1> QED BY <1>1, <1>2, <1>3

LEMMA ClassHolds ==
  ASSUME NEW c, Holds(c, "CLASS", 1), NEW token
  PROVE  HoldsOne(F!ClassProcess(c, token), {"CLASSBODY", "CLASS"})
<1>1. CASE token = "{"
  <2> DEFINE class == F!ClassName(c.ahead)
             superclass == F!SuperclassName(c.ahead)
             typedef == IF class = <<"Class">> THEN <<>> ELSE <<[kind |-> "typedef", class |-> class]>>
             pieces == typedef \o <<[kind |-> "struct", class |-> class]>>
                         \o F!Text(F!ClassBodyOutput(c, superclass))
             d == F!Flush(c, pieces)
             d1 == [d EXCEPT !.mode = "CLASSBODY"]
             d2 == [d1 EXCEPT !.className = class]
             d3 == [d2 EXCEPT !.superclassName = superclass]
             d4 == [d3 EXCEPT !.body = <<>>]
  <2>1. F!ClassProcess(c, token) =
          [d EXCEPT !.mode = "CLASSBODY", !.className = class, !.superclassName = superclass, !.body = <<>>]
    BY <1>1 DEF F!ClassProcess
  <2>2. Holds(d, "CLASS", 1)
    <3> HIDE DEF pieces
    <3> QED BY WritesHold
  <2> HIDE DEF d, class, superclass
  <2>3. F!ClassProcess(c, token) = d4 BY <2>1
  <2>4. Holds(d1, "CLASSBODY", 1) BY <2>2, Updates
  <2> HIDE DEF d1
  <2>5. Holds(d2, "CLASSBODY", 1) BY <2>4, Updates
  <2> HIDE DEF d2
  <2>6. Holds(d3, "CLASSBODY", 1) BY <2>5, Updates
  <2> HIDE DEF d3
  <2>7. Holds(d4, "CLASSBODY", 1) BY <2>6, Updates
  <2> HIDE DEF d4
  <2> QED BY <2>3, <2>7 DEF HoldsOne
<1>2. CASE token # "{"
  <2>1. F!ClassProcess(c, token) = F!Keep(c, token) BY <1>2 DEF F!ClassProcess
  <2> QED BY <2>1, WritesHold DEF HoldsOne
<1> QED BY <1>1, <1>2

LEMMA ClassBodyHolds ==
  ASSUME NEW c, Holds(c, "CLASSBODY", 1), NEW token
  PROVE  HoldsOne(F!ClassBodyProcess(c, token), {"BODY", "CLASSBODY"})
<1>1. CASE token = "}"
  <2> DEFINE entry == [superclass |-> IF c.superclassName \in DOMAIN c.classes
                                        THEN c.superclassName ELSE <<>>,
                       buffer |-> c.body]
             pieces == F!Text(Append(c.ahead, token))
                         \o <<[kind |-> "class", class |-> c.className, superclass |-> c.superclassName]>>
             d == F!Flush(c, pieces)
             tree == [n \in DOMAIN d.classes \cup {c.className} |->
                        IF n = c.className THEN entry ELSE d.classes[n]]
             d1 == [d EXCEPT !.mode = "BODY"]
             d2 == [d1 EXCEPT !.className = <<>>]
             d3 == [d2 EXCEPT !.classes = tree]
  <2>1. F!ClassBodyProcess(c, token) = [d EXCEPT !.mode = "BODY", !.className = <<>>, !.classes = tree]
    BY <1>1 DEF F!ClassBodyProcess
  <2>2. Holds(d, "CLASSBODY", 1)
    <3> HIDE DEF pieces
    <3> QED BY WritesHold
  <2> HIDE DEF d, tree
  <2>3. F!ClassBodyProcess(c, token) = d3 BY <2>1
  <2>4. Holds(d1, "BODY", 1) BY <2>2, Updates
  <2> HIDE DEF d1
  <2>5. Holds(d2, "BODY", 1) BY <2>4, Updates
  <2> HIDE DEF d2
  <2>6. Holds(d3, "BODY", 1) BY <2>5, Updates
  <2> HIDE DEF d3
  <2> QED BY <2>3, <2>6 DEF HoldsOne
<1>2. CASE token # "}"
  <2> DEFINE d == F!Keep(c, token)
  <2>1. F!ClassBodyProcess(c, token) = [d EXCEPT !.body = Append(d.body, token)]
    BY <1>2 DEF F!ClassBodyProcess
  <2>2. Holds(d, "CLASSBODY", 1) BY WritesHold
  <2> HIDE DEF d
  <2>3. Holds([d EXCEPT !.body = Append(d.body, token)], "CLASSBODY", 1) BY <2>2, Updates
  <2> QED BY <2>1, <2>3 DEF HoldsOne
<1> QED BY <1>1, <1>2

LEMMA DefHolds ==
  ASSUME NEW c, Holds(c, "DEF", 1), NEW token
  PROVE  HoldsOne(F!DefProcess(c, token), {"BODY", "DEF"})
<1>1. CASE token = "{"
  <2> DEFINE pieces == <<[kind |-> "method", class |-> F!DefClassName(c.ahead),
                          selector |-> F!DefMethodName(c.ahead)]>>
                         \o F!DefArgs(c.ahead) \o <<[kind |-> "line"]>>
             class == F!DefClassName(c.ahead)
             d == F!Flush(c, pieces)
             d1 == [d EXCEPT !.mode = "BODY"]
             d2 == [d1 EXCEPT !.currentClassName = class]
  <2>1. F!DefProcess(c, token) = [d EXCEPT !.mode = "BODY", !.currentClassName = class]
    BY <1>1 DEF F!DefProcess
  <2>2. Holds(d, "DEF", 1)
    <3> HIDE DEF pieces
    <3> QED BY WritesHold
  <2> HIDE DEF d, class
  <2>3. F!DefProcess(c, token) = d2 BY <2>1
  <2>4. Holds(d1, "BODY", 1) BY <2>2, Updates
  <2> HIDE DEF d1
  <2>5. Holds(d2, "BODY", 1) BY <2>4, Updates
  <2> HIDE DEF d2
  <2> QED BY <2>3, <2>5 DEF HoldsOne
<1>2. CASE token # "{"
  <2>1. F!DefProcess(c, token) = F!Keep(c, token) BY <1>2 DEF F!DefProcess
  <2> QED BY <2>1, WritesHold DEF HoldsOne
<1> QED BY <1>1, <1>2

LEMMA PreprocHolds ==
  ASSUME NEW c, Holds(c, "PREPROC", 1), NEW token
  PROVE  HoldsOne(F!PreprocProcess(c, token), {"BODY", "PREPROC"})
<1>1. F!PreprocProcess(c, token) = F!Keep(c, token) => HoldsOne(F!PreprocProcess(c, token), {"BODY", "PREPROC"})
  BY WritesHold DEF HoldsOne
<1>2. CASE ~c.inNumber /\ token = " "
  <2> DEFINE pieces == F!Text(<<"#">> \o Append(c.ahead, token))
             d == F!Flush(c, pieces)
  <2>1. F!PreprocProcess(c, token) = [d EXCEPT !.inNumber = TRUE] BY <1>2 DEF F!PreprocProcess
  <2>2. Holds(d, "PREPROC", 1)
    <3> HIDE DEF pieces
    <3> QED BY WritesHold
  <2> HIDE DEF d
  <2>3. Holds([d EXCEPT !.inNumber = TRUE], "PREPROC", 1) BY <2>2, Updates
  <2> QED BY <2>1, <2>3 DEF HoldsOne
<1>3. CASE c.inNumber /\ token \in F!Spaces
  <2> DEFINE pieces == F!Text(Append(c.ahead, token))
             d == F!Write(c, pieces)
             d1 == [d EXCEPT !.mode = "BODY"]
             d2 == [d1 EXCEPT !.ahead = <<token>>]
             d3 == [d2 EXCEPT !.inNumber = FALSE]
  <2>1. F!PreprocProcess(c, token) = [d EXCEPT !.mode = "BODY", !.ahead = <<token>>, !.inNumber = FALSE]
    BY <1>3 DEF F!PreprocProcess
  <2>2. Holds(d, "PREPROC", 1)
    <3> HIDE DEF pieces
    <3> QED BY WritesHold
  <2> HIDE DEF d
  <2>3. F!PreprocProcess(c, token) = d3 BY <2>1
  <2>4. Holds(d1, "BODY", 1) BY <2>2, Updates
  <2> HIDE DEF d1
  <2>5. Holds(d2, "BODY", 1) BY <2>4, Updates
  <2> HIDE DEF d2
  <2>6. Holds(d3, "BODY", 1) BY <2>5, Updates
  <2> HIDE DEF d3
  <2> QED BY <2>3, <2>6 DEF HoldsOne
<1>4. CASE (~c.inNumber /\ token # " ") \/ (c.inNumber /\ token \notin F!Spaces)
  BY <1>1, <1>4 DEF F!PreprocProcess
<1> QED BY <1>2, <1>3, <1>4

\* The balance of a send: it comes back to 1 when the send is closed.
LEMMA CallHolds ==
  ASSUME NEW c, NEW balance \in Nat \ {0}, Holds(c, "CALL", balance), NEW token
  PROVE  LET d == F!CallProcess(c, token)
         IN Holds(d, "BODY", 1) \/ \E b \in Nat \ {0} : Holds(d, "CALL", b)
<1> DEFINE b == balance + (IF token = "(" THEN 1 ELSE IF token = ")" THEN -1 ELSE 0)
<1>1. c.balance = balance BY DEF Holds
<1>2. b \in Nat OBVIOUS
<1>3. CASE b = 0
  <2> DEFINE pieces == F!Text((IF c.ahead = <<>> THEN <<>> ELSE <<",">>) \o Append(c.ahead, token))
             d == F!Flush(c, pieces)
             d1 == [d EXCEPT !.mode = "BODY"]
             d2 == [d1 EXCEPT !.balance = 1]
  <2>1. F!CallProcess(c, token) = [d EXCEPT !.mode = "BODY", !.balance = 1]
    BY <1>1, <1>3 DEF F!CallProcess
  <2>2. Holds(d, "CALL", balance)
    <3> HIDE DEF pieces
    <3> QED BY WritesHold
  <2> HIDE DEF d
  <2>3. F!CallProcess(c, token) = d2 BY <2>1
  <2>4. Holds(d1, "BODY", balance) BY <2>2, Updates
  <2> HIDE DEF d1
  <2>5. Holds(d2, "BODY", 1) BY <2>4, Updates
  <2> QED BY <2>3, <2>5
<1>4. CASE b # 0
  <2> DEFINE d == F!Keep(c, token)
  <2>1. F!CallProcess(c, token) = [d EXCEPT !.balance = b] BY <1>1, <1>4 DEF F!CallProcess
  <2>2. Holds(d, "CALL", balance) BY WritesHold
  <2> HIDE DEF d, b
  <2>3. Holds([d EXCEPT !.balance = b], "CALL", b) BY <2>2, Updates
  <2> QED BY <1>2, <1>4, <2>1, <2>3
<1> QED BY <1>3, <1>4

LEMMA FilterKeeps ==
  ASSUME NEW c, FilterSound(c), NEW token
  PROVE  FilterSound(F!Process(c, token))
<1> DEFINE d == F!Process(c, token)
<1> SUFFICES FilterSound(d) OBVIOUS
<1>1. ASSUME NEW modes \in SUBSET F!Modes, HoldsOne(d, modes) PROVE FilterSound(d)
  <2> HIDE DEF d
  <2> QED BY <1>1 DEF HoldsOne, Holds, FilterSound
<1>2. CASE c.mode = "CALL"
  <2>1. c.balance \in Nat \ {0} /\ Holds(c, "CALL", c.balance) BY <1>2 DEF FilterSound, Holds
  <2>2. d = F!CallProcess(c, token) BY <1>2 DEF F!Process
  <2>3. Holds(d, "BODY", 1) \/ \E b \in Nat \ {0} : Holds(d, "CALL", b) BY <2>1, <2>2, CallHolds
  <2> HIDE DEF d
  <2>4. CASE Holds(d, "BODY", 1) BY <1>1, <2>4 DEF HoldsOne, F!Modes
  <2>5. ASSUME NEW b \in Nat \ {0}, Holds(d, "CALL", b) PROVE FilterSound(d)
    <3>1. d.balance \in Nat \ {0} /\ d.mode = "CALL" /\ IsFilter(d) BY <2>5 DEF Holds
    <3>2. "CALL" \in F!Modes BY DEF F!Modes
    <3> QED BY ONLY <3>1, <3>2 DEF FilterSound
  <2> QED BY <2>3, <2>4, <2>5
<1>3. CASE c.mode # "CALL"
  <2>1. Holds(c, c.mode, 1) /\ c.mode \in F!Modes BY <1>3 DEF FilterSound, Holds
  <2>2. CASE c.mode = "BODY" BY <1>1, <2>1, <2>2, BodyHolds DEF F!Process, F!Modes
  <2>3. CASE c.mode = "ESCAPE" BY <1>1, <2>1, <2>3, EscapeHolds DEF F!Process, F!Modes
  <2>4. CASE c.mode = "CLASS" BY <1>1, <2>1, <2>4, ClassHolds DEF F!Process, F!Modes
  <2>5. CASE c.mode = "CLASSBODY" BY <1>1, <2>1, <2>5, ClassBodyHolds DEF F!Process, F!Modes
  <2>6. CASE c.mode = "DEF" BY <1>1, <2>1, <2>6, DefHolds DEF F!Process, F!Modes
  <2>7. CASE c.mode = "VAR" BY <1>1, <2>1, <2>7, VarHolds DEF F!Process, F!Modes
  <2>8. CASE c.mode = "PREPROC" BY <1>1, <2>1, <2>8, PreprocHolds DEF F!Process, F!Modes
  <2> QED BY <1>3, <2>1, <2>2, <2>3, <2>4, <2>5, <2>6, <2>7, <2>8 DEF F!Modes
<1> QED BY <1>2, <1>3

-----------------------------------------------------------------------------
(* The files.                                                              *)

LEMMA FilterStarts == FilterSound(F!Start)
<1>1. F!Start.mode = "BODY" /\ F!Start.balance = 1 BY DEF F!Start
<1>2. IsFilter(F!Start)
  <2>1. PICK ahead, receiver, className, superclassName, currentClassName, body, classes, inNumber, out :
          F!Start = [mode |-> "BODY", ahead |-> ahead, receiver |-> receiver, className |-> className,
                     superclassName |-> superclassName, currentClassName |-> currentClassName, body |-> body,
                     classes |-> classes, balance |-> 1, inNumber |-> inNumber, out |-> out]
    BY DEF F!Start
  <2> QED BY ONLY <2>1 DEF IsFilter
<1>3. "BODY" \in F!Modes BY DEF F!Modes
<1> QED BY <1>1, <1>2, <1>3 DEF FilterSound

LEMMA FilesInit ==
  ASSUME Init
  PROVE  FilesInv
<1>1. program = <<>> /\ todo = <<>> /\ translated = <<>> /\ image = <<>> /\ coc = F!Start BY DEF Init
<1>2. program \in Seq(Files) /\ Len(program) = 0 BY <1>1
<1>3. translated \in Seq({}) /\ Len(translated) = 0 BY <1>1
<1>4. Len(Sources) \in Nat BY CoAssumption
<1>5. FilterSound(coc) BY <1>1, FilterStarts
<1> QED BY <1>1, <1>2, <1>3, <1>4, <1>5 DEF FilesInv

LEMMA FilesStep ==
  ASSUME FilesInv, [Next]_vars
  PROVE  FilesInv'
<1>0. /\ program \in Seq(Files) /\ Len(program) <= Len(Sources) /\ Len(program) \in Nat
      /\ Len(Sources) \in Nat /\ Len(translated) \in Nat
      /\ Len(translated) \in Len(program) - 1 .. Len(program)
      /\ FilterSound(coc)
  <2>1. \E S : translated \in Seq(S) BY DEF FilesInv
  <2> QED BY <2>1, CoAssumption DEF FilesInv
<1>1. CASE OpenFile
  <2>1. PICK declarations \in Sources[Len(program) + 1] :
          program' = Append(program, declarations) /\ todo' = All(declarations, DeclarationText)
    BY <1>1 DEF OpenFile
  <2>2. Len(program) < Len(Sources) /\ Len(translated) = Len(program)
        /\ coc' = F!Start /\ translated' = translated /\ image' = image
    BY <1>1 DEF OpenFile
  <2>3. Len(program) + 1 \in DOMAIN Sources BY <1>0, <2>2, CoAssumption
  <2>4. declarations \in Files BY <2>3 DEF Files
  <2>5. program' \in Seq(Files) /\ Len(program') = Len(program) + 1 BY <1>0, <2>1, <2>4
  <2>6. image' = <<>> BY <1>0, <2>2 DEF FilesInv
  <2>7. FilterSound(coc)' BY <2>2, FilterStarts DEF FilterSound, IsFilter
  <2>8. \E S : translated' \in Seq(S) BY <2>2 DEF FilesInv
  <2> QED BY <1>0, <2>2, <2>5, <2>6, <2>7, <2>8 DEF FilesInv
<1>2. CASE Filter
  <2>1. /\ todo # <<>> /\ coc' = F!Process(coc, Head(todo)) /\ program' = program /\ image' = image
        /\ translated' = IF todo' = <<>> THEN Append(translated, coc'.out) ELSE translated
    BY <1>2 DEF Filter
  <2>2. Len(translated) = Len(program) - 1 BY <2>1 DEF FilesInv
  <2>3. image' = <<>> BY <1>0, <2>1, <2>2 DEF FilesInv
  <2>4. FilterSound(coc)'
    <3>1. FilterSound(F!Process(coc, Head(todo))) BY <1>0, FilterKeeps
    <3> QED BY <2>1, <3>1 DEF FilterSound, IsFilter
  <2>5. PICK S : translated \in Seq(S) BY DEF FilesInv
  <2>6. CASE todo' = <<>>
    <3> DEFINE T == S \cup {coc'.out}
    <3>1. translated \in Seq(T) /\ coc'.out \in T BY <2>5
    <3> HIDE DEF T
    <3>2. translated' = Append(translated, coc'.out) BY <2>1, <2>6
    <3>3. translated' \in Seq(T) /\ Len(translated') = Len(translated) + 1 BY <3>1, <3>2
    <3> QED BY <1>0, <2>1, <2>2, <2>3, <2>4, <2>6, <3>3 DEF FilesInv
  <2>7. CASE todo' # <<>>
    <3>1. translated' = translated BY <2>1, <2>7
    <3> QED BY <1>0, <2>1, <2>2, <2>3, <2>4, <2>5, <3>1 DEF FilesInv
  <2> QED BY <2>6, <2>7
<1>3. CASE Link
  <2>1. /\ Len(translated) = Len(Sources) /\ program' = program /\ todo' = todo /\ coc' = coc
        /\ translated' = translated
    BY <1>3 DEF Link
  <2> QED BY <1>0, <2>1 DEF FilesInv, FilterSound, IsFilter
<1>4. CASE UNCHANGED <<program, todo, coc, translated, image>>
  BY <1>4 DEF FilesInv, FilterSound, IsFilter
<1> QED BY <1>1, <1>2, <1>3, <1>4 DEF Next, Kernel, CoInit, Send, New, Perform, Return, vars

\* Before co_init runs there are no classes.
LEMMA LoadStart ==
  ASSUME NEW h, NEW r, r = Start(Names)
  PROVE  /\ Tables(r, h) /\ r.objects = <<>>
         /\ Loading(r, h, h.records, h.records, h.methodRecords)
<1>1. /\ r.classes = <<>> /\ r.classList = <<>> /\ r.objects = <<>>
      /\ \A n \in Names : r.globals[n] = NoClass
  BY DEF Start
<1>2. r \in Runtimes
  <2>1. <<>> \in Seq(Descriptors) /\ <<>> \in Seq(Nat) /\ <<>> \in Seq([class : Nat, size : Nat]) OBVIOUS
  <2>2. [n \in Names |-> NoClass] \in [Names -> Nat] BY DEF NoClass
  <2> QED BY ONLY <2>1, <2>2, r = Start(Names) DEF Start, Runtimes
<1>3. ASSUME NEW n PROVE FindClass(r, n) = NoClass
  <2>1. r.classList \in Seq(Nat) /\ Len(r.classList) = 0 BY <1>1
  <2>2. FindClass(r, n) = NoClass \/ \E i \in 1 .. Len(r.classList) : TRUE BY <2>1, FindClassFacts DEF IsFirst
  <2> QED BY <2>1, <2>2
<1>4. DOMAIN r.classes = {} /\ DOMAIN r.classList = {} BY <1>1
<1>5. \A n \in AllNames : FindClass(r, n) = Global(r, n) BY <1>1, <1>3 DEF Global
<1>6. Found(r) BY <1>1, <1>2, <1>4, <1>5 DEF Found
<1>7. Tables(r, h) /\ Fresh(r) BY <1>4, <1>6 DEF Tables, Fresh
<1> QED BY <1>1, <1>7 DEF Loading

-----------------------------------------------------------------------------
(* The steps of the kernel.                                                *)

LEMMA PlanStays ==
  ASSUME program' = program, image' = image
  PROVE  Plan' = Plan /\ (Compiled => Compiled')
<1>0. Plan' = Plan BY DEF Plan, Declared, DeclaredClasses, SuperclassOf
<1>1. Declared' = Declared BY DEF Declared
<1>2. ClassesCompiled => ClassesCompiled' BY ONLY <1>1, image' = image DEF ClassesCompiled
<1>3. MethodsCompiled => MethodsCompiled' BY ONLY <1>1, image' = image DEF MethodsCompiled
<1>4. StructsCompiled => StructsCompiled' BY ONLY <1>1, image' = image DEF StructsCompiled
<1> QED BY <1>0, <1>2, <1>3, <1>4 DEF Compiled

\* A sequence without its first element.
LEMMA TailFacts ==
  ASSUME NEW S, NEW q \in Seq(S), q # <<>>
  PROVE  /\ Head(q) \in ToSet(q) /\ Head(q) \in S /\ Tail(q) \in Seq(S)
         /\ ToSet(Tail(q)) \subseteq ToSet(q) /\ ToSet(q) \subseteq ToSet(Tail(q)) \cup {Head(q)}
         /\ Len(Tail(q)) = Len(q) - 1
<1>1. /\ Tail(q) \in Seq(S) /\ Head(q) \in S /\ Head(q) = q[1] /\ 1 \in DOMAIN q
      /\ Len(q) \in Nat /\ Len(Tail(q)) = Len(q) - 1
      /\ \A i \in 1 .. Len(q) - 1 : Tail(q)[i] = q[i + 1]
  OBVIOUS
<1>2. ToSet(Tail(q)) \subseteq ToSet(q)
  <2> SUFFICES ASSUME NEW i \in DOMAIN Tail(q) PROVE Tail(q)[i] \in ToSet(q) BY DEF ToSet
  <2>1. i \in 1 .. Len(q) - 1 BY <1>1
  <2>2. i + 1 \in DOMAIN q /\ Tail(q)[i] = q[i + 1] BY <1>1, <2>1
  <2> QED BY <2>2 DEF ToSet
<1>3. ToSet(q) \subseteq ToSet(Tail(q)) \cup {Head(q)}
  <2> SUFFICES ASSUME NEW i \in DOMAIN q, i # 1 PROVE q[i] \in ToSet(Tail(q)) BY <1>1 DEF ToSet
  <2>1. i - 1 \in 1 .. Len(q) - 1 /\ (i - 1) + 1 = i BY <1>1
  <2>2. i - 1 \in DOMAIN Tail(q) /\ Tail(q)[i - 1] = q[i] BY <1>1, <2>1
  <2> QED BY <2>2 DEF ToSet
<1> QED BY <1>1, <1>2, <1>3 DEF ToSet

\* Three sequences that are joined.
LEMMA ThreeFacts ==
  ASSUME NEW A, NEW B, NEW C, NEW a \in Seq(A), NEW b \in Seq(B), NEW c \in Seq(C), NEW t, t = a \o b \o c
  PROVE  /\ Len(t) = Len(a) + Len(b) + Len(c)
         /\ t = <<>> <=> a = <<>> /\ b = <<>> /\ c = <<>>
<1> DEFINE T == A \cup B \cup C
<1>1. a \in Seq(T) /\ b \in Seq(T) /\ c \in Seq(T) OBVIOUS
<1> HIDE DEF T
<1>2. a \o b \in Seq(T) /\ Len(a \o b) = Len(a) + Len(b) BY <1>1
<1>3. t \in Seq(T) /\ Len(t) = Len(a \o b) + Len(c) BY <1>1, <1>2
<1>4. Len(a) \in Nat /\ Len(b) \in Nat /\ Len(c) \in Nat BY <1>1
<1>5. (a = <<>> <=> Len(a) = 0) /\ (b = <<>> <=> Len(b) = 0) /\ (c = <<>> <=> Len(c) = 0) /\ (t = <<>> <=> Len(t) = 0)
  BY <1>1, <1>3
<1> QED BY <1>2, <1>3, <1>4, <1>5

LEMMA OneLess ==
  ASSUME NEW A, NEW B, NEW C, NEW a \in Seq(A), NEW b \in Seq(B), NEW c \in Seq(C),
         NEW u \in Seq(A), NEW v \in Seq(B), NEW w \in Seq(C),
         \/ Len(u) = Len(a) - 1 /\ v = b /\ w = c
         \/ u = a /\ Len(v) = Len(b) - 1 /\ w = c
         \/ u = a /\ v = b /\ Len(w) = Len(c) - 1,
         NEW t, t = a \o b \o c, NEW r, r = u \o v \o w
  PROVE  Len(t) = 1 <=> r = <<>>
<1>1. Len(t) = Len(a) + Len(b) + Len(c) BY ThreeFacts
<1>2. Len(r) = Len(u) + Len(v) + Len(w) /\ (r = <<>> <=> u = <<>> /\ v = <<>> /\ w = <<>>) BY ThreeFacts
<1>3. Len(u) \in Nat /\ Len(v) \in Nat /\ Len(w) \in Nat OBVIOUS
<1>4. Len(a) \in Nat /\ Len(b) \in Nat /\ Len(c) \in Nat OBVIOUS
<1>5. (u = <<>> <=> Len(u) = 0) /\ (v = <<>> <=> Len(v) = 0) /\ (w = <<>> <=> Len(w) = 0) OBVIOUS
<1>6. \/ Len(u) = Len(a) - 1 /\ Len(v) = Len(b) /\ Len(w) = Len(c)
      \/ Len(u) = Len(a) /\ Len(v) = Len(b) - 1 /\ Len(w) = Len(c)
      \/ Len(u) = Len(a) /\ Len(v) = Len(b) /\ Len(w) = Len(c) - 1
  OBVIOUS
<1>7. Len(a) + Len(b) + Len(c) = 1 + (Len(u) + Len(v) + Len(w))
  <2> DEFINE k == Len(a)
             l == Len(b)
             m == Len(c)
             x == Len(u)
             y == Len(v)
             z == Len(w)
  <2>1. /\ k \in Nat /\ l \in Nat /\ m \in Nat /\ x \in Nat /\ y \in Nat /\ z \in Nat
        /\ (x = k - 1 /\ y = l /\ z = m) \/ (x = k /\ y = l - 1 /\ z = m) \/ (x = k /\ y = l /\ z = m - 1)
    BY <1>3, <1>4, <1>6
  <2> SUFFICES k + l + m = 1 + (x + y + z) OBVIOUS
  <2> HIDE DEF k, l, m, x, y, z
  <2> QED BY ONLY <2>1
<1> QED BY ONLY <1>1, <1>2, <1>3, <1>4, <1>5, <1>7

\* The main function on an empty stack.
LEMMA MainOn ==
  ASSUME NEW h, SoundSends(h), h.main = image.main, NEW r
  PROVE  IsStack(r, h, <<Main>>)
<1> DEFINE st == <<Main>>
<1>1. IsFrame(Main) /\ IsMain(Main) /\ Main.method = MainMethod /\ Main.sends = h.main
  <2> DEFINE call == [self |-> Null, selector |-> "main", super |-> FALSE, arg |-> "", result |-> ""]
  <2>1. Main = Frame(MainMethod, call, image.main) BY DEF Main, MainMethod
  <2>2. /\ IsFrame(Main) /\ Main.self = call.self /\ Main.result = call.result
        /\ Main.method = MainMethod /\ Main.sends = image.main
    <3> HIDE DEF call
    <3> QED BY <2>1, FrameIs
  <2> QED BY <2>2 DEF IsMain
<1>2. AreSends(h, Main.method, Main.sends) BY <1>1 DEF SoundSends
<1>3. st \in Seq({Main}) /\ Len(st) = 1 /\ st[1] = Main OBVIOUS
<1> HIDE DEF st
<1>4. \A i \in 1 .. Len(st) : i = 1 /\ i = Len(st) BY <1>3
<1>5. IsStack(r, h, st) BY <1>1, <1>2, <1>3, <1>4 DEF IsStack
<1> QED BY <1>5 DEF st

LEMMA CoInitStep ==
  ASSUME NEW h, Sound(h), SoundSends(h), h.main = image.main,
         Executes(h, co, records, stack, variables), CoInit
  PROVE  Executes(h, co', records', stack', variables')
<1> DEFINE a == records.classes
           b == records.parents
           c == records.methods
<1>1. /\ a \in Seq(ClassRecordSet) /\ b \in Seq(ClassRecordSet) /\ c \in Seq(MethodRecordSet)
      /\ ToSet(a) \subseteq h.records /\ ToSet(b) \subseteq h.records /\ ToSet(c) \subseteq h.methodRecords
      /\ records = [classes |-> a, parents |-> b, methods |-> c]
  BY DEF Executes
<1>2. Left = a \o b \o c /\ Left # <<>> /\ variables' = variables
      /\ stack' = IF Len(Left) = 1 /\ ~Full(co') THEN <<Main>> ELSE <<>>
  BY DEF CoInit, Left
<1>3. Loading(co, h, ToSet(a), ToSet(b), ToSet(c)) /\ co.objects = <<>> /\ DOMAIN variables = {}
  BY <1>2 DEF Executes
<1>4. ToSet(<<>>) = {} BY DEF ToSet
<1>5. co \in Runtimes BY <1>3 DEF Loading, Tables, Found
<1>6. ASSUME NEW u \in Seq(ClassRecordSet), NEW v \in Seq(ClassRecordSet), NEW w \in Seq(MethodRecordSet),
             records' = [classes |-> u, parents |-> v, methods |-> w],
             ToSet(u) \subseteq h.records, ToSet(v) \subseteq h.records, ToSet(w) \subseteq h.methodRecords,
             Loading(co', h, ToSet(u), ToSet(v), ToSet(w)), co'.objects = <<>>,
             Len(Left) = 1 => u = <<>> /\ v = <<>> /\ w = <<>>,
             Len(Left) # 1 => u \o v \o w # <<>>
      PROVE  Executes(h, co', records', stack', variables')
  <2>1. CASE stack' = <<>>
    <3>1. records'.classes = u /\ records'.parents = v /\ records'.methods = w BY <1>6
    <3> QED BY <1>2, <1>3, <1>6, <2>1, <3>1 DEF Executes, Loading
  <2>2. CASE stack' # <<>>
    <3>1. Len(Left) = 1 /\ stack' = <<Main>> BY <1>2, <2>2
    <3>2. u = <<>> /\ v = <<>> /\ w = <<>> BY <1>6, <3>1
    <3>3. Loading(co', h, {}, {}, {}) BY <1>4, <1>6, <3>2
    <3>4. Ready(co', h) BY <3>3, LoadedReady
    <3>5. IsStack(co', h, stack') BY <3>1, MainOn
    <3>6. ObjectsSound(co', h)
      <4>1. Len(co'.objects) = 0 BY <1>6
      <4> QED BY <4>1 DEF ObjectsSound
    <3>7. SendsSoundly(co', h, stack', variables') BY <1>2, <1>3, <3>4, <3>5, <3>6 DEF SendsSoundly
    <3>8. u \o v \o w = <<>> BY <3>2, ThreeFacts
    <3>9. records'.classes = u /\ records'.parents = v /\ records'.methods = w BY <1>6
    <3> QED BY <1>6, <3>7, <3>8, <3>9 DEF Executes, Loading
  <2> QED BY <2>1, <2>2
<1>7. CASE a # <<>>
  <2>1. co' = InitClass(co, Head(a)) /\ records' = [records EXCEPT !.classes = Tail(a)]
    BY <1>7, ThreeFacts DEF CoInit
  <2>2. /\ Head(a) \in ToSet(a) /\ Head(a) \in ClassRecordSet /\ Tail(a) \in Seq(ClassRecordSet)
        /\ ToSet(Tail(a)) \subseteq ToSet(a) /\ ToSet(a) \subseteq ToSet(Tail(a)) \cup {Head(a)}
    BY <1>1, <1>7, TailFacts
  <2>3. Loading(co', h, ToSet(Tail(a)), ToSet(b), ToSet(c))
    <3>1. Head(a) \in h.records BY <1>1, <2>2
    <3> HIDE DEF a, b, c
    <3> QED BY ONLY <1>3, <2>1, <2>2, <3>1, LoadClass, Sound(h)
  <2>4. co'.objects = <<>>
    <3>1. Head(a) \in ClassRecordSet /\ co' = InitClass(co, Head(a)) BY <2>1, <2>2
    <3> HIDE DEF a, b, c
    <3>2. co'.objects = co.objects BY ONLY <1>5, <3>1, InitClassFacts
    <3> QED BY ONLY <1>3, <3>2
  <2>5. records' = [classes |-> Tail(a), parents |-> b, methods |-> c] BY <1>1, <2>1
  <2>6. Len(Left) = 1 <=> Tail(a) \o b \o c = <<>>
    <3> DEFINE u == Tail(a)
    <3>1. Len(u) = Len(a) - 1 /\ u \in Seq(ClassRecordSet) BY <1>1, <1>7, TailFacts
    <3> HIDE DEF a, b, c, u
    <3>2. Len(Left) = 1 <=> u \o b \o c = <<>> BY ONLY <1>1, <1>2, <3>1, OneLess
    <3> QED BY <3>2 DEF u
  <2>7. Len(Left) = 1 => Tail(a) = <<>> /\ b = <<>> /\ c = <<>> BY <1>1, <2>2, <2>6, ThreeFacts
  <2>8. ToSet(Tail(a)) \subseteq h.records BY <1>1, <2>2
  <2> HIDE DEF a, b, c
  <2> QED BY <1>1, <1>6, <2>2, <2>3, <2>4, <2>5, <2>6, <2>7, <2>8
<1>8. CASE a = <<>> /\ b # <<>>
  <2>1. co' = InitParent(co, Head(b)) /\ records' = [records EXCEPT !.parents = Tail(b)]
    BY <1>8, ThreeFacts DEF CoInit
  <2>2. /\ Head(b) \in ToSet(b) /\ Head(b) \in ClassRecordSet /\ Tail(b) \in Seq(ClassRecordSet)
        /\ ToSet(Tail(b)) \subseteq ToSet(b) /\ ToSet(b) \subseteq ToSet(Tail(b)) \cup {Head(b)}
    BY <1>1, <1>8, TailFacts
  <2>3. Loading(co', h, ToSet(a), ToSet(Tail(b)), ToSet(c))
    <3>1. Head(b) \in h.records /\ ToSet(a) = {} BY <1>1, <1>4, <1>8, <2>2
    <3> HIDE DEF a, b, c
    <3> QED BY ONLY <1>3, <2>1, <2>2, <3>1, LoadParent, Sound(h)
  <2>4. co'.objects = <<>>
    <3> HIDE DEF a, b, c
    <3> QED BY ONLY <1>3, <1>5, <2>1, <2>2, InitParentFacts
  <2>5. records' = [classes |-> a, parents |-> Tail(b), methods |-> c] BY <1>1, <2>1
  <2>6. Len(Left) = 1 <=> a \o Tail(b) \o c = <<>>
    <3> DEFINE u == Tail(b)
    <3>1. Len(u) = Len(b) - 1 /\ u \in Seq(ClassRecordSet) BY <1>1, <1>8, TailFacts
    <3> HIDE DEF a, b, c, u
    <3>2. Len(Left) = 1 <=> a \o u \o c = <<>> BY ONLY <1>1, <1>2, <3>1, OneLess
    <3> QED BY <3>2 DEF u
  <2>7. Len(Left) = 1 => a = <<>> /\ Tail(b) = <<>> /\ c = <<>> BY <1>1, <2>2, <2>6, ThreeFacts
  <2>8. ToSet(Tail(b)) \subseteq h.records BY <1>1, <2>2
  <2> HIDE DEF a, b, c
  <2> QED BY <1>1, <1>6, <2>2, <2>3, <2>4, <2>5, <2>6, <2>7, <2>8
<1>9. CASE a = <<>> /\ b = <<>>
  <2>1. c # <<>> BY <1>1, <1>2, <1>9, ThreeFacts
  <2>2. co' = InitMethod(co, Head(c)) /\ records' = [records EXCEPT !.methods = Tail(c)]
    BY <1>9, <2>1 DEF CoInit
  <2>3. /\ Head(c) \in ToSet(c) /\ Head(c) \in MethodRecordSet /\ Tail(c) \in Seq(MethodRecordSet)
        /\ ToSet(Tail(c)) \subseteq ToSet(c) /\ ToSet(c) \subseteq ToSet(Tail(c)) \cup {Head(c)}
    BY <1>1, <2>1, TailFacts
  <2>4. Loading(co', h, ToSet(a), ToSet(b), ToSet(Tail(c)))
    <3>1. Head(c) \in h.methodRecords /\ ToSet(a) = {} /\ ToSet(b) = {} BY <1>1, <1>4, <1>9, <2>3
    <3> HIDE DEF a, b, c
    <3>2. ToSet(c) \subseteq ToSet(Tail(c)) \cup {Head(c)} BY ONLY <2>3
    <3>3. Loading(co, h, {}, {}, ToSet(c)) BY ONLY <1>3, <3>1
    <3>4. Loading(co', h, {}, {}, ToSet(Tail(c)))
      BY ONLY <2>2, <3>1, <3>2, <3>3, LoadMethod, Sound(h)
    <3> QED BY ONLY <3>1, <3>4
  <2>5. co'.objects = <<>>
    <3>1. Head(c) \in MethodRecordSet /\ co' = InitMethod(co, Head(c)) BY <2>2, <2>3
    <3> HIDE DEF a, b, c
    <3>2. co'.objects = co.objects BY ONLY <1>5, <3>1, InitMethodFacts
    <3> QED BY ONLY <1>3, <3>2
  <2>6. records' = [classes |-> a, parents |-> b, methods |-> Tail(c)] BY <1>1, <2>2
  <2>7. Len(Left) = 1 <=> a \o b \o Tail(c) = <<>>
    <3> DEFINE u == Tail(c)
    <3>1. Len(u) = Len(c) - 1 /\ u \in Seq(MethodRecordSet) BY <1>1, <2>1, TailFacts
    <3> HIDE DEF a, b, c, u
    <3>2. Len(Left) = 1 <=> a \o b \o u = <<>> BY ONLY <1>1, <1>2, <3>1, OneLess
    <3> QED BY <3>2 DEF u
  <2>8. Len(Left) = 1 => a = <<>> /\ b = <<>> /\ Tail(c) = <<>> BY <1>1, <2>3, <2>7, ThreeFacts
  <2>9. ToSet(Tail(c)) \subseteq h.methodRecords BY <1>1, <2>3
  <2> HIDE DEF a, b, c
  <2> QED BY <1>1, <1>6, <2>3, <2>4, <2>5, <2>6, <2>7, <2>8, <2>9
<1> QED BY <1>7, <1>8, <1>9

LEMMA GoesOn ==
  ASSUME NEW h, Executes(h, co, records, stack, variables), stack # <<>>, records' = records,
         Tables(co', h), stack' # <<>> => SendsSoundly(co', h, stack', variables')
  PROVE  Executes(h, co', records', stack', variables')
BY DEF Executes

\* The object of the method that runs.
LEMMA SelfIs ==
  ASSUME NEW h, SendsSoundly(co, h, stack, variables), stack # <<>>
  PROVE  /\ IsValue(co, h, Active.self)
         /\ Active.self # Null => Tail(stack) # <<>> /\ Called(co, h, Active, Tail(stack)[1])
<1>1. OnTop(co, h, Active, Tail(stack)) BY StackTail DEF SendsSoundly, Active
<1>2. CASE Tail(stack) = <<>> BY <1>1, <1>2 DEF OnTop, IsMain, IsValue
<1>3. CASE Tail(stack) # <<>>
  <2>1. Called(co, h, Active, Tail(stack)[1]) BY <1>1, <1>3 DEF OnTop
  <2>2. \E N \in h.classes : IsA(co, h, Active.self, N) BY <2>1 DEF Called
  <2> QED BY <1>3, <2>1, <2>2 DEF IsValue
<1> QED BY <1>2, <1>3

\* Any receiver but null and the class Class is an object of a class.
LEMMA ValueIs ==
  ASSUME NEW h, Sound(h), SendsSoundly(co, h, stack, variables), stack # <<>>,
         NEW x, x # "Class", Value(x) # Null
  PROVE  \E N \in h.classes : IsA(co, h, Value(x), N)
<1>1. CASE x = "self"
  <2>1. Value(x) = Active.self BY <1>1 DEF Value
  <2> QED BY <2>1, SelfIs DEF IsValue
<1>2. CASE x # "self" /\ x \in DOMAIN variables
  <2>1. Value(x) = variables[x] BY <1>2 DEF Value
  <2> QED BY <1>2, <2>1 DEF SendsSoundly, IsValue
<1>3. CASE x # "self" /\ x \notin DOMAIN variables
  <2>1. x \in Names /\ Value(x) = ClassObject(co.globals[x]) BY <1>3 DEF Value
  <2>2. co.globals[x] # NoClass BY <2>1 DEF ClassObject
  <2>3. Tables(co, h) BY DEF SendsSoundly, Ready
  <2>4. co.globals[x] \in DOMAIN co.classes /\ co.classes[co.globals[x]].name = x
    BY <2>1, <2>2, <2>3 DEF Tables, Found
  <2>5. x \in h.classes BY <2>3, <2>4 DEF Tables, Table
  <2>6. "Class" \in h.classes BY <2>5 DEF Sound
  <2> QED BY <2>1, <2>5, <2>6 DEF IsA
<1> QED BY <1>1, <1>2, <1>3

\* basicInvoke in terms of what it chooses.
LEMMA Invokes ==
  ASSUME NEW r, NEW rest, NEW class, NEW call, BasicInvoke(r, rest, class, call)
  PROVE  /\ Answered(r, class, call)
         /\ stack' = <<Frame(Chosen(r, class, call), call, image.functions[Chosen(r, class, call)])>> \o rest
BY DEF BasicInvoke, Answered, Chosen

LEMMA SendStep ==
  ASSUME NEW h, Sound(h), SoundSends(h), h.functions = image.functions,
         Executes(h, co, records, stack, variables), Send
  PROVE  Executes(h, co', records', stack', variables')
<1> DEFINE send == Head(Active.sends)
           object == IF send.super THEN Active.self ELSE Value(send.target[1])
           q == <<[Active EXCEPT !.sends = Tail(@)]>> \o Tail(stack)
           class == IF send.super THEN SuperClass(send) ELSE ClassOf(co, object)
           call == [self |-> object, selector |-> send.selector, super |-> send.super,
                    arg |-> send.arg, result |-> send.result]
           m == Chosen(co, class, call)
<1>1. /\ stack # <<>> /\ Active.sends # <<>> /\ object # Null /\ BasicInvoke(co, q, class, call)
      /\ co' = co /\ records' = records /\ variables' = variables
  BY DEF Send, Running
<1>2. SendsSoundly(co, h, stack, variables) /\ Ready(co, h) /\ IsStack(co, h, stack)
  BY <1>1 DEF Executes, SendsSoundly
<1>3. IsStack(co, h, q) /\ q # <<>> /\ q[1].method = Active.method /\ MaySend(h, Active.method, send)
  <2>1. q = <<[Head(stack) EXCEPT !.sends = Tail(@)]>> \o Tail(stack) BY DEF Active
  <2>2. Active = Head(stack) BY DEF Active
  <2> HIDE DEF q
  <2> QED BY ONLY <1>1, <1>2, <2>1, <2>2, ActiveGoesOn
<1>4. \E N \in h.classes : \E start \in {"object"} \cup Ancestors(h, N) :
        /\ IsA(co, h, object, N) /\ class = Global(co, start)
        /\ send.super => q[1].method.class \in h.classes /\ start = h.up[q[1].method.class]
        /\ ~send.super => start = N
  <2> HIDE DEF q, class
  <2>1. CASE send.super
    <3> DEFINE C == Active.method.class
               up == h.up[C]
    <3>1. Called(co, h, Active, Tail(stack)[1]) BY <1>1, <1>2, <2>1, SelfIs
    <3>2. PICK N \in h.classes : IsA(co, h, Active.self, N) /\ C \in Ancestors(h, N) BY <3>1 DEF Called
    <3>3. C \in h.classes /\ send.target[1] = C /\ up # "object" BY <1>3, <2>1 DEF MaySend
    <3>4. up \in h.classes BY <3>3 DEF Sound
    <3>5. up \in Ancestors(h, N) BY <3>2, <3>4, AncestorsFacts
    <3>6. SuperClass(send) = Global(co, up)
      <4>1. co.classes[co.globals[C]].parent = Global(co, up) BY <1>2, <3>3 DEF Ready, Joined
      <4>2. Global(co, up) # NoClass BY <1>2, <3>4, GlobalFacts
      <4> HIDE DEF C, up, send
      <4> QED BY <3>3, <4>1, <4>2 DEF SuperClass
    <3>7. class = Global(co, up) BY <2>1, <3>6 DEF class
    <3> QED BY <1>3, <2>1, <3>2, <3>3, <3>5, <3>7
  <2>2. CASE ~send.super
    <3>1. object = Value(send.target[1]) /\ send.target[1] # "Class" BY <1>3, <2>2 DEF MaySend
    <3>2. PICK N \in h.classes : IsA(co, h, object, N) BY <1>1, <1>2, <3>1, ValueIs
    <3>3. ClassOf(co, object) = Global(co, N) BY <1>2, <3>2, ClassOfIs
    <3>4. class = Global(co, N) BY <2>2, <3>3 DEF class
    <3>5. N \in {"object"} \cup Ancestors(h, N) BY AncestorsFacts
    <3> QED BY <2>2, <3>2, <3>4, <3>5
  <2> QED BY <2>1, <2>2
<1>5. Answered(co, class, call) /\ stack' = <<Frame(m, call, h.functions[m])>> \o q
  <2> HIDE DEF q, class, call
  <2> QED BY <1>1, Invokes
<1>6. IsStack(co, h, stack')
  <2>0. PICK N \in h.classes : \E start \in {"object"} \cup Ancestors(h, N) :
          /\ IsA(co, h, object, N) /\ class = Global(co, start)
          /\ send.super => q[1].method.class \in h.classes /\ start = h.up[q[1].method.class]
          /\ ~send.super => start = N
    BY <1>4
  <2>4. PICK start \in {"object"} \cup Ancestors(h, N) :
          /\ IsA(co, h, object, N) /\ class = Global(co, start)
          /\ send.super => q[1].method.class \in h.classes /\ start = h.up[q[1].method.class]
          /\ ~send.super => start = N
    BY <2>0
  <2>1. call.self = object /\ call.super = send.super OBVIOUS
  <2> HIDE DEF q, class, call, object, send
  <2>2. m = Chosen(co, class, call) OBVIOUS
  <2> HIDE DEF m
  <2> QED BY ONLY <1>2, <1>3, <1>5, <2>4, <2>1, <2>2, Sound(h), SoundSends(h), CallOn
<1>7. SendsSoundly(co', h, stack', variables') BY <1>1, <1>2, <1>6 DEF SendsSoundly
<1>8. Tables(co', h) BY <1>1, <1>2 DEF Ready
<1> QED BY <1>1, <1>7, <1>8, GoesOn

LEMMA NewStep ==
  ASSUME NEW h, Sound(h), SoundSends(h), h.functions = image.functions,
         Executes(h, co, records, stack, variables), New
  PROVE  Executes(h, co', records', stack', variables')
<1> DEFINE send == Head(Active.sends)
           q == Tail(stack)
           class == Active.self.place
           object == Object(Len(co'.objects))
           call == [self |-> object, selector |-> send.selector,
                    super |-> FALSE, arg |-> send.arg, result |-> Active.result]
           m == Chosen(co', class, call)
<1>1. /\ stack # <<>> /\ Active.method = [class |-> "Class", selector |-> "new"]
      /\ co' = CreateObject(co, class) /\ records' = records /\ variables' = variables
      /\ IF Full(co') THEN stack' = <<>> ELSE BasicInvoke(co', q, class, call)
  BY DEF New, Running, IsNative
<1>2. SendsSoundly(co, h, stack, variables) /\ Ready(co, h) /\ IsStack(co, h, stack) /\ ObjectsSound(co, h)
  BY <1>1 DEF Executes, SendsSoundly
<1>3. q # <<>> /\ IsStack(co, h, q) /\ Called(co, h, Active, q[1])
  <2>1. Active.method # MainMethod
    <3>1. Active.method.selector = "new" BY <1>1
    <3>2. MainMethod.selector = "main" BY DEF MainMethod
    <3> QED BY <3>1, <3>2
  <2> QED BY <1>1, <1>2, <2>1, OthersAreCalled DEF Active
<1>4. PICK N \in h.classes : IsA(co, h, Active.self, N) /\ Active.method.class \in Ancestors(h, N)
  BY <1>3 DEF Called
<1>5. N = "Class" BY <1>1, <1>4, AncestorsFacts
<1>6. PICK M \in h.classes : M # "Class" /\ class = co.globals[M] BY <1>2, <1>4, <1>5, ClassOfIs
<1> HIDE DEF class, q
<1>7. /\ Ready(co', h) /\ ObjectsSound(co', h)
      /\ \A o, C : IsA(co, h, o, C) => IsA(co', h, o, C)
      /\ IsA(co', h, object, M)
  <2>1. co' = CreateObject(co, co.globals[M]) BY <1>1, <1>6
  <2>2. Ready(co', h) /\ ObjectsSound(co', h) BY ONLY <1>2, <1>6, <2>1, Sound(h), CreateFacts
  <2>3. ASSUME NEW o, NEW C, IsA(co, h, o, C) PROVE IsA(co', h, o, C)
    BY ONLY <1>2, <1>6, <2>1, <2>3, Sound(h), CreateFacts
  <2>4. IsA(co', h, object, M) BY ONLY <1>2, <1>6, <2>1, Sound(h), CreateFacts
  <2> QED BY <2>2, <2>3, <2>4
<1>8. IsStack(co', h, q) BY <1>3, <1>7, StackStays
<1>9. ASSUME ~Full(co') PROVE IsStack(co', h, stack')
  <2>1. Answered(co', class, call) /\ stack' = <<Frame(m, call, h.functions[m])>> \o q
    <3>1. BasicInvoke(co', q, class, call) BY <1>1, <1>9
    <3> HIDE DEF call
    <3> QED BY <3>1, Invokes
  <2>2. call.self = object /\ ~call.super OBVIOUS
  <2>3. class = Global(co', M)
    <3>1. Global(co', M) = co'.globals[M] BY <1>7, GlobalFacts
    <3>2. co'.globals = co.globals
      <4>1. co \in Runtimes BY <1>2 DEF Ready, Tables, Found
      <4> QED BY <1>1, <4>1 DEF CreateObject, Malloc, Runtimes
    <3> QED BY <1>6, <3>1, <3>2
  <2>4. M \in {"object"} \cup Ancestors(h, M) BY AncestorsFacts
  <2>5. m = Chosen(co', class, call) OBVIOUS
  <2> HIDE DEF call, object, m, send
  <2>6. IsA(co', h, call.self, M) BY <1>7, <2>2
  <2> QED BY ONLY <1>3, <1>6, <1>7, <1>8, <2>1, <2>2, <2>3, <2>4, <2>5, <2>6, Sound(h), SoundSends(h), CallOn
<1>10. \A x \in DOMAIN variables' : IsValue(co', h, variables'[x])
  BY <1>1, <1>2, <1>7 DEF SendsSoundly, IsValue
<1>11. stack' # <<>> => SendsSoundly(co', h, stack', variables')
  BY <1>1, <1>7, <1>9, <1>10 DEF SendsSoundly
<1>12. Tables(co', h) BY <1>7 DEF Ready
<1> QED BY <1>1, <1>11, <1>12, GoesOn

LEMMA PerformStep ==
  ASSUME NEW h, Sound(h), SoundSends(h), h.functions = image.functions,
         Executes(h, co, records, stack, variables), Perform
  PROVE  Executes(h, co', records', stack', variables')
<1> DEFINE q == Tail(stack)
           class == ClassOf(co, Active.self)
           call == [self |-> Active.self, selector |-> Active.arg, super |-> FALSE,
                    arg |-> "", result |-> Active.result]
           m == Chosen(co, class, call)
<1>1. /\ stack # <<>> /\ Active.method = [class |-> "Object", selector |-> "perform"]
      /\ co' = co /\ records' = records /\ variables' = variables /\ BasicInvoke(co, q, class, call)
  BY DEF Perform, Running, IsNative
<1>2. SendsSoundly(co, h, stack, variables) /\ Ready(co, h) /\ IsStack(co, h, stack)
  BY <1>1 DEF Executes, SendsSoundly
<1>3. q # <<>> /\ IsStack(co, h, q) /\ Called(co, h, Active, q[1])
  <2>1. Active.method # MainMethod
    <3> HIDE DEF q, class, call
    <3>1. Active.method.selector = "perform" BY <1>1
    <3>2. MainMethod.selector = "main" BY DEF MainMethod
    <3> QED BY <3>1, <3>2
  <2> QED BY <1>1, <1>2, <2>1, OthersAreCalled DEF Active
<1>4. PICK N \in h.classes : IsA(co, h, Active.self, N) BY <1>3 DEF Called
<1>5. class = Global(co, N) BY <1>2, <1>4, ClassOfIs
<1>6. Answered(co, class, call) /\ stack' = <<Frame(m, call, h.functions[m])>> \o q
  <2> HIDE DEF q, class, call
  <2> QED BY <1>1, Invokes
<1>7. IsStack(co, h, stack')
  <2>1. IsA(co, h, call.self, N) /\ ~call.super BY <1>4
  <2>2. N \in {"object"} \cup Ancestors(h, N) BY AncestorsFacts
  <2>3. m = Chosen(co, class, call) OBVIOUS
  <2> HIDE DEF q, class, call, m
  <2> QED BY ONLY <1>2, <1>3, <1>5, <1>6, <2>1, <2>2, <2>3, Sound(h), SoundSends(h), CallOn
<1>8. SendsSoundly(co', h, stack', variables') BY <1>1, <1>2, <1>7 DEF SendsSoundly
<1>9. Tables(co', h) BY <1>1, <1>2 DEF Ready
<1> QED BY <1>1, <1>8, <1>9, GoesOn

LEMMA ReturnStep ==
  ASSUME NEW h, Sound(h), Executes(h, co, records, stack, variables), Return
  PROVE  Executes(h, co', records', stack', variables')
<1>1. stack # <<>> /\ stack' = Tail(stack) /\ co' = co /\ records' = records
  BY DEF Return, Running
<1>2. SendsSoundly(co, h, stack, variables) /\ Ready(co, h) /\ ObjectsSound(co, h) /\ IsStack(co, h, stack)
      /\ \A x \in DOMAIN variables : IsValue(co, h, variables[x])
  BY <1>1 DEF Executes, SendsSoundly
<1>3. IsStack(co, h, stack') BY <1>1, <1>2, StackTail
<1>4. IsValue(co, h, Active.self) /\ IsValue(co, h, Null) BY <1>1, <1>2, SelfIs DEF IsValue
<1>5. \A x \in DOMAIN variables' : IsValue(co, h, variables'[x])
  <2>1. CASE Active.result = "" BY <1>2, <2>1 DEF Return
  <2>2. CASE Active.result # ""
    <3>1. variables' = [x \in {Active.result} \cup DOMAIN variables |->
                          IF x # Active.result THEN variables[x]
                          ELSE IF IsNative(Active.method, "doesNotUnderstand") THEN Null
                          ELSE Active.self]
      BY <2>2 DEF Return
    <3> QED BY <1>2, <1>4, <3>1
  <2> QED BY <2>1, <2>2
<1>6. SendsSoundly(co', h, stack', variables') BY <1>1, <1>2, <1>3, <1>5 DEF SendsSoundly
<1>7. Tables(co', h) BY <1>1, <1>2 DEF Ready
<1> QED BY <1>1, <1>6, <1>7, GoesOn

LEMMA KernelInit ==
  ASSUME Init
  PROVE  KernelInv
<1>1. image = <<>> /\ co = Start(Names) /\ stack = <<>> /\ variables = [x \in {} |-> Null] BY DEF Init
<1> QED BY <1>1 DEF KernelInv

LEMMA KernelStep ==
  ASSUME ProgramsInOrder, IInv, TranslatedFaithfully', [Next]_vars
  PROVE  KernelInv'
<1>0. FilesInv /\ KernelInv /\ program \in Seq(Files) BY DEF IInv, FilesInv
<1>1. CASE UNCHANGED <<program, image, co, records, stack, variables>>
  <2>1. Plan' = Plan /\ (Compiled => Compiled') BY <1>1, PlanStays
  <2> QED BY <1>0, <1>1, <2>1 DEF KernelInv
<1>2. CASE OpenFile \/ Filter
  <2>1. /\ image' = image /\ co' = co /\ records' = records /\ stack' = stack /\ variables' = variables
        /\ Len(translated) < Len(Sources)
    <3>1. Len(Sources) \in Nat /\ Len(program) \in Nat BY <1>0, CoAssumption
    <3>2. CASE OpenFile BY <3>1, <3>2 DEF OpenFile
    <3>3. CASE Filter
      <4>1. Len(translated) = Len(program) - 1 BY <1>0, <3>3 DEF Filter, FilesInv
      <4>2. Len(program) <= Len(Sources) BY <1>0 DEF FilesInv
      <4> QED BY <3>1, <3>3, <4>1, <4>2 DEF Filter
    <3> QED BY <1>2, <3>2, <3>3
  <2>2. image = <<>>
    <3>1. Len(Sources) \in Nat BY CoAssumption
    <3>2. Len(translated) # Len(Sources) BY <2>1, <3>1
    <3> QED BY <1>0, <3>2 DEF FilesInv
  <2> QED BY <1>0, <2>1, <2>2 DEF KernelInv
<1>3. CASE Link
  <2>1. /\ image = <<>> /\ co' = co /\ stack' = stack /\ variables' = variables
        /\ records' = [classes |-> image'.classes, parents |-> image'.classes, methods |-> image'.methods]
    BY <1>3 DEF Link
  <2>2. co = Start(Names) /\ stack = <<>> /\ DOMAIN variables = {} BY <1>0, <2>1 DEF KernelInv
  <2>3. co.classes = <<>> BY <2>2 DEF Start
  <2>4. CASE image' # <<>>
    <3>1. Compiled' BY <2>1, <2>3, <2>4 DEF TranslatedFaithfully
    <3>2. image'.classes \in Seq(ClassRecordSet) BY <3>1 DEF Compiled, ClassesCompiled, ClassRecordSet
    <3>3. image'.methods \in Seq(MethodRecordSet) BY <3>1 DEF Compiled, MethodsCompiled, MethodRecordSet
    <3> DEFINE h == Plan'
    <3>4. h.records = ToSet(image'.classes) /\ h.methodRecords = ToSet(image'.methods) BY DEF Plan
    <3> HIDE DEF h
    <3>5. /\ Tables(co', h) /\ co'.objects = <<>>
          /\ Loading(co', h, h.records, h.records, h.methodRecords)
      BY <2>1, <2>2, LoadStart
    <3>6. /\ records'.classes = image'.classes /\ records'.parents = image'.classes
          /\ records'.methods = image'.methods
      BY <2>1
    <3>7. records' \in [classes : Seq(ClassRecordSet), parents : Seq(ClassRecordSet), methods : Seq(MethodRecordSet)]
      BY <2>1, <3>2, <3>3
    <3>8. stack' = <<>> /\ DOMAIN variables' = {} BY <2>1, <2>2
    <3>9. Executes(h, co', records', stack', variables') BY ONLY <3>4, <3>5, <3>6, <3>7, <3>8 DEF Executes
    <3> QED BY <2>4, <3>1, <3>9 DEF KernelInv, h
  <2>5. CASE image' = <<>> BY <2>1, <2>2, <2>5 DEF KernelInv
  <2> QED BY <2>4, <2>5
<1>4. CASE Kernel
  <2>1. program' = program /\ image' = image BY <1>4 DEF Kernel, CoInit, Send, New, Perform, Return
  <2>2. image # <<>>
    <3>1. CASE CoInit BY <3>1 DEF CoInit
    <3>2. CASE Send \/ New \/ Perform \/ Return
      <4>1. stack # <<>> BY <3>2 DEF Send, New, Perform, Return, Running
      <4> QED BY <1>0, <4>1 DEF KernelInv
    <3> QED BY <1>4, <3>1, <3>2 DEF Kernel
  <2>3. Compiled /\ Executes(Plan, co, records, stack, variables) BY <1>0, <2>2 DEF KernelInv
  <2>4. Plan' = Plan /\ Compiled' BY <2>1, <2>3, PlanStays
  <2> DEFINE h == Plan
  <2>5. Sound(h) /\ SoundSends(h) BY <1>0, <2>3, SoundPlan, SoundPlanSends
  <2>6. h.functions = image.functions /\ h.main = image.main BY PlanIs
  <2>7. Executes(h, co, records, stack, variables) BY <2>3
  <2> HIDE DEF h
  <2>8. Executes(h, co', records', stack', variables')
    <3>1. CASE CoInit BY <2>5, <2>6, <2>7, <3>1, CoInitStep
    <3>2. CASE Send BY <2>5, <2>6, <2>7, <3>2, SendStep
    <3>3. CASE New BY <2>5, <2>6, <2>7, <3>3, NewStep
    <3>4. CASE Perform BY <2>5, <2>6, <2>7, <3>4, PerformStep
    <3>5. CASE Return BY <2>5, <2>6, <2>7, <3>5, ReturnStep
    <3> QED BY <1>4, <3>1, <3>2, <3>3, <3>4, <3>5 DEF Kernel
  <2>9. h = Plan' BY <2>4 DEF h
  <2> QED BY <2>1, <2>2, <2>4, <2>8, <2>9 DEF KernelInv
<1> QED BY <1>1, <1>2, <1>3, <1>4 DEF Next, vars

-----------------------------------------------------------------------------
(* What follows from the invariant.                                        *)

LEMMA TypesHold ==
  ASSUME ProgramsInOrder, IInv
  PROVE  TypeOK
<1>0. FilesInv /\ KernelInv BY DEF IInv
<1>1. Len(program) <= Len(Sources) /\ Len(translated) \in Len(program) - 1 .. Len(program)
  BY <1>0 DEF FilesInv
<1>2. /\ coc.mode \in F!Modes /\ coc.balance \in Nat \ {0}
      /\ coc.mode \in {"CLASS", "CLASSBODY", "DEF", "ESCAPE"} => coc.balance = 1
  BY <1>0 DEF FilesInv, FilterSound
<1>3. /\ \A c \in DOMAIN co.classes : co.classes[c].parent \in NoClass .. Len(co.classes)
      /\ \A i \in DOMAIN stack : stack[i].self \in {Null} \cup
           {ClassObject(c) : c \in DOMAIN co.classes} \cup {Object(o) : o \in DOMAIN co.objects}
  <2>1. CASE image = <<>>
    <3>1. co.classes = <<>> /\ stack = <<>> BY <1>0, <2>1 DEF KernelInv, Start
    <3>2. DOMAIN co.classes = {} /\ DOMAIN stack = {} BY <3>1
    <3> QED BY <3>2
  <2>2. CASE image # <<>>
    <3> DEFINE h == Plan
    <3>1. Tables(co, h) BY <1>0, <2>2 DEF KernelInv, Executes
    <3>2. Sound(h)
      <4>1. Compiled /\ program \in Seq(Files) BY <1>0, <2>2 DEF KernelInv, FilesInv
      <4> QED BY <4>1, SoundPlan
    <3>3. stack # <<>> => SendsSoundly(co, h, stack, variables) BY <1>0, <2>2 DEF KernelInv, Executes
    <3> HIDE DEF h
    <3>4. Found(co) /\ co \in Runtimes BY <3>1 DEF Tables, Found
    <3>5. DOMAIN co.classes = 1 .. Len(co.classes) /\ Len(co.classes) \in Nat BY <3>4 DEF Runtimes
    <3>6. DOMAIN co.objects = 1 .. Len(co.objects) BY <3>4 DEF Runtimes
    <3>7. ASSUME NEW c \in DOMAIN co.classes PROVE co.classes[c].parent \in NoClass .. Len(co.classes)
      <4>1. Table(co, h, c) BY <3>1 DEF Tables
      <4>2. co.classes[c].parent = NoClass \/ co.classes[c].parent = Global(co, h.up[co.classes[c].name])
        BY <4>1 DEF Table
      <4>3. ASSUME NEW n PROVE Global(co, n) \in NoClass .. Len(co.classes)
        <5>1. Global(co, n) = NoClass \/ Global(co, n) \in DOMAIN co.classes BY <3>4 DEF Global, Found
        <5> QED BY <3>5, <5>1 DEF NoClass
      <4>4. NoClass \in NoClass .. Len(co.classes) BY <3>5 DEF NoClass
      <4> QED BY <4>2, <4>3, <4>4
    <3>8. ASSUME NEW i \in DOMAIN stack
          PROVE  stack[i].self \in {Null} \cup {ClassObject(c) : c \in DOMAIN co.classes}
                                     \cup {Object(o) : o \in DOMAIN co.objects}
      <4>1. stack # <<>> OBVIOUS
      <4>2. IsStack(co, h, stack) /\ Ready(co, h) BY <3>3, <4>1 DEF SendsSoundly
      <4>3. i \in 1 .. Len(stack)
        <5>1. PICK S : stack \in Seq(S) BY <4>2 DEF IsStack
        <5> QED BY <5>1
      <4>4. IsMain(stack[i]) \/ Called(co, h, stack[i], stack[i + 1]) BY <4>2, <4>3 DEF IsStack
      <4>5. CASE IsMain(stack[i]) BY <4>5 DEF IsMain
      <4>6. CASE Called(co, h, stack[i], stack[i + 1])
        <5>1. PICK N \in h.classes : IsA(co, h, stack[i].self, N) BY <4>6 DEF Called
        <5>2. CASE \E M \in h.classes : stack[i].self = ClassObject(co.globals[M])
          <6>1. \A M \in h.classes : co.globals[M] \in DOMAIN co.classes BY <3>2, <4>2, GlobalFacts
          <6> QED BY <5>2, <6>1
        <5>3. CASE \E o \in 1 .. Len(co.objects) : stack[i].self = Object(o) BY <3>6, <5>3
        <5> QED BY <5>1, <5>2, <5>3 DEF IsA
      <4> QED BY <4>4, <4>5, <4>6
    <3> QED BY <3>7, <3>8
  <2> QED BY <2>1, <2>2
<1> QED BY <1>1, <1>2, <1>3 DEF TypeOK

\* The nearest class in terms of the walk up the hierarchy.
LEMMA NearestIs ==
  ASSUME NEW h, h = Plan, Sound(h), NEW N \in Hierarchy(h), NEW selector,
         ProgramsInOrder, program \in Seq(Files)
  PROVE  Nearest(N, selector) = NearestIn(h, N, selector)
<1> DEFINE S == Hierarchy(h)
           stop == Stops(h, selector)
           f == NearestWalk(h, selector)
           g == CHOOSE Up : Up = [class \in DeclaredClasses \cup {"object"} |->
                  IF \/ class = "object"
                     \/ \E d \in Declared : d.kind = "method" /\ d.class = class /\ d.selector = selector
                    THEN class ELSE Up[SuperclassOf(class)]]
<1>1. Nearest(N, selector) = g[N] BY DEF Nearest
<1>2. S = DeclaredClasses \cup {"object"} /\ "object" \notin DeclaredClasses
  <2>1. h.classes = DeclaredClasses BY PlanIs
  <2> QED BY <2>1 DEF Hierarchy, Sound
<1>3. ASSUME NEW class \in S
      PROVE  class \in stop <=> \/ class = "object"
                                \/ \E d \in Declared : d.kind = "method" /\ d.class = class /\ d.selector = selector
  <2>1. h.methods = {MethodId(d) : d \in {d \in Declared : d.kind = "method"}} /\ h.classes = DeclaredClasses
    BY PlanIs
  <2>2. [class |-> class, selector |-> selector] \in h.methods <=>
          \E d \in Declared : d.kind = "method" /\ d.class = class /\ d.selector = selector
    <3>1. ASSUME NEW d
          PROVE  MethodId(d) = [class |-> class, selector |-> selector] <=> d.class = class /\ d.selector = selector
      BY DEF MethodId
    <3> QED BY <2>1, <3>1
  <2> QED BY <1>2, <2>1, <2>2 DEF Stops
<1>4. ASSUME NEW class \in S, class \notin stop PROVE h.up[class] = SuperclassOf(class)
  <2>1. class \in DeclaredClasses BY <1>2, <1>3, <1>4
  <2> QED BY <2>1, PlanIs
<1>5. ASSUME NEW v
      PROVE  [class \in DeclaredClasses \cup {"object"} |->
                IF \/ class = "object"
                   \/ \E d \in Declared : d.kind = "method" /\ d.class = class /\ d.selector = selector
                  THEN class ELSE v[SuperclassOf(class)]]
               = [class \in S |-> IF class \in stop THEN class ELSE v[h.up[class]]]
  <2> HIDE DEF S, stop
  <2>1. ASSUME NEW class \in S
        PROVE  (IF \/ class = "object"
                   \/ \E d \in Declared : d.kind = "method" /\ d.class = class /\ d.selector = selector
                  THEN class ELSE v[SuperclassOf(class)])
                 = (IF class \in stop THEN class ELSE v[h.up[class]])
    BY <1>3, <1>4
  <2> QED BY <1>2, <2>1
<1>6. IsWalk(f, S, stop, h.up) BY NearestFacts
<1> HIDE DEF S, stop, f
<1>7. IsWalk(g, S, stop, h.up)
  <2>1. f = [class \in DeclaredClasses \cup {"object"} |->
               IF \/ class = "object"
                  \/ \E d \in Declared : d.kind = "method" /\ d.class = class /\ d.selector = selector
                 THEN class ELSE f[SuperclassOf(class)]]
    BY <1>5, <1>6 DEF IsWalk
  <2>2. g = [class \in DeclaredClasses \cup {"object"} |->
               IF \/ class = "object"
                  \/ \E d \in Declared : d.kind = "method" /\ d.class = class /\ d.selector = selector
                 THEN class ELSE g[SuperclassOf(class)]]
    BY <2>1
  <2> QED BY <1>5, <2>2 DEF IsWalk
<1> HIDE DEF g
<1>8. PICK rank : Descends(S, stop, h.up, rank) BY HierarchyDescends DEF S, stop
<1> DEFINE I == [x \in S |-> x]
<1>9. I \in [S -> S] /\ \A x \in S : I[x] = x OBVIOUS
<1>10. \A x \in S \ stop : h.up[x] \in S BY <1>8 DEF Descends
<1>11. \A x \in S \ stop : h.up[I[x]] = I[h.up[x]] BY <1>9, <1>10
<1>12. \A x \in S : I[x] \in stop <=> x \in stop BY <1>9
<1> HIDE DEF I
<1>13. \A x \in S : g[I[x]] = I[f[x]] BY <1>6, <1>7, <1>8, <1>9, <1>11, <1>12, WalksAgree
<1>14. N \in S /\ f[N] = NearestIn(h, N, selector) BY DEF S, f, NearestIn
<1>15. f[N] \in S BY <1>14, NearestFacts, AncestorsFacts DEF S, Hierarchy
<1> QED BY <1>1, <1>9, <1>13, <1>14, <1>15

\* A state in which a method runs.
LEMMA RunningState ==
  ASSUME ProgramsInOrder, IInv, NEW i \in DOMAIN stack, NEW h, h = Plan
  PROVE  /\ Sound(h) /\ SoundStructs(h) /\ SendsSoundly(co, h, stack, variables)
         /\ i \in 1 .. Len(stack) /\ Len(stack) \in Nat
         /\ IF i = Len(stack) THEN IsMain(stack[i]) ELSE Called(co, h, stack[i], stack[i + 1])
<1>1. KernelInv /\ program \in Seq(Files) BY DEF IInv, FilesInv
<1>2. stack # <<>> OBVIOUS
<1>3. image # <<>> BY <1>1, <1>2 DEF KernelInv
<1>4. Compiled /\ Executes(Plan, co, records, stack, variables) BY <1>1, <1>3 DEF KernelInv
<1>5. Sound(h) /\ SoundStructs(h) BY <1>1, <1>4, SoundPlan, SoundPlanStructs
<1>6. SendsSoundly(co, h, stack, variables) BY <1>2, <1>4 DEF Executes
<1>7. IsStack(co, h, stack) BY <1>6 DEF SendsSoundly
<1>8. i \in 1 .. Len(stack) /\ Len(stack) \in Nat
  <2>1. PICK S : stack \in Seq(S) BY <1>7 DEF IsStack
  <2> QED BY <2>1
<1> QED BY <1>5, <1>6, <1>7, <1>8 DEF IsStack

LEMMA DispatchHolds ==
  ASSUME ProgramsInOrder, IInv
  PROVE  DispatchesNearest
<1> SUFFICES ASSUME NEW i \in DOMAIN stack \ {Len(stack)}
             PROVE  LET frame == stack[i]
                        class == co.classes[ClassOf(co, frame.self)].name
                        nearest == Nearest(IF frame.super THEN SuperclassOf(stack[i + 1].method.class) ELSE class,
                                           frame.selector)
                    IN frame.method =
                         IF nearest # "object" THEN [class |-> nearest, selector |-> frame.selector]
                         ELSE [class |-> Nearest(class, "doesNotUnderstand"), selector |-> "doesNotUnderstand"]
  BY DEF DispatchesNearest
<1> DEFINE h == Plan
           frame == stack[i]
           below == stack[i + 1]
           class == co.classes[ClassOf(co, frame.self)].name
           start == IF frame.super THEN SuperclassOf(below.method.class) ELSE class
<1>0. program \in Seq(Files) BY DEF IInv, FilesInv
<1>1. Sound(h) /\ SendsSoundly(co, h, stack, variables) /\ Called(co, h, frame, below)
  BY RunningState
<1>2. h.classes = DeclaredClasses /\ \A M \in h.classes : h.up[M] = SuperclassOf(M) BY PlanIs
<1>3. h = Plan OBVIOUS
<1> HIDE DEF h
<1>4. PICK N \in h.classes :
        /\ IsA(co, h, frame.self, N)
        /\ frame.super => below.method.class \in h.classes
        /\ frame.method = Answer(h, IF frame.super THEN h.up[below.method.class] ELSE N, frame.selector, N)
  BY <1>1 DEF Called
<1>5. class = N BY <1>1, <1>4, ClassOfIs DEF SendsSoundly
<1>6. start = (IF frame.super THEN h.up[below.method.class] ELSE N) BY <1>2, <1>4, <1>5
<1>7. start \in Hierarchy(h) /\ N \in Hierarchy(h)
  <2>1. N \in Hierarchy(h) BY DEF Hierarchy
  <2>2. frame.super => h.up[below.method.class] \in Hierarchy(h) BY <1>1, <1>4 DEF Sound, Hierarchy
  <2> QED BY <1>6, <2>1, <2>2
<1> HIDE DEF start, class, frame, below
<1>8. Nearest(start, frame.selector) = NearestIn(h, start, frame.selector)
      /\ Nearest(class, "doesNotUnderstand") = NearestIn(h, N, "doesNotUnderstand")
  BY <1>0, <1>1, <1>3, <1>5, <1>7, NearestIs
<1>9. frame.method = Answer(h, start, frame.selector, N) BY <1>4, <1>6
<1>10. frame.method = IF Nearest(start, frame.selector) # "object"
                        THEN [class |-> Nearest(start, frame.selector), selector |-> frame.selector]
                        ELSE [class |-> Nearest(class, "doesNotUnderstand"), selector |-> "doesNotUnderstand"]
  BY ONLY <1>8, <1>9 DEF Answer
<1> QED BY <1>10 DEF start, class, frame, below

\* Prefixes.
LEMMA PrefixFacts ==
  ASSUME NEW S, NEW a \in Seq(S), NEW b \in Seq(S)
  PROVE  IsPrefix(a, b) <=> Len(a) <= Len(b) /\ \A i \in 1 .. Len(a) : a[i] = b[i]
<1>1. Len(a) \in Nat /\ Len(b) \in Nat OBVIOUS
<1>2. SubSeq(a, 1, Len(a)) = a BY <1>1
<1>3. ASSUME Len(a) <= Len(b)
      PROVE  SubSeq(b, 1, Len(a)) = a <=> \A i \in 1 .. Len(a) : a[i] = b[i]
  <2> DEFINE c == SubSeq(b, 1, Len(a))
  <2>1. c \in Seq(S) /\ Len(c) = Len(a) /\ \A i \in 1 .. Len(a) : c[i] = b[i] BY <1>1, <1>3
  <2> HIDE DEF c
  <2> SUFFICES c = a <=> \A i \in 1 .. Len(a) : a[i] = b[i] BY DEF c
  <2> QED BY <2>1
<1> QED BY <1>2, <1>3 DEF IsPrefix

LEMMA PrefixTransitive ==
  ASSUME NEW S, NEW a \in Seq(S), NEW b \in Seq(S), NEW c \in Seq(S), IsPrefix(a, b), IsPrefix(b, c)
  PROVE  IsPrefix(a, c) /\ Len(a) <= Len(c)
<1>1. Len(a) <= Len(b) /\ \A i \in 1 .. Len(a) : a[i] = b[i] BY PrefixFacts
<1>2. Len(b) <= Len(c) /\ \A i \in 1 .. Len(b) : b[i] = c[i] BY PrefixFacts
<1>3. Len(a) \in Nat /\ Len(b) \in Nat /\ Len(c) \in Nat OBVIOUS
<1>4. \A i \in 1 .. Len(a) : i \in 1 .. Len(b) BY <1>1, <1>3
<1>5. Len(a) <= Len(c) /\ \A i \in 1 .. Len(a) : a[i] = c[i] BY <1>1, <1>2, <1>3, <1>4
<1> QED BY <1>5, PrefixFacts

\* The struct of a class begins those of its subclasses.
LEMMA AncestorsBegin ==
  ASSUME NEW h, Sound(h), SoundStructs(h), NEW N \in h.classes, NEW A \in Ancestors(h, N),
         NEW s \in h.structs, NEW t \in h.structs, A \in DOMAIN s, N \in DOMAIN t
  PROVE  IsPrefix(s[A], t[N])
<1> DEFINE T == {B \in h.classes : \A u \in h.structs : B \in DOMAIN u => IsPrefix(u[B], t[N])}
<1>1. N \in T BY DEF SoundStructs
<1>2. ASSUME NEW B \in T, h.up[B] \in h.classes PROVE h.up[B] \in T
  <2> SUFFICES ASSUME NEW u \in h.structs, h.up[B] \in DOMAIN u PROVE IsPrefix(u[h.up[B]], t[N])
    BY <1>2
  <2>1. B \in h.classes OBVIOUS
  <2>2. PICK record \in h.records : record.class = B BY <2>1 DEF Sound
  <2>3. PICK v \in h.structs : B \in DOMAIN v BY <2>2 DEF SoundStructs
  <2>4. IsPrefix(u[h.up[B]], v[B]) BY <2>1, <2>3 DEF SoundStructs
  <2>5. IsPrefix(v[B], t[N]) BY <2>3
  <2>6. u[h.up[B]] \in Seq(STRING) /\ v[B] \in Seq(STRING) /\ t[N] \in Seq(STRING) BY <2>3 DEF SoundStructs
  <2> QED BY ONLY <2>4, <2>5, <2>6, PrefixTransitive
<1>3. T \in SUBSET h.classes OBVIOUS
<1> HIDE DEF T
<1>4. A \in T BY <1>1, <1>2, <1>3 DEF Ancestors
<1> QED BY <1>4 DEF T

LEMMA ObjectsFit ==
  ASSUME ProgramsInOrder, IInv
  PROVE  MethodsFitObjects
<1> SUFFICES ASSUME NEW i \in DOMAIN stack, stack[i].self.kind = "object",
                    NEW s \in ToSet(image.structs), NEW t \in ToSet(image.structs),
                    stack[i].method.class \in DOMAIN s,
                    co.classes[co.objects[stack[i].self.place].class].name \in DOMAIN t
             PROVE  /\ IsPrefix(s[stack[i].method.class], t[co.classes[co.objects[stack[i].self.place].class].name])
                    /\ Len(s[stack[i].method.class]) <= co.objects[stack[i].self.place].size
  BY DEF MethodsFitObjects
<1> DEFINE h == Plan
           frame == stack[i]
           A == frame.method.class
           object == co.objects[frame.self.place]
<1>1. /\ Sound(h) /\ SoundStructs(h) /\ SendsSoundly(co, h, stack, variables)
      /\ IsMain(frame) \/ Called(co, h, frame, stack[i + 1])
  BY RunningState
<1>2. Called(co, h, frame, stack[i + 1])
  <2>1. frame.self.kind = "object" OBVIOUS
  <2> HIDE DEF frame, h
  <2>2. Null.kind = "null" BY DEF Null
  <2>3. IsMain(frame) => frame.self.kind = "null" BY ONLY <2>2 DEF IsMain
  <2> QED BY ONLY <1>1, <2>1, <2>3
<1>3. h.structs = ToSet(image.structs) BY PlanIs
<1> HIDE DEF h
<1>4. PICK N \in h.classes : IsA(co, h, frame.self, N) /\ A \in Ancestors(h, N) BY <1>2 DEF Called
<1>5. N # "Class" /\ frame.self.place \in 1 .. Len(co.objects) /\ object.class = co.globals[N]
      /\ Ready(co, h) /\ ObjectsSound(co, h)
  <2>1. frame.self.kind = "object" OBVIOUS
  <2> DEFINE self == frame.self
  <2> HIDE DEF frame, self
  <2>2. Sound(h) /\ Ready(co, h) /\ ObjectsSound(co, h) BY ONLY <1>1 DEF SendsSoundly
  <2>3. IsA(co, h, self, N) /\ N \in h.classes BY <1>4 DEF self
  <2>4. /\ N = "Class" => self.kind = "class"
        /\ N # "Class" => self.place \in 1 .. Len(co.objects)
                          /\ co.objects[self.place].class = co.globals[N]
    BY ONLY <2>2, <2>3, ClassOfIs
  <2>5. N # "Class" BY ONLY <2>1, <2>4 DEF self
  <2> QED BY ONLY <2>2, <2>4, <2>5 DEF self
<1>6. co.globals[N] \in DOMAIN co.classes /\ co.classes[co.globals[N]].name = N BY <1>5 DEF Ready
<1>7. N \in DOMAIN t BY <1>5, <1>6
<1>8. object.size = co.classes[co.globals[N]].size
  <2>1. PICK M \in h.classes : object.class = co.globals[M] /\ object.size = co.classes[co.globals[M]].size
    BY <1>5 DEF ObjectsSound
  <2> QED BY <1>5, <2>1
<1>9. PICK record \in h.records : record.class = N /\ record.size = object.size
  <2>1. Table(co, h, co.globals[N]) BY <1>5, <1>6 DEF Ready, Tables
  <2> QED BY <1>6, <1>8, <2>1 DEF Table
<1>10. PICK u \in h.structs : N \in DOMAIN u /\ object.size = Len(u[N]) BY <1>1, <1>9 DEF SoundStructs
<1>11. IsPrefix(s[A], t[N]) /\ IsPrefix(s[A], u[N]) BY <1>1, <1>3, <1>4, <1>7, <1>10, AncestorsBegin
<1>12. Len(s[A]) <= object.size
  <2>1. Len(s[A]) <= Len(u[N]) BY <1>11 DEF IsPrefix
  <2> QED BY <1>10, <2>1
<1> QED BY <1>5, <1>6, <1>11, <1>12

LEMMA IInvHolds ==
  ProgramsInOrder => (Spec /\ []TranslatedFaithfully => []IInv)
<1> SUFFICES ASSUME ProgramsInOrder PROVE Spec /\ []TranslatedFaithfully => []IInv OBVIOUS
<1>1. Init => IInv BY FilesInit, KernelInit DEF IInv
<1>2. IInv /\ TranslatedFaithfully' /\ [Next]_vars => IInv'
  BY FilesStep, KernelStep DEF IInv
<1> QED BY <1>1, <1>2, PTL DEF Spec

(***************************************************************************)
(* The types hold; the filter counts parentheses only in the arguments of  *)
(* a send, and what runs, runs on an object or a class that there is.      *)
(***************************************************************************)
THEOREM TypesOfPrograms ==
  ProgramsInOrder => (Spec /\ []TranslatedFaithfully => []TypeOK)
<1> SUFFICES ASSUME ProgramsInOrder PROVE Spec /\ []TranslatedFaithfully => []TypeOK OBVIOUS
<1>1. Spec /\ []TranslatedFaithfully => []IInv BY IInvHolds
<1>2. IInv => TypeOK BY TypesHold
<1> QED BY <1>1, <1>2, PTL

(***************************************************************************)
(* basicInvoke, invokeSuper, Object@perform and Class@new run the method   *)
(* that is nearest above the class they are to look from, whatever records *)
(* co_init met and in whatever order: for every program that is in order   *)
(* and that coc and the linker have translated faithfully.                 *)
(***************************************************************************)
THEOREM EverySendRunsTheNearest ==
  ProgramsInOrder => (Spec /\ []TranslatedFaithfully => []DispatchesNearest)
<1> SUFFICES ASSUME ProgramsInOrder PROVE Spec /\ []TranslatedFaithfully => []DispatchesNearest OBVIOUS
<1>1. Spec /\ []TranslatedFaithfully => []IInv BY IInvHolds
<1>2. IInv => DispatchesNearest BY DispatchHolds
<1> QED BY <1>1, <1>2, PTL

(***************************************************************************)
(* A method that runs on an object finds the members of the struct it was  *)
(* compiled with at their places and inside the object's memory, for the   *)
(* same programs.                                                          *)
(***************************************************************************)
THEOREM EveryMethodFitsItsObject ==
  ProgramsInOrder => (Spec /\ []TranslatedFaithfully => []MethodsFitObjects)
<1> SUFFICES ASSUME ProgramsInOrder PROVE Spec /\ []TranslatedFaithfully => []MethodsFitObjects OBVIOUS
<1>1. Spec /\ []TranslatedFaithfully => []IInv BY IInvHolds
<1>2. IInv => MethodsFitObjects BY ObjectsFit
<1> QED BY <1>1, <1>2, PTL
=============================================================================
