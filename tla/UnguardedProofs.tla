-------------------------- MODULE UnguardedProofs ---------------------------
(***************************************************************************)
(* setenv and its like, signal() and random() keep their state without a    *)
(* lock.  The environment, for any names, values, addresses and arrays at   *)
(* the start: who owns the strings, and that the functions of env/          *)
(* implement a map from names to values.  The handlers of signal() and the  *)
(* indices of random(): right as long as no two calls overlap where they    *)
(* must not, whoever makes them.                                            *)
(***************************************************************************)
EXTENDS Environ, Signals, RandomNumbers, FiniteSetTheorems, WellFoundedInduction, TLAPS

-----------------------------------------------------------------------------
(* The inductive invariant.                                                 *)

Slots == Holds(env_alloced) \ {NULL}

(* Only a string of the application may be in the array twice, so that the  *)
(* free of one that leaves it leaves no other reference behind.             *)
Once == \A i, j \in DOMAIN environ : environ[i] = environ[j] /\ environ[i] \notin app => i = j

(* A string of the library in the array has a slot, or could not get one.   *)
Owned == Holds(environ) \ app \subseteq Slots \cup untracked

EnvInv == EnvTypeOK /\ EnvStringsExact /\ Once /\ Owned

-----------------------------------------------------------------------------
(* The slots.                                                               *)

LEMMA SmallestNumber ==
    ASSUME NEW T, T \subseteq Nat, T # {}
    PROVE  \E x \in T : \A y \in T : x <= y
<1>1. PICK R : R = {p \in Nat \X Nat : p[1] < p[2]}
  OBVIOUS
<1>2. IsWellFoundedOn(R, Nat)
  <2>1. IsWellFoundedOn({p \in Nat \X Nat : p[1] < p[2]}, Nat)
    BY NatLessThanWellFounded DEF OpToRel
  <2> QED
    BY <1>1, <2>1
<1>3. PICK x \in T : \A y \in T : ~ (<<y, x>> \in R)
  BY <1>2, WFMin
<1>4. \A y \in T : y < x => <<y, x>> \in R
  <2>1. SUFFICES ASSUME NEW y \in T, y < x PROVE <<y, x>> \in R
    OBVIOUS
  <2>2. x \in Nat /\ y \in Nat
    OBVIOUS
  <2> QED
    BY <1>1, <2>1, <2>2
<1>5. ASSUME NEW y \in T PROVE x <= y
  <2>1. x \in Nat /\ y \in Nat /\ ~(y < x)
    BY <1>3, <1>4
  <2> QED
    BY <2>1
<1> QED
  BY <1>5

LEMMA NoNull == NULL \notin Strings /\ Dead \notin Text
BY EnvAssumption DEF Dead, Text

Slot == Strings \cup {NULL}

LEMMA VacatedSlots ==
    ASSUME NEW al \in Seq(Slot), NEW gone
    PROVE  /\ Vacated(al, gone) \in Seq(Slot)
           /\ Holds(Vacated(al, gone)) \ {NULL} = Holds(al) \ (gone \cup {NULL})
<1>1. PICK va : va = Vacated(al, gone)
  OBVIOUS
<1>2. /\ Len(al) \in Nat /\ DOMAIN al = 1 .. Len(al)
      /\ DOMAIN va = DOMAIN al
      /\ \A i \in DOMAIN al : al[i] \in Slot
      /\ \A i \in DOMAIN al : va[i] = IF al[i] \in gone THEN NULL ELSE al[i]
  BY <1>1 DEF Vacated
<1>3. \A i \in DOMAIN al : va[i] \in Slot
  BY <1>2 DEF Slot
<1>4. va \in Seq(Slot)
  BY <1>1, <1>2, <1>3 DEF Vacated
<1>5. Holds(va) \ {NULL} = Holds(al) \ (gone \cup {NULL})
  BY <1>2 DEF Holds
<1> QED
  BY <1>1, <1>4, <1>5

(* The search for an empty slot finds the first one.                        *)
LEMMA EmptyFound ==
    ASSUME NEW al \in Seq(Slot), ~Full(al)
    PROVE  \E i \in DOMAIN al : FirstEmpty(al, i)
<1>1. PICK T : T = {i \in DOMAIN al : al[i] = NULL}
  OBVIOUS
<1>2. DOMAIN al = 1 .. Len(al) /\ Len(al) \in Nat
  OBVIOUS
<1>3. T \subseteq Nat /\ T # {}
  BY <1>1, <1>2 DEF Full
<1>4. PICK i \in T : \A j \in T : i <= j
  BY <1>3, SmallestNumber
<1>5. i \in DOMAIN al /\ al[i] = NULL
  BY <1>1
<1>6. ASSUME NEW j \in 1 .. i - 1 PROVE al[j] # NULL
  <2>1. j \in DOMAIN al /\ j < i
    BY <1>2, <1>5
  <2> QED
    BY <1>1, <1>2, <1>4, <1>5, <2>1
<1> QED
  BY <1>5, <1>6 DEF FirstEmpty

LEMMA TrackedSlots ==
    ASSUME NEW al \in Seq(Slot), NEW new \in Strings, NEW fits \in BOOLEAN
    PROVE  /\ Tracked(al, new, fits) \in Seq(Slot)
           /\ Holds(Tracked(al, new, fits)) \ {NULL} =
                 (Holds(al) \ {NULL}) \cup (IF Full(al) /\ ~fits THEN {} ELSE {new})
<1>0. DOMAIN al = 1 .. Len(al) /\ Len(al) \in Nat /\ new \in Slot /\ new # NULL
  BY NoNull DEF Slot
<1>1. CASE Full(al) /\ fits
  <2>1. PICK ap : ap = Append(al, new)
    OBVIOUS
  <2>2. /\ ap \in Seq(Slot) /\ DOMAIN ap = 1 .. Len(al) + 1
        /\ ap[Len(al) + 1] = new /\ \A i \in 1 .. Len(al) : ap[i] = al[i]
    BY <1>0, <2>1
  <2>3. Holds(ap) \ {NULL} = (Holds(al) \ {NULL}) \cup {new}
    <3>1. \A i \in DOMAIN ap : i = Len(al) + 1 \/ i \in DOMAIN al
      BY <1>0, <2>2
    <3>2. Len(al) + 1 \in DOMAIN ap /\ \A i \in DOMAIN al : i \in DOMAIN ap
      BY <1>0, <2>2
    <3> QED
      BY <1>0, <2>2, <3>1, <3>2 DEF Holds
  <2> QED
    BY <1>1, <2>1, <2>2, <2>3 DEF Tracked
<1>2. CASE Full(al) /\ ~fits
  BY <1>2 DEF Tracked
<1>3. CASE ~Full(al)
  <2>1. PICK k : k = CHOOSE i \in DOMAIN al : FirstEmpty(al, i)
    OBVIOUS
  <2>2. k \in DOMAIN al /\ al[k] = NULL
    BY <1>3, <2>1, EmptyFound DEF FirstEmpty
  <2>3. PICK ex : ex = [al EXCEPT ![k] = new]
    OBVIOUS
  <2>4. /\ ex \in Seq(Slot) /\ DOMAIN ex = DOMAIN al
        /\ ex[k] = new /\ \A i \in DOMAIN al \ {k} : ex[i] = al[i]
    BY <1>0, <2>2, <2>3
  <2>5. Holds(ex) \ {NULL} = (Holds(al) \ {NULL}) \cup {new}
    BY <1>0, <2>2, <2>4 DEF Holds
  <2> QED
    BY <1>3, <2>1, <2>3, <2>4, <2>5 DEF Tracked
<1> QED
  BY <1>1, <1>2, <1>3

(* What __env_rm_add does to the strings and the slots: new gets a slot or  *)
(* is counted as untracked.                                                 *)
RmAdded(txt, gone, new) ==
    /\ text' \in [Strings -> Text \cup {Dead}]
    /\ env_alloced' \in Seq(Slot) /\ untracked' \subseteq Strings
    /\ \A s \in Strings : text'[s] = IF s \in gone /\ s \in Slots THEN Dead ELSE txt[s]
    /\ \E T \in SUBSET ({new} \ {NULL}) :
          /\ Slots' = (Slots \ gone) \cup T
          /\ untracked' = untracked \cup (({new} \ {NULL}) \ T)

LEMMA RmAdd ==
    ASSUME EnvTypeOK, NEW txt \in [Strings -> Text \cup {Dead}], NEW gone,
           NEW new \in Slot, env_rm_add(txt, gone, new)
    PROVE  RmAdded(txt, gone, new)
<1>1. env_alloced \in Seq(Slot) /\ untracked \subseteq Strings
  BY DEF EnvTypeOK, Slot
<1>2. /\ text' \in [Strings -> Text \cup {Dead}]
      /\ \A s \in Strings : text'[s] = IF s \in gone /\ s \in Slots THEN Dead ELSE txt[s]
  BY NoNull DEF env_rm_add, Freed, Slots
<1>3. PICK al : al = Vacated(env_alloced, gone)
  OBVIOUS
<1>4. al \in Seq(Slot) /\ Holds(al) \ {NULL} = Slots \ gone
  BY <1>1, <1>3, VacatedSlots DEF Slots
<1>5. CASE new = NULL
  <2>1. env_alloced' = al /\ untracked' = untracked
    BY <1>3, <1>5 DEF env_rm_add
  <2>2. Slots' = (Slots \ gone) \cup {} /\ untracked' = untracked \cup (({new} \ {NULL}) \ {})
    BY <1>4, <1>5, <2>1 DEF Slots
  <2> QED
    BY <1>1, <1>2, <1>4, <2>1, <2>2 DEF RmAdded
<1>6. CASE new # NULL
  <2>1. PICK fits \in BOOLEAN :
           /\ env_alloced' = Tracked(al, new, fits)
           /\ untracked' = IF Full(al) /\ ~fits THEN untracked \cup {new} ELSE untracked
    BY <1>3, <1>6 DEF env_rm_add
  <2>2. new \in Strings
    BY <1>6 DEF Slot
  <2>3. /\ env_alloced' \in Seq(Slot)
        /\ Slots' = (Slots \ gone) \cup (IF Full(al) /\ ~fits THEN {} ELSE {new})
    BY <1>4, <2>1, <2>2, TrackedSlots DEF Slots
  <2>4. PICK T : T = (IF Full(al) /\ ~fits THEN {} ELSE {new})
    OBVIOUS
  <2>5. /\ T \in SUBSET ({new} \ {NULL}) /\ Slots' = (Slots \ gone) \cup T
        /\ untracked' = untracked \cup (({new} \ {NULL}) \ T)
    BY <1>6, <2>1, <2>3, <2>4
  <2>6. untracked' \subseteq Strings
    BY <1>1, <2>1, <2>2
  <2> QED
    BY <1>2, <2>3, <2>5, <2>6 DEF RmAdded
<1> QED
  BY <1>5, <1>6

-----------------------------------------------------------------------------
(* The ownership of the strings.                                            *)

(* A change of the array that goes through __env_rm_add: gone leaves it,    *)
(* and new, if there is one, is a string just allocated that enters it.     *)
LEMMA ArrayChange ==
    ASSUME EnvInv, NEW txt \in [Strings -> Text \cup {Dead}], NEW gone \in SUBSET Holds(environ),
           NEW new \in Slot, env_rm_add(txt, gone, new),
           UNCHANGED app, environ' \in Seq(Strings), env_array' \in {"none", "lib", "app"},
           new # NULL => new \notin Live /\ new \in Holds(environ') /\ txt[new] # Dead,
           \A s \in Strings \ {new} : txt[s] = text[s],
           Holds(environ') \subseteq Holds(environ) \cup ({new} \ {NULL}) \cup app,
           Holds(environ) \subseteq Holds(environ') \cup gone,
           Holds(environ') \cap gone \subseteq app,
           Once'
    PROVE  EnvInv'
<1>0. EnvTypeOK
  BY DEF EnvInv
<1>1. /\ text' \in [Strings -> Text \cup {Dead}]
      /\ env_alloced' \in Seq(Slot) /\ untracked' \subseteq Strings
      /\ \A s \in Strings : text'[s] = IF s \in gone /\ s \in Slots THEN Dead ELSE txt[s]
      /\ \E T \in SUBSET ({new} \ {NULL}) :
            /\ Slots' = (Slots \ gone) \cup T
            /\ untracked' = untracked \cup (({new} \ {NULL}) \ T)
  <2>1. RmAdded(txt, gone, new)
    BY <1>0, RmAdd
  <2> QED
    BY <2>1 DEF RmAdded
<1>2. EnvTypeOK'
  BY <1>1 DEF EnvInv, EnvTypeOK, Slot
<1>3. PICK T \in SUBSET ({new} \ {NULL}) :
            /\ Slots' = (Slots \ gone) \cup T
            /\ untracked' = untracked \cup (({new} \ {NULL}) \ T)
  BY <1>1
<1>4. /\ Holds(environ) \cup app \subseteq Live /\ Slots \subseteq Live \ app
      /\ Live \ app \subseteq Holds(environ) \cup untracked
      /\ Holds(environ) \ app \subseteq Slots \cup untracked
      /\ Live \subseteq Strings
  BY DEF EnvInv, EnvStringsExact, Owned, Slots, Live
<1>5. \A s \in Strings : s \in Live' <=> (s \in Live \/ s = new) /\ ~(s \in gone /\ s \in Slots)
  <2>1. SUFFICES ASSUME NEW s \in Strings
                 PROVE  text'[s] # Dead <=> (text[s] # Dead \/ s = new) /\ ~(s \in gone /\ s \in Slots)
    BY DEF Live
  <2>2. CASE s = new
    <3>1. s # NULL
      BY NoNull
    <3> QED
      BY <1>1, <1>4, <2>2, <3>1
  <2>3. CASE s # new
    BY <1>1, <2>3
  <2> QED
    BY <2>2, <2>3
<1>6. Live' \subseteq Strings
  BY DEF Live
<1>7. Holds(environ') \subseteq Strings /\ app \subseteq Strings /\ Slots' \subseteq Strings
  <2>1. Holds(environ') \subseteq Strings
    BY DEF Holds
  <2>2. {new} \ {NULL} \subseteq Strings
    BY DEF Slot
  <2> QED
    BY <1>3, <1>4, <2>1, <2>2
<1>8. Holds(environ') \cup app \subseteq Live'
  <2>1. ASSUME NEW s \in Holds(environ') \cup app PROVE s \in Live'
    <3>1. s \in Strings /\ (s \in Live \/ s = new)
      BY <1>4, <1>7
    <3>2. s \in gone => s \in app
      BY <2>1
    <3>3. s \in app => s \notin Slots
      BY <1>4
    <3> QED
      BY <1>5, <3>1, <3>2, <3>3
  <2> QED
    BY <2>1
<1>9. Slots' \subseteq Live' \ app
  <2>1. ASSUME NEW s \in Slots' PROVE s \in Live' /\ s \notin app
    <3>1. s \in Strings
      BY <1>7
    <3>2. CASE s \in Slots \ gone
      BY <1>4, <1>5, <3>1, <3>2
    <3>3. CASE s \in T
      <4>1. s = new /\ new # NULL /\ new \notin Live
        BY <3>3
      <4> QED
        BY <1>4, <1>5, <3>1, <4>1
    <3> QED
      BY <1>3, <3>2, <3>3
  <2> QED
    BY <2>1
<1>10. Live' \ app \subseteq Holds(environ') \cup untracked'
  <2>1. ASSUME NEW s \in Live' \ app PROVE s \in Holds(environ') \cup untracked'
    <3>1. s \in Strings /\ (s \in Live \/ s = new) /\ ~(s \in gone /\ s \in Slots)
      BY <1>5, <1>6
    <3>2. s # NULL
      BY <3>1, NoNull
    <3>3. CASE s = new
      BY <3>2, <3>3
    <3>4. CASE s \in Live
      BY <1>3, <1>4, <3>1, <3>4
    <3> QED
      BY <3>1, <3>3, <3>4
  <2> QED
    BY <2>1
<1>11. Holds(environ') \ app \subseteq Slots' \cup untracked'
  <2>1. ASSUME NEW s \in Holds(environ') \ app PROVE s \in Slots' \cup untracked'
    <3>1. s \in Holds(environ) \/ s \in {new} \ {NULL}
      BY <2>1
    <3>2. s \notin gone
      BY <2>1
    <3> QED
      BY <1>3, <1>4, <3>1, <3>2
  <2> QED
    BY <2>1
<1>12. EnvStringsExact'
  BY <1>8, <1>9, <1>10 DEF EnvStringsExact, Slots
<1> QED
  BY <1>2, <1>11, <1>12 DEF EnvInv, Owned

(* The two ways in which __putenv is called: for a string that setenv has   *)
(* just allocated, and for one of the application.                          *)
Puts(s, t, r) ==
    \/ r = s /\ s \notin Live
    \/ r = NULL /\ s \in app /\ t = text[s]

LEMMA PutFacts ==
    ASSUME EnvInv, NEW s \in Strings, NEW t \in Text, NEW r \in Slot, Puts(s, t, r)
    PROVE  /\ EnvTypeOK /\ environ \in Seq(Strings) /\ Len(environ) \in Nat
           /\ DOMAIN environ = 1 .. Len(environ)
           /\ \A i \in DOMAIN environ : environ[i] \in Strings /\ environ[i] \in Holds(environ)
           /\ Holds(environ) \subseteq Live /\ app \subseteq Live
           /\ [text EXCEPT ![s] = t] \in [Strings -> Text \cup {Dead}]
           /\ [text EXCEPT ![s] = t][s] = t /\ t # Dead
           /\ \A u \in Strings : u # s => [text EXCEPT ![s] = t][u] = text[u]
           /\ r # NULL => r \notin Live /\ r = s
           /\ \A u \in Strings \ {r} : [text EXCEPT ![s] = t][u] = text[u]
           /\ s \in {r} \/ s \in app
<1>1. EnvTypeOK /\ Holds(environ) \subseteq Live /\ app \subseteq Live
  BY DEF EnvInv, EnvStringsExact
<1>2. environ \in Seq(Strings) /\ text \in [Strings -> Text \cup {Dead}]
  BY <1>1 DEF EnvTypeOK
<1>3. /\ Len(environ) \in Nat /\ DOMAIN environ = 1 .. Len(environ)
      /\ \A i \in DOMAIN environ : environ[i] \in Strings /\ environ[i] \in Holds(environ)
  BY <1>2 DEF Holds
<1>4. t # Dead
  BY NoNull
<1>5. /\ [text EXCEPT ![s] = t] \in [Strings -> Text \cup {Dead}]
      /\ [text EXCEPT ![s] = t][s] = t
      /\ \A u \in Strings : u # s => [text EXCEPT ![s] = t][u] = text[u]
  BY <1>2
<1>6. \A u \in Strings \ {r} : [text EXCEPT ![s] = t][u] = text[u]
  BY <1>2 DEF Puts
<1>7. (r # NULL => r \notin Live /\ r = s) /\ (s \in {r} \/ s \in app)
  BY DEF Puts
<1> QED
  BY <1>1, <1>2, <1>3, <1>4, <1>5, <1>6, <1>7

LEMMA PutReplaceInv ==
    ASSUME EnvInv, NEW s \in Strings, NEW t \in Text, NEW r \in Slot, Puts(s, t, r),
           PutReplace(s, t, r)
    PROVE  EnvInv'
<1>1. PICK i \in DOMAIN environ :
         /\ environ' = [environ EXCEPT ![i] = s]
         /\ env_rm_add([text EXCEPT ![s] = t], {environ[i]}, r)
         /\ UNCHANGED <<env_array, app>>
  BY DEF PutReplace
<1>2. PICK txt : txt = [text EXCEPT ![s] = t]
  OBVIOUS
<1>3. PICK gone : gone = {environ[i]}
  OBVIOUS
<1>4. /\ EnvTypeOK /\ environ \in Seq(Strings) /\ Len(environ) \in Nat
      /\ DOMAIN environ = 1 .. Len(environ)
      /\ \A k \in DOMAIN environ : environ[k] \in Strings /\ environ[k] \in Holds(environ)
      /\ Holds(environ) \subseteq Live /\ app \subseteq Live
      /\ txt \in [Strings -> Text \cup {Dead}] /\ txt[s] # Dead
      /\ r # NULL => r \notin Live /\ r = s
      /\ \A u \in Strings \ {r} : txt[u] = text[u]
      /\ s \in {r} \/ s \in app
  BY <1>2, PutFacts
<1>5. /\ environ' \in Seq(Strings) /\ DOMAIN environ' = DOMAIN environ
      /\ environ'[i] = s /\ \A k \in DOMAIN environ \ {i} : environ'[k] = environ[k]
  BY <1>1, <1>4
<1>6. gone \in SUBSET Holds(environ)
  BY <1>3, <1>4
<1>7. env_array' \in {"none", "lib", "app"} /\ app' = app
  BY <1>1, <1>4 DEF EnvTypeOK
<1>8. s \in Holds(environ') /\ (r # NULL => r \notin Live /\ r \in Holds(environ') /\ txt[r] # Dead)
  BY <1>4, <1>5 DEF Holds
<1>9. Holds(environ') \subseteq Holds(environ) \cup {s}
  BY <1>5 DEF Holds
<1>10. s \in ({r} \ {NULL}) \cup app
  BY <1>4, NoNull
<1>11. Holds(environ) \subseteq Holds(environ') \cup gone
  BY <1>3, <1>5 DEF Holds
<1>12. \A k, l \in DOMAIN environ : environ[k] = environ[l] /\ environ[k] \notin app => k = l
  BY DEF EnvInv, Once
<1>13. Holds(environ') \cap gone \subseteq app
  <2>1. SUFFICES ASSUME NEW k \in DOMAIN environ, environ'[k] = environ[i]
                 PROVE  environ[i] \in app
    BY <1>3, <1>5 DEF Holds
  <2>2. CASE k = i
    BY <1>4, <1>5, <2>1, <2>2, NoNull
  <2>3. CASE k # i
    BY <1>5, <1>12, <2>1, <2>3
  <2> QED
    BY <2>2, <2>3
<1>14. Once'
  <2>1. SUFFICES ASSUME NEW k \in DOMAIN environ, NEW l \in DOMAIN environ,
                        environ'[k] = environ'[l], environ'[k] \notin app
                 PROVE  k = l
    BY <1>5, <1>7 DEF Once
  <2>2. s \notin app => \A m \in DOMAIN environ : environ[m] # s
    BY <1>4, NoNull
  <2>3. CASE k = i \/ l = i
    BY <1>5, <2>1, <2>2, <2>3
  <2>4. CASE k # i /\ l # i
    BY <1>5, <1>12, <2>1, <2>4
  <2> QED
    BY <2>3, <2>4
<1>15. env_rm_add(txt, gone, r)
  BY <1>1, <1>2, <1>3
<1>16. Holds(environ') \subseteq Holds(environ) \cup ({r} \ {NULL}) \cup app
  BY <1>9, <1>10
<1> QED
  BY <1>4, <1>5, <1>6, <1>7, <1>8, <1>11, <1>13, <1>14, <1>15, <1>16, ArrayChange

LEMMA PutAppendInv ==
    ASSUME EnvInv, NEW s \in Strings, NEW t \in Text, NEW r \in Slot, Puts(s, t, r),
           PutAppend(s, t, r)
    PROVE  EnvInv'
<1>1. /\ environ' = Append(environ, s) /\ env_array' = "lib" /\ UNCHANGED app
      /\ env_rm_add([text EXCEPT ![s] = t], {}, r)
  BY DEF PutAppend
<1>2. PICK txt : txt = [text EXCEPT ![s] = t]
  OBVIOUS
<1>3. PICK gone : gone = {}
  OBVIOUS
<1>4. /\ EnvTypeOK /\ environ \in Seq(Strings) /\ Len(environ) \in Nat
      /\ DOMAIN environ = 1 .. Len(environ)
      /\ \A k \in DOMAIN environ : environ[k] \in Strings /\ environ[k] \in Holds(environ)
      /\ Holds(environ) \subseteq Live /\ app \subseteq Live
      /\ txt \in [Strings -> Text \cup {Dead}] /\ txt[s] # Dead
      /\ r # NULL => r \notin Live /\ r = s
      /\ \A u \in Strings \ {r} : txt[u] = text[u]
      /\ s \in {r} \/ s \in app
  BY <1>2, PutFacts
<1>5. PICK n : n = Len(environ) + 1
  OBVIOUS
<1>6. /\ environ' \in Seq(Strings) /\ DOMAIN environ' = DOMAIN environ \cup {n}
      /\ n \notin DOMAIN environ
      /\ environ'[n] = s /\ \A k \in DOMAIN environ : environ'[k] = environ[k]
  BY <1>1, <1>4, <1>5
<1>7. s \in Holds(environ') /\ (r # NULL => r \notin Live /\ r \in Holds(environ') /\ txt[r] # Dead)
  BY <1>4, <1>6 DEF Holds
<1>8. Holds(environ') \subseteq Holds(environ) \cup {s} /\ Holds(environ) \subseteq Holds(environ')
  BY <1>6 DEF Holds
<1>9. Holds(environ') \subseteq Holds(environ) \cup ({r} \ {NULL}) \cup app
  BY <1>4, <1>8, NoNull
<1>10. Once'
  <2>1. SUFFICES ASSUME NEW k \in DOMAIN environ', NEW l \in DOMAIN environ',
                        environ'[k] = environ'[l], environ'[k] \notin app
                 PROVE  k = l
    BY <1>1 DEF Once
  <2>2. s \notin app => \A m \in DOMAIN environ : environ[m] # s
    BY <1>4, NoNull
  <2>3. CASE k = n \/ l = n
    BY <1>6, <2>1, <2>2, <2>3
  <2>4. CASE k # n /\ l # n
    BY <1>6, <2>1, <2>4 DEF EnvInv, Once
  <2> QED
    BY <2>3, <2>4
<1>11. env_rm_add(txt, gone, r) /\ gone \in SUBSET Holds(environ) /\ Holds(environ') \cap gone \subseteq app
  BY <1>1, <1>2, <1>3
<1>12. Holds(environ) \subseteq Holds(environ') \cup gone /\ env_array' \in {"none", "lib", "app"} /\ app' = app
  BY <1>1, <1>8
<1> QED
  BY <1>4, <1>6, <1>7, <1>9, <1>10, <1>11, <1>12, ArrayChange

Enumerates(at, P) ==
    /\ Cardinality(P) \in Nat /\ DOMAIN at = 1 .. Cardinality(P)
    /\ \A i \in DOMAIN at : at[i] \in P
    /\ \A i, j \in DOMAIN at : i < j => at[i] < at[j]
    /\ \A p \in P : \E i \in DOMAIN at : at[i] = p
    /\ \A i, j \in DOMAIN at : at[i] = at[j] => i = j

LEMMA InOrderFacts ==
    ASSUME NEW n \in Nat, NEW P \in SUBSET (1 .. n), NEW at \in InOrder(P)
    PROVE  Enumerates(at, P)
<1>1. IsFiniteSet(1 .. n)
  BY FS_Interval
<1>2. Cardinality(P) \in Nat
  BY <1>1, FS_Subset, FS_CardinalityType
<1>3. /\ DOMAIN at = 1 .. Cardinality(P)
      /\ \A i \in DOMAIN at : at[i] \in P
      /\ \A i, j \in DOMAIN at : i < j => at[i] < at[j]
      /\ \A p \in P : \E i \in DOMAIN at : at[i] = p
  BY DEF InOrder
<1>4. ASSUME NEW i \in DOMAIN at, NEW j \in DOMAIN at, at[i] = at[j] PROVE i = j
  <2>0. at[i] \in Nat /\ at[j] \in Nat
    <3>1. \A p \in P : p \in Nat
      OBVIOUS
    <3> QED
      BY <1>3, <3>1
  <2>1. i \in Nat /\ j \in Nat
    <3>1. PICK c \in Nat : c = Cardinality(P)
      BY <1>2
    <3>2. i \in 1 .. c /\ j \in 1 .. c
      BY <1>3, <3>1
    <3> QED
      BY <3>2
  <2>2. ~(i < j) /\ ~(j < i)
    BY <1>3, <1>4, <2>0, <2>1
  <2> QED
    BY <2>1, <2>2
<1> QED
  BY <1>2, <1>3, <1>4 DEF Enumerates

LEMMA unsetenvInv ==
    ASSUME EnvInv, NEW n, unsetenv(n)
    PROVE  EnvInv'
<1>0. EnvTypeOK /\ environ \in Seq(Strings) /\ text \in [Strings -> Text \cup {Dead}]
  BY DEF EnvInv, EnvTypeOK
<1>1. PICK P : P = {i \in DOMAIN environ : text[environ[i]].name # n}
  OBVIOUS
<1>2. PICK at \in InOrder(P) : environ' = [i \in DOMAIN at |-> environ[at[i]]]
  BY <1>1 DEF unsetenv
<1>3. PICK gone : gone = {s \in Holds(environ) : text[s].name = n}
  OBVIOUS
<1>4. Len(environ) \in Nat /\ DOMAIN environ = 1 .. Len(environ)
      /\ \A i \in DOMAIN environ : environ[i] \in Strings
  BY <1>0
<1>5. P \in SUBSET (1 .. Len(environ))
  BY <1>1, <1>4
<1>6. /\ Cardinality(P) \in Nat /\ DOMAIN at = 1 .. Cardinality(P)
      /\ \A i \in DOMAIN at : at[i] \in P
      /\ \A p \in P : \E i \in DOMAIN at : at[i] = p
      /\ \A i, j \in DOMAIN at : at[i] = at[j] => i = j
  <2>1. PICK len \in Nat : len = Len(environ)
    BY <1>4
  <2>2. P \in SUBSET (1 .. len)
    BY <1>5, <2>1
  <2>3. at \in InOrder(P)
    OBVIOUS
  <2>4. Enumerates(at, P)
    BY <2>2, <2>3, InOrderFacts
  <2> QED
    BY <2>4 DEF Enumerates
<1>7. /\ DOMAIN environ' = DOMAIN at /\ \A i \in DOMAIN at : environ'[i] = environ[at[i]]
      /\ \A i \in DOMAIN at : at[i] \in DOMAIN environ
  BY <1>1, <1>2, <1>6
<1>8. environ' \in Seq(Strings)
  BY <1>2, <1>4, <1>6, <1>7
<1>9. Holds(environ') \subseteq Holds(environ) /\ Holds(environ) \subseteq Holds(environ') \cup gone
  <2>1. Holds(environ') \subseteq Holds(environ)
    BY <1>7 DEF Holds
  <2>2. ASSUME NEW i \in DOMAIN environ PROVE environ[i] \in Holds(environ') \cup gone
    <3>1. CASE i \in P
      BY <1>6, <1>7, <3>1 DEF Holds
    <3>2. CASE i \notin P
      BY <1>1, <1>3, <3>2 DEF Holds
    <3> QED
      BY <3>1, <3>2
  <2> QED
    BY <2>1, <2>2 DEF Holds
<1>10. Holds(environ') \cap gone = {}
  BY <1>1, <1>3, <1>6, <1>7 DEF Holds
<1>11. Once'
  BY <1>6, <1>7 DEF EnvInv, Once, unsetenv
<1>12. env_rm_add(text, gone, NULL) /\ UNCHANGED app /\ env_array' \in {"none", "lib", "app"}
  BY <1>0, <1>3 DEF unsetenv, EnvTypeOK
<1>13. gone \in SUBSET Holds(environ)
  BY <1>3
<1>14. PICK new \in Slot : new = NULL
  BY DEF Slot
<1> QED
  BY <1>0, <1>8, <1>9, <1>10, <1>11, <1>12, <1>13, <1>14, ArrayChange

LEMMA clearenvInv ==
    ASSUME EnvInv, clearenv
    PROVE  EnvInv'
<1>1. /\ environ' = <<>> /\ env_array' = "none" /\ UNCHANGED app
      /\ env_rm_add(text, Holds(environ), NULL)
  BY DEF clearenv
<1>2. text \in [Strings -> Text \cup {Dead}]
  BY DEF EnvInv, EnvTypeOK
<1>3. environ' \in Seq(Strings) /\ DOMAIN environ' = {} /\ Holds(environ') = {}
  BY <1>1 DEF Holds
<1>4. Once'
  BY <1>3 DEF Once
<1>5. PICK new \in Slot : new = NULL
  BY DEF Slot
<1>6. PICK gone \in SUBSET Holds(environ) : gone = Holds(environ)
  OBVIOUS
<1>7. env_array' \in {"none", "lib", "app"}
  BY <1>1
<1> QED
  BY <1>1, <1>2, <1>3, <1>4, <1>5, <1>6, <1>7, ArrayChange

LEMMA AppStringInv ==
    ASSUME EnvInv, NEW s \in Strings, NEW t \in Text, AppString(s, t)
    PROVE  EnvInv'
<1>1. /\ s \notin Live /\ text' = [text EXCEPT ![s] = t] /\ app' = app \cup {s}
      /\ UNCHANGED <<environ, env_array, env_alloced, untracked>>
  BY DEF AppString
<1>2. text \in [Strings -> Text \cup {Dead}] /\ t # Dead
  BY NoNull DEF EnvInv, EnvTypeOK
<1>3. Live' = Live \cup {s}
  BY <1>1, <1>2 DEF Live
<1>4. EnvTypeOK'
  BY <1>1, <1>2 DEF EnvInv, EnvTypeOK
<1>5. Holds(environ') = Holds(environ) /\ Holds(env_alloced') = Holds(env_alloced)
  BY <1>1
<1>6. EnvStringsExact'
  BY <1>1, <1>3, <1>5 DEF EnvInv, EnvStringsExact
<1> QED
  BY <1>1, <1>4, <1>5, <1>6 DEF EnvInv, Once, Owned, Slots

LEMMA AppFreeInv ==
    ASSUME EnvInv, NEW s \in Strings, AppFree(s)
    PROVE  EnvInv'
<1>1. /\ s \in app /\ s \notin Holds(environ) /\ text' = [text EXCEPT ![s] = Dead]
      /\ app' = app \ {s} /\ UNCHANGED <<environ, env_array, env_alloced, untracked>>
  BY DEF AppFree
<1>2. text \in [Strings -> Text \cup {Dead}]
  BY DEF EnvInv, EnvTypeOK
<1>3. Live' = Live \ {s}
  BY <1>1, <1>2 DEF Live
<1>4. EnvTypeOK'
  BY <1>1, <1>2 DEF EnvInv, EnvTypeOK
<1>5. Holds(environ') = Holds(environ) /\ Holds(env_alloced') = Holds(env_alloced)
  BY <1>1
<1>6. EnvStringsExact'
  BY <1>1, <1>3, <1>5 DEF EnvInv, EnvStringsExact
<1>7. Once'
  BY <1>1 DEF EnvInv, Once, Holds
<1> QED
  BY <1>1, <1>4, <1>5, <1>6, <1>7 DEF EnvInv, Owned, Slots

(* What setenv and putenv have in common.                                   *)
Put(s, t, r) == PutReplace(s, t, r) \/ PutAppend(s, t, r)

LEMMA setenvIsPut ==
    ASSUME EnvInv, NEW n \in Names, NEW v \in Values, NEW overwrite, setenv(n, v, overwrite)
    PROVE  \E s \in Strings, t \in Text, r \in Slot :
              t.name = n /\ t.value = v /\ Puts(s, t, r) /\ Put(s, t, r)
<1>1. PICK t \in Text : t = [name |-> n, value |-> v]
  BY DEF Text
<1>2. PICK s \in Strings \ Live : Put(s, t, s)
  BY <1>1 DEF setenv, Put
<1>3. s \in Slot /\ t.name = n /\ t.value = v
  BY <1>1 DEF Slot
<1> QED
  BY <1>2, <1>3 DEF Puts

LEMMA putenvIsPut ==
    ASSUME EnvInv, NEW s \in Strings, putenv(s)
    PROVE  text[s] \in Text /\ Puts(s, text[s], NULL) /\ Put(s, text[s], NULL) /\ NULL \in Slot
<1>1. s \in app /\ app \subseteq Live /\ text \in [Strings -> Text \cup {Dead}]
  BY DEF putenv, EnvInv, EnvStringsExact, EnvTypeOK
<1>2. text[s] \in Text
  BY <1>1 DEF Live
<1> QED
  BY <1>1, <1>2 DEF putenv, Puts, Put, Slot

LEMMA PutInv ==
    ASSUME EnvInv, NEW s \in Strings, NEW t \in Text, NEW r \in Slot, Puts(s, t, r), Put(s, t, r)
    PROVE  EnvInv'
BY PutReplaceInv, PutAppendInv DEF Put

LEMMA EnvInitInv == EnvInit => EnvInv
<1> SUFFICES ASSUME EnvInit PROVE EnvInv
  OBVIOUS
<1>1. environ \in Seq(Strings)
  BY EnvAssumption DEF EnvInit
<1>2. Holds(environ) \subseteq Strings
  BY <1>1 DEF Holds
<1>3. Holds(env_alloced) = {}
  BY DEF EnvInit, Holds
<1>4. EnvTypeOK
  BY <1>1, <1>2 DEF EnvInit, EnvTypeOK
<1>5. Live = app
  BY <1>2 DEF EnvInit, Live
<1>6. EnvStringsExact
  BY <1>3, <1>5 DEF EnvInit, EnvStringsExact
<1>7. Once
  BY DEF EnvInit, Once, Holds
<1> QED
  BY <1>4, <1>6, <1>7 DEF EnvInit, EnvInv, Owned

LEMMA EnvNextInv == EnvInv /\ [EnvNext]_envVars => EnvInv'
<1> SUFFICES ASSUME EnvInv, [EnvNext]_envVars PROVE EnvInv'
  OBVIOUS
<1>1. CASE UNCHANGED envVars
  BY <1>1 DEF envVars, EnvInv, EnvTypeOK, EnvStringsExact, Live, Once, Owned, Slots
<1>2. ASSUME NEW n \in Names, NEW v \in Values, NEW overwrite \in BOOLEAN, setenv(n, v, overwrite)
      PROVE  EnvInv'
  BY <1>2, setenvIsPut, PutInv
<1>3. ASSUME NEW s \in Strings, putenv(s) PROVE EnvInv'
  <2>1. PICK t \in Text, r \in Slot : t = text[s] /\ r = NULL /\ Puts(s, t, r) /\ Put(s, t, r)
    BY <1>3, putenvIsPut
  <2> QED
    BY <2>1, PutInv
<1> QED
  BY <1>1, <1>2, <1>3, unsetenvInv, clearenvInv, AppStringInv, AppFreeInv DEF EnvNext

(* The invariant holds of every use of the environment's functions by one   *)
(* thread and of the strings and arrays by the application.                 *)
THEOREM EnvInvariance == EnvSpec => []EnvInv
BY EnvInitInv, EnvNextInv, PTL DEF EnvSpec

(* For any names, values, arrays at the start and addresses handed out      *)
(* again: nothing in the environment or in a slot of env_alloced was freed, *)
(* the library frees no string of the application, and it leaks none but    *)
(* those no slot could be had for.                                          *)
THEOREM EnvStringsCorrect == EnvSpec => []EnvStringsExact
<1>1. EnvInv => EnvStringsExact
  BY DEF EnvInv
<1> QED
  BY <1>1, EnvInvariance, PTL

-----------------------------------------------------------------------------
(* What getenv finds, as a function of the array e and the strings x.       *)

FirstIn(e, x, i, n) ==
    /\ i \in DOMAIN e /\ x[e[i]].name = n
    /\ \A j \in 1 .. i - 1 : x[e[j]].name # n

Get(e, x, n) ==
    IF \E i \in DOMAIN e : x[e[i]].name = n
    THEN x[e[CHOOSE i \in DOMAIN e : FirstIn(e, x, i, n)]].value ELSE NULL

LEMMA getenvIsGet ==
    /\ \A n : getenv(n) = Get(environ, text, n)
    /\ \A n : getenv(n)' = Get(environ', text', n)
BY DEF getenv, IsSet, First, Get, FirstIn

LEMMA FirstFound ==
    ASSUME NEW e \in Seq(Strings), NEW x, NEW n, \E i \in DOMAIN e : x[e[i]].name = n
    PROVE  \E i \in DOMAIN e : FirstIn(e, x, i, n)
<1>1. PICK T : T = {i \in DOMAIN e : x[e[i]].name = n}
  OBVIOUS
<1>2. DOMAIN e = 1 .. Len(e) /\ Len(e) \in Nat
  OBVIOUS
<1>3. T \subseteq Nat /\ T # {}
  BY <1>1, <1>2
<1>4. PICK i \in T : \A j \in T : i <= j
  BY <1>3, SmallestNumber
<1>5. i \in DOMAIN e /\ x[e[i]].name = n
  BY <1>1
<1>6. ASSUME NEW j \in 1 .. i - 1 PROVE x[e[j]].name # n
  <2>1. j \in DOMAIN e /\ j < i
    BY <1>2, <1>5
  <2> QED
    BY <1>1, <1>2, <1>4, <1>5, <2>1
<1> QED
  BY <1>5, <1>6 DEF FirstIn

LEMMA FirstUnique ==
    ASSUME NEW e \in Seq(Strings), NEW x, NEW n, NEW i, NEW k, FirstIn(e, x, i, n), FirstIn(e, x, k, n)
    PROVE  i = k
<1>1. DOMAIN e = 1 .. Len(e) /\ Len(e) \in Nat
  OBVIOUS
<1>2. i \in Nat /\ k \in Nat /\ i >= 1 /\ k >= 1
  BY <1>1 DEF FirstIn
<1>3. ~(i < k) /\ ~(k < i)
  BY <1>2 DEF FirstIn
<1> QED
  BY <1>2, <1>3

LEMMA GetAt ==
    ASSUME NEW e \in Seq(Strings), NEW x, NEW n, NEW i, FirstIn(e, x, i, n)
    PROVE  Get(e, x, n) = x[e[i]].value
<1>1. PICK k : k = CHOOSE j \in DOMAIN e : FirstIn(e, x, j, n)
  OBVIOUS
<1>2. i \in DOMAIN e /\ x[e[i]].name = n
  BY DEF FirstIn
<1>3. FirstIn(e, x, k, n)
  BY <1>1, <1>2
<1>4. k = i
  BY <1>3, FirstUnique
<1> QED
  BY <1>1, <1>2, <1>4 DEF Get

(* Arrays of which each has a string of the name whenever the other has,    *)
(* with the same value and with none before it unless the other has one.    *)
Matches(e, x, f, y, n) ==
    /\ \A k \in DOMAIN e : x[e[k]].name = n =>
          \E l \in DOMAIN f :
             /\ y[f[l]].name = n /\ y[f[l]].value = x[e[k]].value
             /\ \A j \in 1 .. l - 1 : y[f[j]].name = n => \E i \in 1 .. k - 1 : x[e[i]].name = n
    /\ \A l \in DOMAIN f : y[f[l]].name = n => \E k \in DOMAIN e : x[e[k]].name = n

LEMMA GetSame ==
    ASSUME NEW e \in Seq(Strings), NEW x, NEW f \in Seq(Strings), NEW y, NEW n,
           Matches(e, x, f, y, n)
    PROVE  Get(f, y, n) = Get(e, x, n)
<1>1. CASE \E k \in DOMAIN e : x[e[k]].name = n
  <2>1. PICK k \in DOMAIN e : FirstIn(e, x, k, n)
    BY <1>1, FirstFound
  <2>2. PICK l \in DOMAIN f :
           /\ y[f[l]].name = n /\ y[f[l]].value = x[e[k]].value
           /\ \A j \in 1 .. l - 1 : y[f[j]].name = n => \E i \in 1 .. k - 1 : x[e[i]].name = n
    BY <2>1 DEF FirstIn, Matches
  <2>3. FirstIn(f, y, l, n)
    BY <2>1, <2>2 DEF FirstIn
  <2> QED
    BY <2>1, <2>2, <2>3, GetAt
<1>2. CASE ~\E k \in DOMAIN e : x[e[k]].name = n
  BY <1>2 DEF Get, Matches
<1> QED
  BY <1>1, <1>2

-----------------------------------------------------------------------------
(* Each function is its operation of the map.                               *)

SetsOne(n, v) ==
    /\ Get(environ', text', n) = v
    /\ \A m : m # n => Get(environ', text', m) = Get(environ, text, m)

LEMMA PutText ==
    ASSUME EnvInv, NEW s \in Strings, NEW t \in Text, NEW r \in Slot, Puts(s, t, r),
           NEW gone, env_rm_add([text EXCEPT ![s] = t], gone, r)
    PROVE  /\ text'[s] = t
           /\ \A u \in Live : ~(u \in gone /\ u \in Slots) => text'[u] = text[u]
<1>1. PICK txt : txt = [text EXCEPT ![s] = t]
  OBVIOUS
<1>2. /\ EnvTypeOK /\ txt \in [Strings -> Text \cup {Dead}] /\ txt[s] = t
      /\ \A u \in Strings \ {r} : txt[u] = text[u]
      /\ r # NULL => r \notin Live /\ r = s
      /\ s \in {r} \/ s \in app
  BY <1>1, PutFacts
<1>3. RmAdded(txt, gone, r)
  BY <1>1, <1>2, RmAdd
<1>4. \A u \in Strings : text'[u] = IF u \in gone /\ u \in Slots THEN Dead ELSE txt[u]
  BY <1>3 DEF RmAdded
<1>5. Slots \subseteq Live \ app
  BY DEF EnvInv, EnvStringsExact, Slots
<1>6. s \notin Slots
  BY <1>2, <1>5, NoNull
<1>7. ASSUME NEW u \in Live, ~(u \in gone /\ u \in Slots) PROVE text'[u] = text[u]
  <2>1. u \in Strings /\ u # r
    BY <1>2, NoNull DEF Live
  <2> QED
    BY <1>2, <1>4, <1>7, <2>1
<1> QED
  BY <1>2, <1>4, <1>6, <1>7

LEMMA PutReplaceMaps ==
    ASSUME EnvInv, NEW s \in Strings, NEW t \in Text, NEW r \in Slot, Puts(s, t, r),
           PutReplace(s, t, r)
    PROVE  SetsOne(t.name, t.value)
<1>1. PICK i \in DOMAIN environ :
         /\ First(i, t.name)
         /\ environ' = [environ EXCEPT ![i] = s]
         /\ env_rm_add([text EXCEPT ![s] = t], {environ[i]}, r)
  BY DEF PutReplace
<1>2. /\ environ \in Seq(Strings) /\ Len(environ) \in Nat /\ DOMAIN environ = 1 .. Len(environ)
      /\ \A k \in DOMAIN environ : environ[k] \in Live
  BY PutFacts
<1>3. /\ environ' \in Seq(Strings) /\ DOMAIN environ' = DOMAIN environ
      /\ environ'[i] = s /\ \A k \in DOMAIN environ \ {i} : environ'[k] = environ[k]
  BY <1>1, <1>2
<1>4. /\ text'[s] = t
      /\ \A u \in Live : ~(u = environ[i] /\ u \in Slots) => text'[u] = text[u]
  <2>1. PICK gone : gone = {environ[i]}
    OBVIOUS
  <2> QED
    BY <1>1, <2>1, PutText
<1>5. ASSUME NEW k \in DOMAIN environ, k # i PROVE text'[environ'[k]] = text[environ[k]]
  <2>1. environ[i] \in Slots => environ[i] \notin app
    BY DEF EnvInv, EnvStringsExact, Slots
  <2>2. environ[k] = environ[i] => environ[k] \notin Slots
    BY <1>5, <2>1 DEF EnvInv, Once
  <2> QED
    BY <1>2, <1>3, <1>4, <1>5, <2>2
<1>6. text'[environ'[i]] = t
  BY <1>3, <1>4
<1>7. \A j \in 1 .. i - 1 : j \in DOMAIN environ /\ j # i /\ text[environ[j]].name # t.name
  BY <1>1, <1>2 DEF First
<1>8. Get(environ', text', t.name) = t.value
  <2>1. FirstIn(environ', text', i, t.name)
    BY <1>3, <1>5, <1>6, <1>7 DEF FirstIn
  <2>e. PICK e \in Seq(Strings) : e = environ'
    BY <1>3
  <2>x. PICK x : x = text'
    OBVIOUS
  <2>2. e = environ' /\ x = text'
    BY <2>e, <2>x
  <2>3. Get(e, x, t.name) = x[e[i]].value
    BY <2>1, <2>2, GetAt
  <2> QED
    BY <1>6, <2>2, <2>3
<1>9. ASSUME NEW m, m # t.name PROVE Get(environ', text', m) = Get(environ, text, m)
  <2>e. PICK e \in Seq(Strings) : e = environ
    BY <1>2, <1>3
  <2>f. PICK f \in Seq(Strings) : f = environ'
    BY <1>2, <1>3
  <2>x. PICK x : x = text
    OBVIOUS
  <2>y. PICK y : y = text'
    OBVIOUS
  <2>1. e = environ /\ x = text /\ f = environ' /\ y = text'
    BY <2>e, <2>f, <2>x, <2>y
  <2>2. DOMAIN f = DOMAIN e /\ \A k \in DOMAIN e : k # i => y[f[k]] = x[e[k]]
    BY <1>3, <1>5, <2>1
  <2>3. x[e[i]].name # m /\ y[f[i]].name # m
    BY <1>1, <1>6, <1>9, <2>1 DEF First
  <2>4. \A k \in DOMAIN e : \A j \in 1 .. k - 1 : j \in DOMAIN e
    BY <1>2, <2>1
  <2>5. \A k \in DOMAIN e : x[e[k]].name = m =>
           \E l \in DOMAIN f :
              /\ y[f[l]].name = m /\ y[f[l]].value = x[e[k]].value
              /\ \A j \in 1 .. l - 1 : y[f[j]].name = m => \E q \in 1 .. k - 1 : x[e[q]].name = m
    BY <2>2, <2>3, <2>4
  <2>6. \A l \in DOMAIN f : y[f[l]].name = m => \E k \in DOMAIN e : x[e[k]].name = m
    BY <2>2, <2>3
  <2>7. Get(f, y, m) = Get(e, x, m)
    <3>1. Matches(e, x, f, y, m)
      BY <2>5, <2>6 DEF Matches
    <3> QED
      BY <3>1, GetSame
  <2> QED
    BY <2>1, <2>7
<1> QED
  BY <1>8, <1>9 DEF SetsOne

LEMMA PutAppendMaps ==
    ASSUME EnvInv, NEW s \in Strings, NEW t \in Text, NEW r \in Slot, Puts(s, t, r),
           PutAppend(s, t, r)
    PROVE  SetsOne(t.name, t.value)
<1>1. /\ ~IsSet(t.name) /\ environ' = Append(environ, s)
      /\ env_rm_add([text EXCEPT ![s] = t], {}, r)
  BY DEF PutAppend
<1>2. /\ environ \in Seq(Strings) /\ Len(environ) \in Nat /\ DOMAIN environ = 1 .. Len(environ)
      /\ \A k \in DOMAIN environ : environ[k] \in Live
  BY PutFacts
<1>3. PICK i : i = Len(environ) + 1
  OBVIOUS
<1>4. /\ environ' \in Seq(Strings) /\ DOMAIN environ' = DOMAIN environ \cup {i}
      /\ i \notin DOMAIN environ /\ \A j \in 1 .. i - 1 : j \in DOMAIN environ
      /\ environ'[i] = s /\ \A k \in DOMAIN environ : environ'[k] = environ[k]
  BY <1>1, <1>2, <1>3
<1>5. text'[s] = t /\ \A u \in Live : text'[u] = text[u]
  <2>1. PICK gone : gone = {}
    OBVIOUS
  <2> QED
    BY <1>1, <2>1, PutText
<1>6. \A k \in DOMAIN environ : text'[environ'[k]] = text[environ[k]]
  BY <1>2, <1>4, <1>5
<1>7. text'[environ'[i]] = t
  BY <1>4, <1>5
<1>8. Get(environ', text', t.name) = t.value
  <2>1. FirstIn(environ', text', i, t.name)
    BY <1>1, <1>4, <1>6, <1>7 DEF FirstIn, IsSet
  <2>e. PICK e \in Seq(Strings) : e = environ'
    BY <1>4
  <2>x. PICK x : x = text'
    OBVIOUS
  <2>2. e = environ' /\ x = text'
    BY <2>e, <2>x
  <2>3. Get(e, x, t.name) = x[e[i]].value
    BY <2>1, <2>2, GetAt
  <2> QED
    BY <1>7, <2>2, <2>3
<1>9. ASSUME NEW m, m # t.name PROVE Get(environ', text', m) = Get(environ, text, m)
  <2>e. PICK e \in Seq(Strings) : e = environ
    BY <1>2, <1>4
  <2>f. PICK f \in Seq(Strings) : f = environ'
    BY <1>2, <1>4
  <2>x. PICK x : x = text
    OBVIOUS
  <2>y. PICK y : y = text'
    OBVIOUS
  <2>1. e = environ /\ x = text /\ f = environ' /\ y = text'
    BY <2>e, <2>f, <2>x, <2>y
  <2>2. DOMAIN f = DOMAIN e \cup {i} /\ \A k \in DOMAIN e : y[f[k]] = x[e[k]]
    BY <1>4, <1>6, <2>1
  <2>3. y[f[i]].name # m
    BY <1>7, <1>9, <2>1
  <2>4. \A k \in DOMAIN e : \A j \in 1 .. k - 1 : j \in DOMAIN e
    BY <1>2, <2>1
  <2>5. \A k \in DOMAIN e : x[e[k]].name = m =>
           \E l \in DOMAIN f :
              /\ y[f[l]].name = m /\ y[f[l]].value = x[e[k]].value
              /\ \A j \in 1 .. l - 1 : y[f[j]].name = m => \E q \in 1 .. k - 1 : x[e[q]].name = m
    BY <2>2, <2>4
  <2>6. \A l \in DOMAIN f : y[f[l]].name = m => \E k \in DOMAIN e : x[e[k]].name = m
    BY <2>2, <2>3
  <2>7. Get(f, y, m) = Get(e, x, m)
    <3>1. Matches(e, x, f, y, m)
      BY <2>5, <2>6 DEF Matches
    <3> QED
      BY <3>1, GetSame
  <2> QED
    BY <2>1, <2>7
<1> QED
  BY <1>8, <1>9 DEF SetsOne

LEMMA unsetenvMaps ==
    ASSUME EnvInv, NEW n, unsetenv(n)
    PROVE  SetsOne(n, NULL)
<1>0. EnvTypeOK /\ environ \in Seq(Strings) /\ text \in [Strings -> Text \cup {Dead}]
  BY DEF EnvInv, EnvTypeOK
<1>1. PICK P : P = {i \in DOMAIN environ : text[environ[i]].name # n}
  OBVIOUS
<1>2. PICK at \in InOrder(P) : environ' = [i \in DOMAIN at |-> environ[at[i]]]
  BY <1>1 DEF unsetenv
<1>3. PICK gone : gone = {s \in Holds(environ) : text[s].name = n}
  OBVIOUS
<1>4. PICK len \in Nat : DOMAIN environ = 1 .. len
  BY <1>0
<1>5. P \in SUBSET (1 .. len)
  BY <1>1, <1>4
<1>6. Enumerates(at, P)
  BY <1>5, InOrderFacts
<1>7. /\ DOMAIN environ' = DOMAIN at
      /\ \A i \in DOMAIN at : environ'[i] = environ[at[i]] /\ at[i] \in P /\ at[i] \in DOMAIN environ
  BY <1>1, <1>2, <1>6 DEF Enumerates
<1>8. \A s \in Strings : s \notin gone => text'[s] = text[s]
  <2>1. PICK new \in Slot : new = NULL
    BY DEF Slot
  <2>2. env_rm_add(text, gone, new)
    BY <1>3, <2>1 DEF unsetenv
  <2>3. RmAdded(text, gone, new)
    BY <1>0, <2>2, RmAdd
  <2> QED
    BY <2>3 DEF RmAdded
<1>9. \A i \in DOMAIN at : text'[environ'[i]] = text[environ[at[i]]] /\ text[environ[at[i]]].name # n
  <2>1. \A i \in DOMAIN environ : environ[i] \in Strings
    BY <1>0
  <2> QED
    BY <1>1, <1>3, <1>7, <1>8, <2>1
<1>10. environ' \in Seq(Strings)
  BY unsetenvInv DEF EnvInv, EnvTypeOK
<1>11. Get(environ', text', n) = NULL
  BY <1>7, <1>9 DEF Get
<1>12. ASSUME NEW m, m # n PROVE Get(environ', text', m) = Get(environ, text, m)
  <2>e. PICK e \in Seq(Strings) : e = environ
    BY <1>0, <1>10
  <2>f. PICK f \in Seq(Strings) : f = environ'
    BY <1>0, <1>10
  <2>x. PICK x : x = text
    OBVIOUS
  <2>y. PICK y : y = text'
    OBVIOUS
  <2>1. e = environ /\ x = text /\ f = environ' /\ y = text'
    BY <2>e, <2>f, <2>x, <2>y
  <2>2. /\ DOMAIN f = DOMAIN at
        /\ \A i \in DOMAIN at : at[i] \in DOMAIN e /\ y[f[i]] = x[e[at[i]]]
    BY <1>7, <1>9, <2>1
  <2>3. ASSUME NEW k \in DOMAIN e, x[e[k]].name = m
        PROVE  \E l \in DOMAIN f :
                  /\ y[f[l]].name = m /\ y[f[l]].value = x[e[k]].value
                  /\ \A j \in 1 .. l - 1 : y[f[j]].name = m => \E q \in 1 .. k - 1 : x[e[q]].name = m
    <3>1. k \in P
      BY <1>1, <1>12, <2>1, <2>3
    <3>2. PICK l \in DOMAIN at : at[l] = k
      BY <1>6, <3>1 DEF Enumerates
    <3>3. ASSUME NEW j \in 1 .. l - 1, y[f[j]].name = m PROVE \E q \in 1 .. k - 1 : x[e[q]].name = m
      <4>1. PICK c \in Nat : DOMAIN at = 1 .. c
        BY <1>6 DEF Enumerates
      <4>2. j \in DOMAIN at /\ j < l
        BY <4>1
      <4>3. at[j] < k
        BY <1>6, <3>2, <4>2 DEF Enumerates
      <4>4. k \in 1 .. len /\ at[j] \in 1 .. len
        BY <1>4, <2>1, <2>2, <4>2
      <4>5. at[j] \in 1 .. k - 1
        BY <4>3, <4>4
      <4> QED
        BY <2>2, <3>3, <4>2, <4>5
    <3> QED
      BY <2>2, <2>3, <3>2, <3>3
  <2>4. \A l \in DOMAIN f : y[f[l]].name = m => \E k \in DOMAIN e : x[e[k]].name = m
    BY <2>2
  <2>5. Get(f, y, m) = Get(e, x, m)
    <3>1. Matches(e, x, f, y, m)
      BY <2>3, <2>4 DEF Matches
    <3> QED
      BY <3>1, GetSame
  <2> QED
    BY <2>1, <2>5
<1> QED
  BY <1>11, <1>12 DEF SetsOne

LEMMA clearenvMaps ==
    ASSUME clearenv
    PROVE  \A n : Get(environ', text', n) = NULL
<1>1. DOMAIN environ' = {}
  BY DEF clearenv
<1> QED
  BY <1>1 DEF Get

(* Strings that are not in the array do not matter.                         *)
LEMMA AppMapsNothing ==
    ASSUME EnvInv, NEW s \in Strings, AppFree(s) \/ \E t \in Text : AppString(s, t)
    PROVE  \A n : Get(environ', text', n) = Get(environ, text, n)
<1>1. EnvTypeOK /\ environ \in Seq(Strings) /\ text \in [Strings -> Text \cup {Dead}]
      /\ Holds(environ) \subseteq Live
  BY DEF EnvInv, EnvTypeOK, EnvStringsExact
<1>2. environ' = environ /\ s \notin Holds(environ)
  BY <1>1 DEF AppFree, AppString
<1>3. \A u \in Strings \ {s} : text'[u] = text[u]
  BY <1>1 DEF AppFree, AppString
<1>4. \A k \in DOMAIN environ : text'[environ[k]] = text[environ[k]]
  BY <1>1, <1>2, <1>3 DEF Holds
<1>5. ASSUME NEW n PROVE Get(environ', text', n) = Get(environ, text, n)
  <2>1. PICK e \in Seq(Strings) : e = environ
    BY <1>1
  <2>2. PICK x : x = text
    OBVIOUS
  <2>3. PICK y : y = text'
    OBVIOUS
  <2>4. \A k \in DOMAIN e : y[e[k]] = x[e[k]] /\ \A j \in 1 .. k - 1 : j \in DOMAIN e
    BY <1>1, <1>4, <2>1, <2>2, <2>3
  <2>5. Matches(e, x, e, y, n)
    BY <2>4 DEF Matches
  <2>6. Get(e, y, n) = Get(e, x, n)
    BY <2>5, GetSame
  <2> QED
    BY <1>2, <2>1, <2>2, <2>3, <2>6
<1> QED
  BY <1>5

LEMMA GetType ==
    ASSUME NEW e \in Seq(Strings), NEW x, NEW n, \A i \in DOMAIN e : x[e[i]] \in Text
    PROVE  Get(e, x, n) \in Values \cup {NULL}
<1>1. CASE \E i \in DOMAIN e : x[e[i]].name = n
  <2>1. PICK i \in DOMAIN e : FirstIn(e, x, i, n)
    BY <1>1, FirstFound
  <2>2. Get(e, x, n) = x[e[i]].value
    BY <2>1, GetAt
  <2> QED
    BY <2>2 DEF Text
<1>2. CASE ~\E i \in DOMAIN e : x[e[i]].name = n
  BY <1>2 DEF Get
<1> QED
  BY <1>1, <1>2

LEMMA MapInit == EnvInit => Map!Init
<1> SUFFICES ASSUME EnvInit, NEW n \in Names PROVE getenv(n) \in Values \cup {NULL}
  BY DEF Map!Init
<1>1. EnvTypeOK /\ Holds(environ) \subseteq Live
  BY EnvInitInv DEF EnvInv, EnvStringsExact
<1>2. environ \in Seq(Strings) /\ \A i \in DOMAIN environ : text[environ[i]] \in Text
  BY <1>1 DEF EnvTypeOK, Live, Holds
<1>3. Get(environ, text, n) \in Values \cup {NULL}
  BY <1>2, GetType
<1> QED
  BY <1>3, getenvIsGet

LEMMA SetsOneIsSet ==
    ASSUME NEW n \in Names, NEW v, SetsOne(n, v)
    PROVE  Map!Set(n, v) /\ (v = NULL => Map!Unset(n))
<1>1. \A m \in Names : getenv(m)' = IF m = n THEN v ELSE getenv(m)
  BY getenvIsGet DEF SetsOne
<1>2. [m \in Names |-> getenv(m)]' = [[m \in Names |-> getenv(m)] EXCEPT ![n] = v]
  BY <1>1
<1> QED
  BY <1>2 DEF Map!Set, Map!Unset

LEMMA PutMaps ==
    ASSUME EnvInv, NEW s \in Strings, NEW t \in Text, NEW r \in Slot, Puts(s, t, r), Put(s, t, r)
    PROVE  Map!Set(t.name, t.value)
<1>1. SetsOne(t.name, t.value)
  BY PutReplaceMaps, PutAppendMaps DEF Put
<1>2. t.name \in Names
  BY DEF Text
<1> QED
  BY <1>1, <1>2, SetsOneIsSet

LEMMA setenvMaps ==
    ASSUME EnvInv, NEW n \in Names, NEW v \in Values, NEW overwrite, setenv(n, v, overwrite)
    PROVE  Map!Set(n, v)
<1>1. PICK s \in Strings, t \in Text, r \in Slot :
         t.name = n /\ t.value = v /\ Puts(s, t, r) /\ Put(s, t, r)
  BY setenvIsPut
<1>2. Map!Set(t.name, t.value)
  BY <1>1, PutMaps
<1> QED
  BY <1>1, <1>2

LEMMA putenvMaps ==
    ASSUME EnvInv, NEW s \in Strings, putenv(s)
    PROVE  text[s] \in Text /\ Map!Set(text[s].name, text[s].value)
<1>1. PICK t \in Text, r \in Slot : t = text[s] /\ r = NULL /\ Puts(s, t, r) /\ Put(s, t, r)
  BY putenvIsPut
<1>2. Map!Set(t.name, t.value)
  BY <1>1, PutMaps
<1> QED
  BY <1>1, <1>2

LEMMA unsetenvUnsets ==
    ASSUME EnvInv, NEW n \in Names, unsetenv(n)
    PROVE  Map!Unset(n)
<1>1. PICK v : v = NULL
  OBVIOUS
<1>2. SetsOne(n, v)
  BY <1>1, unsetenvMaps
<1> QED
  BY <1>1, <1>2, SetsOneIsSet

LEMMA clearenvClears ==
    ASSUME clearenv
    PROVE  Map!Clear
<1>1. \A n \in Names : getenv(n)' = NULL
  BY clearenvMaps, getenvIsGet
<1> QED
  BY <1>1 DEF Map!Clear

LEMMA MapStep == EnvInv /\ [EnvNext]_envVars => [Map!Next]_([n \in Names |-> getenv(n)])
<1> SUFFICES ASSUME EnvInv, [EnvNext]_envVars
             PROVE  [Map!Next]_([n \in Names |-> getenv(n)])
  OBVIOUS
<1>1. CASE UNCHANGED envVars
  <2>1. \A n \in Names : getenv(n)' = getenv(n)
    BY <1>1, getenvIsGet DEF envVars
  <2> QED
    BY <2>1
<1>2. ASSUME NEW n \in Names, NEW v \in Values, NEW overwrite \in BOOLEAN, setenv(n, v, overwrite)
      PROVE  Map!Next
  BY <1>2, setenvMaps DEF Map!Next
<1>3. ASSUME NEW s \in Strings, putenv(s) PROVE Map!Next
  <2>1. text[s] \in Text /\ Map!Set(text[s].name, text[s].value)
    BY <1>3, putenvMaps
  <2>2. text[s].name \in Names /\ text[s].value \in Values
    BY <2>1 DEF Text
  <2> QED
    BY <2>1, <2>2 DEF Map!Next
<1>4. ASSUME NEW s \in Strings, AppFree(s) \/ \E t \in Text : AppString(s, t)
      PROVE  UNCHANGED [n \in Names |-> getenv(n)]
  <2>1. \A n \in Names : getenv(n)' = getenv(n)
    BY <1>4, AppMapsNothing, getenvIsGet
  <2> QED
    BY <2>1
<1>5. ASSUME NEW n \in Names, unsetenv(n) PROVE Map!Next
  BY <1>5, unsetenvUnsets DEF Map!Next
<1>6. CASE clearenv
  BY <1>6, clearenvClears DEF Map!Next
<1> QED
  BY <1>1, <1>2, <1>3, <1>4, <1>5, <1>6 DEF EnvNext

(* For any names, values and arrays at the start, the environment           *)
(* implements the map of EnvMap, and each function is its own operation of  *)
(* it: unsetenv drops the name even if the array had it several times, and  *)
(* replacing a string moves no other name's first one.                      *)
THEOREM EnvRefinesMap == EnvSpec => EnvImplementsMap
<1>1. EnvInit => Map!Init
  BY MapInit
<1>2. EnvInv /\ [EnvNext]_envVars => [Map!Next]_([n \in Names |-> getenv(n)])
  BY MapStep
<1>3. EnvInv /\ [EnvNext]_envVars =>
         [/\ \A n \in Names : unsetenv(n) => Map!Unset(n)
          /\ \A n \in Names, v \in Values : setenv(n, v, TRUE) => Map!Set(n, v)
          /\ \A s \in Strings : putenv(s) => Map!Set(text[s].name, text[s].value)
          /\ clearenv => Map!Clear]_envVars
  BY unsetenvUnsets, setenvMaps, putenvMaps, clearenvClears
<1> QED
  BY <1>1, <1>2, <1>3, EnvInvariance, PTL DEF EnvSpec, EnvImplementsMap, Map!Spec

-----------------------------------------------------------------------------
(* random().                                                                *)

(* The distance from j up to i, around the table.                           *)
Dist(i, j) == IF i >= j THEN i - j ELSE i + N - j
Next1(d)   == IF d + 1 = N THEN 0 ELSE d + 1

LEMMA DistIsMod ==
    ASSUME NEW i \in 0 .. N - 1, NEW j \in 0 .. N - 1
    PROVE  (i + N - j) % N = Dist(i, j)
<1>1. N \in Nat /\ N > 0
  BY RandomAssumption
<1>2. CASE i >= j
  <2>1. i - j \in 0 .. N - 1 /\ i + N - j = 1 * N + (i - j)
    BY <1>1, <1>2
  <2> QED
    BY <1>1, <1>2, <2>1 DEF Dist
<1>3. CASE i < j
  <2>1. i + N - j \in 0 .. N - 1
    BY <1>1, <1>3
  <2> QED
    BY <1>1, <1>3, <2>1 DEF Dist
<1> QED
  BY <1>2, <1>3

AtDist(i, j, d) == i \in 0 .. N - 1 /\ j \in 0 .. N - 1 /\ Dist(i, j) = d

LEMMA DistStepJ ==
    ASSUME NEW i, NEW l, AtDist(i, l, Next1(Lag))
    PROVE  AtDist(i, IF l + 1 = N THEN 0 ELSE l + 1, Lag)
<1>1. N \in Nat /\ Lag \in 0 .. N - 1 /\ i \in 0 .. N - 1 /\ l \in 0 .. N - 1 /\ Dist(i, l) = Next1(Lag)
  BY RandomAssumption DEF AtDist
<1>2. CASE l + 1 = N
  <2>1. CASE i >= l
    BY <1>1, <1>2, <2>1 DEF AtDist, Dist, Next1
  <2>2. CASE i < l
    BY <1>1, <1>2, <2>2 DEF AtDist, Dist, Next1
  <2> QED
    BY <1>1, <2>1, <2>2
<1>3. CASE l + 1 # N
  <2>1. CASE i >= l + 1
    BY <1>1, <1>3, <2>1 DEF AtDist, Dist, Next1
  <2>2. CASE i = l
    BY <1>1, <1>3, <2>2 DEF AtDist, Dist, Next1
  <2>3. CASE i < l
    BY <1>1, <1>3, <2>3 DEF AtDist, Dist, Next1
  <2> QED
    BY <1>1, <2>1, <2>2, <2>3
<1> QED
  BY <1>2, <1>3

(* The way of the one call under way through the two increments.            *)
RndAt(t) ==
    /\ rnd_pc[t] = <<"i", "store">> =>
            AtDist(index["i"], index["j"], Lag) /\ loaded_index[t] = index["i"]
    /\ rnd_pc[t] = <<"i", "wrap">> =>
            AtDist(loaded_index[t], index["j"], Lag) /\ index["i"] = loaded_index[t] + 1
    /\ rnd_pc[t] = <<"j", "load">> =>
            AtDist(index["i"], index["j"], Next1(Lag))
    /\ rnd_pc[t] = <<"j", "store">> =>
            AtDist(index["i"], index["j"], Next1(Lag)) /\ loaded_index[t] = index["j"]
    /\ rnd_pc[t] = <<"j", "wrap">> =>
            AtDist(index["i"], loaded_index[t], Next1(Lag)) /\ index["j"] = loaded_index[t] + 1

AllOutside == \A t \in Racers : Outside(t)

RndInv ==
    /\ RndTypeOK
    /\ ~overlapped =>
        /\ \A t, u \in Racers : ~Outside(t) /\ ~Outside(u) => t = u
        /\ AllOutside => AtDist(index["i"], index["j"], Lag)
        /\ \A t \in Racers : RndAt(t)

LEMMA RndInitInv == RndInit => RndInv
<1> SUFFICES ASSUME RndInit PROVE RndInv
  OBVIOUS
<1>1. index["i"] = Lag /\ index["j"] = 0 /\ index \in [{"i", "j"} -> 0 .. MaxRandom]
  BY RandomAssumption DEF RndInit
<1>2. RndTypeOK
  BY <1>1, RandomAssumption DEF RndInit, RndTypeOK
<1>3. AtDist(index["i"], index["j"], Lag)
  BY <1>1, RandomAssumption DEF AtDist, Dist
<1> QED
  BY <1>2, <1>3 DEF RndInit, RndInv, RndAt, Outside

(* A step of the only call keeps what it is about.                          *)
LEMMA RndStepAt ==
    ASSUME RndInv, NEW t \in Racers, NEW x \in {"i", "j"}, random(t, x), ~overlapped'
    PROVE  /\ RndAt(t)' /\ (Outside(t)' => AtDist(index["i"], index["j"], Lag)')
           /\ ~overlapped /\ \A u \in Racers \ {t} : Outside(u) /\ Outside(u)'
<1>1. /\ ~overlapped /\ \A u \in Racers \ {t} : Outside(u) /\ Outside(u)'
  BY DEF random, LoadIndex, StoreIndex, WrapIndex, RndGoto, RndInv, RndTypeOK, Outside
<1>2. RndAt(t) /\ (Outside(t) => AtDist(index["i"], index["j"], Lag))
  BY <1>1 DEF RndInv, AllOutside
<1>3. /\ N \in Nat /\ MaxRandom \in Nat /\ MaxRandom >= N /\ Lag \in 0 .. N - 1
      /\ index \in [{"i", "j"} -> 0 .. MaxRandom] /\ loaded_index \in [Racers -> 0 .. MaxRandom]
      /\ rnd_pc \in [Racers -> {"i", "j"} \X {"load", "store", "wrap"}]
  BY RandomAssumption DEF RndInv, RndTypeOK
<1>4. CASE LoadIndex(t, x)
  <2>1. rnd_pc[t] = <<x, "load">> /\ rnd_pc'[t] = <<x, "store">> /\ UNCHANGED index /\ loaded_index'[t] = index[x]
    BY <1>3, <1>4 DEF LoadIndex, RndGoto
  <2> QED
    BY <1>1, <1>2, <2>1 DEF RndAt, Outside
<1>5. CASE StoreIndex(t, x)
  <2>1. /\ rnd_pc[t] = <<x, "store">> /\ rnd_pc'[t] = <<x, "wrap">> /\ UNCHANGED loaded_index
        /\ index' = [index EXCEPT ![x] = IF loaded_index[t] < MaxRandom THEN loaded_index[t] + 1 ELSE @]
    BY <1>3, <1>5 DEF StoreIndex, RndGoto
  <2>2. loaded_index[t] \in 0 .. N - 1
    BY <1>2, <2>1 DEF RndAt, AtDist
  <2>3. loaded_index[t] < MaxRandom
    BY <1>3, <2>2
  <2>4. index'[x] = loaded_index[t] + 1 /\ \A y \in {"i", "j"} \ {x} : index'[y] = index[y]
    BY <1>3, <2>1, <2>3
  <2>5. CASE x = "i"
    BY <1>1, <1>2, <2>1, <2>4, <2>5 DEF RndAt, Outside
  <2>6. CASE x = "j"
    BY <1>1, <1>2, <2>1, <2>4, <2>6 DEF RndAt, Outside
  <2> QED
    BY <2>5, <2>6
<1>6. CASE WrapIndex(t, x)
  <2>1. /\ rnd_pc[t] = <<x, "wrap">> /\ rnd_pc'[t] = After(x)
        /\ index' = IF loaded_index[t] + 1 = N THEN [index EXCEPT ![x] = 0] ELSE index
    BY <1>3, <1>6 DEF WrapIndex, RndGoto
  <2>2. CASE x = "i"
    <3>1. AtDist(loaded_index[t], index["j"], Lag) /\ index["i"] = loaded_index[t] + 1
      BY <1>2, <2>1, <2>2 DEF RndAt
    <3>2. rnd_pc'[t] = <<"j", "load">> /\ index'["j"] = index["j"]
          /\ index'["i"] = IF loaded_index[t] + 1 = N THEN 0 ELSE loaded_index[t] + 1
      BY <1>3, <2>1, <2>2, <3>1 DEF After
    <3>3. AtDist(index'["i"], index'["j"], Next1(Lag))
      BY <1>3, <3>1, <3>2 DEF AtDist, Dist, Next1
    <3> QED
      BY <1>1, <3>2, <3>3 DEF RndAt, Outside
  <2>3. CASE x = "j"
    <3>1. AtDist(index["i"], loaded_index[t], Next1(Lag)) /\ index["j"] = loaded_index[t] + 1
      BY <1>2, <2>1, <2>3 DEF RndAt
    <3>2. rnd_pc'[t] = <<"i", "load">> /\ index'["i"] = index["i"]
          /\ index'["j"] = IF loaded_index[t] + 1 = N THEN 0 ELSE loaded_index[t] + 1
      BY <1>3, <2>1, <2>3, <3>1 DEF After
    <3>3. AtDist(index'["i"], index'["j"], Lag)
      BY <3>1, <3>2, DistStepJ
    <3> QED
      BY <1>1, <3>2, <3>3 DEF RndAt, Outside
  <2> QED
    BY <2>2, <2>3
<1> QED
  BY <1>4, <1>5, <1>6 DEF random

LEMMA RndNextInv == RndInv /\ [RndNext]_rndVars => RndInv'
<1> SUFFICES ASSUME RndInv, [RndNext]_rndVars PROVE RndInv'
  OBVIOUS
<1>1. CASE UNCHANGED rndVars
  BY <1>1 DEF rndVars, RndInv, RndTypeOK, RndAt, AllOutside, Outside
<1>2. ASSUME NEW t \in Racers, NEW x \in {"i", "j"}, random(t, x) PROVE RndInv'
  <2>1. RndTypeOK'
    <3>1. ASSUME NEW l \in {"i", "j"} \X {"load", "store", "wrap"}, RndGoto(t, l)
          PROVE  rnd_pc' \in [Racers -> {"i", "j"} \X {"load", "store", "wrap"}] /\ overlapped' \in BOOLEAN
      BY <3>1 DEF RndGoto, RndInv, RndTypeOK
    <3>2. CASE LoadIndex(t, x)
      BY <3>1, <3>2 DEF LoadIndex, RndInv, RndTypeOK
    <3>3. CASE StoreIndex(t, x)
      BY <3>1, <3>3, RandomAssumption DEF StoreIndex, RndInv, RndTypeOK
    <3>4. CASE WrapIndex(t, x)
      BY <3>1, <3>4, RandomAssumption DEF WrapIndex, After, RndInv, RndTypeOK
    <3> QED
      BY <1>2, <3>2, <3>3, <3>4 DEF random
  <2>2. ASSUME ~overlapped'
        PROVE  /\ \A v, u \in Racers : ~Outside(v)' /\ ~Outside(u)' => v = u
               /\ AllOutside' => AtDist(index["i"], index["j"], Lag)'
               /\ \A u \in Racers : RndAt(u)'
    <3>1. /\ RndAt(t)' /\ (Outside(t)' => AtDist(index["i"], index["j"], Lag)')
          /\ \A u \in Racers \ {t} : Outside(u)'
      BY <1>2, <2>2, RndStepAt
    <3>2. \A u \in Racers : Outside(u)' => RndAt(u)'
      BY DEF RndAt, Outside
    <3> QED
      BY <3>1, <3>2 DEF AllOutside
  <2> QED
    BY <2>1, <2>2 DEF RndInv
<1> QED
  BY <1>1, <1>2 DEF RndNext

(* The invariant holds of every interleaving of calls of random().          *)
THEOREM RndInvariance == RndSpec => []RndInv
BY RndInitInv, RndNextInv, PTL DEF RndSpec

(* For every table length and lag and any number of threads: unless calls   *)
(* of random() overlapped, both indices are inside the table and keep their *)
(* distance, though each wraps around on its own.                           *)
THEOREM LagCorrect == RndSpec => []LagKept
<1>1. RndInv => LagKept
  <2> SUFFICES ASSUME RndInv, ~overlapped, \A t \in Racers : Outside(t)
               PROVE  /\ index["i"] < N /\ index["j"] < N
                      /\ (index["i"] + N - index["j"]) % N = Lag
    BY DEF LagKept
  <2>1. AtDist(index["i"], index["j"], Lag)
    BY DEF RndInv, AllOutside
  <2>2. (index["i"] + N - index["j"]) % N = Lag
    BY <2>1, DistIsMod DEF AtDist
  <2> QED
    BY <2>1, <2>2, RandomAssumption DEF AtDist
<1> QED
  BY <1>1, RndInvariance, PTL

-----------------------------------------------------------------------------
(* signal().                                                                *)

Anything == Handlers \cup {"SIG_DFL", "uninitialised"}

(* The table that the pointer points to was allocated, race or not.         *)
Published == sig_funcs # NULL => table[sig_funcs] \in [SigNumbers -> Anything]

(* Whoever is in _init_signal is alone.                                     *)
InitAlone ==
    \A u, w \in Racers : u # w /\ sig_pc[u] \in InitLabels => sig_pc[w] = "idle"

(* Before the table is there nobody has stored a handler, ...               *)
NoTable ==
    /\ sig_funcs = NULL =>
        /\ \A t \in Racers : sig_pc[t] \in {"idle", "init", "alloc"}
        /\ \A s \in SigNumbers : stored[s] = "SIG_DFL"
    /\ \A t \in Racers : sig_pc[t] \in {"init", "alloc"} => sig_funcs = NULL

(* ... nor while it is filled, of which the elements below fill are; and    *)
(* then it holds what was stored.                                           *)
Filling(t) ==
    sig_pc[t] = "fill" =>
        /\ fill[t] < NSIG
        /\ \A s \in SigNumbers : stored[s] = "SIG_DFL"
        /\ \A s \in 0 .. fill[t] - 1 : table[sig_funcs][s] = "SIG_DFL"

Filled ==
    sig_funcs # NULL /\ (\A t \in Racers : sig_pc[t] # "fill")
        => \A s \in SigNumbers : table[sig_funcs][s] = stored[s]

Calm == ~broken /\ InitAlone /\ NoTable /\ (\A t \in Racers : Filling(t)) /\ Filled

SigInv == SigTypeOK /\ Published /\ (~raced => Calm)

SigLabels == {"idle", "load", "store"} \cup InitLabels

LEMMA SigTypeFacts ==
    ASSUME SigInv
    PROVE  /\ NSIG \in Nat \ {0} /\ NULL \notin Tables /\ "uninitialised" \notin Handlers
           /\ sig_funcs \in Tables \cup {NULL}
           /\ table \in [Tables -> [SigNumbers -> Anything] \cup {NULL}]
           /\ sig_pc \in [Racers -> SigLabels]
           /\ sig \in [Racers -> SigNumbers]
           /\ func \in [Racers -> Handlers \cup {"SIG_DFL"}]
           /\ fill \in [Racers -> 0 .. NSIG]
           /\ stored \in [SigNumbers -> Handlers \cup {"SIG_DFL"}]
           /\ raced \in BOOLEAN /\ broken \in BOOLEAN
BY SigAssumption DEF SigInv, SigTypeOK, SigLabels, Anything

(* Where a step leads, and that it makes nobody's initialisation overlap    *)
(* with a call.                                                             *)
LEMMA SigGotoStep ==
    ASSUME SigInv, NEW t \in Racers, NEW l \in SigLabels, SigGoto(t, l)
    PROVE  /\ sig_pc' \in [Racers -> SigLabels] /\ raced' \in BOOLEAN
           /\ sig_pc'[t] = l /\ \A u \in Racers \ {t} : sig_pc'[u] = sig_pc[u]
           /\ ~raced' => ~raced /\ Calm /\ InitAlone'
<1>1. sig_pc' \in [Racers -> SigLabels] /\ raced' \in BOOLEAN
  BY SigTypeFacts DEF SigGoto
<1>2. sig_pc'[t] = l /\ \A u \in Racers \ {t} : sig_pc'[u] = sig_pc[u]
  BY SigTypeFacts DEF SigGoto
<1>3. ASSUME ~raced' PROVE ~raced /\ Calm /\ InitAlone'
  BY <1>3, SigTypeFacts DEF SigGoto, SigInv, InitAlone
<1> QED
  BY <1>1, <1>2, <1>3

(* What a write through the pointer does to the tables.                     *)
LEMMA WriteStep ==
    ASSUME SigInv, UNCHANGED sig_funcs, NEW s \in SigNumbers, NEW h \in Anything, Write(s, h)
    PROVE  /\ table' \in [Tables -> [SigNumbers -> Anything] \cup {NULL}]
           /\ broken' \in BOOLEAN
           /\ Published'
           /\ sig_funcs # NULL =>
                /\ broken' = broken
                /\ table'[sig_funcs][s] = h
                /\ \A z \in SigNumbers \ {s} : table'[sig_funcs][z] = table[sig_funcs][z]
<1>1. CASE sig_funcs = NULL
  BY <1>1, SigTypeFacts DEF Write, Published
<1>2. CASE sig_funcs # NULL
  <2>1. sig_funcs \in Tables /\ table[sig_funcs] \in [SigNumbers -> Anything]
    BY <1>2, SigTypeFacts DEF SigInv, Published
  <2>2. PICK row : row = [table[sig_funcs] EXCEPT ![s] = h]
    OBVIOUS
  <2>3. row \in [SigNumbers -> Anything] /\ row[s] = h
        /\ \A z \in SigNumbers \ {s} : row[z] = table[sig_funcs][z]
    BY <2>1, <2>2
  <2>4. table' = [table EXCEPT ![sig_funcs] = row]
    BY <1>2, <2>2 DEF Write
  <2>5. table'[sig_funcs] = row
    BY <2>1, <2>4, SigTypeFacts
  <2>6. table' \in [Tables -> [SigNumbers -> Anything] \cup {NULL}]
    BY <2>1, <2>3, <2>4, SigTypeFacts
  <2>7. broken' = broken
    BY <1>2, SigTypeFacts DEF Write
  <2> QED
    BY <2>3, <2>5, <2>6, <2>7, SigTypeFacts DEF Published
<1> QED
  BY <1>1, <1>2

LEMMA SignalCallStep ==
    ASSUME SigInv, NEW t \in Racers, NEW s \in SigNumbers, NEW f \in Handlers \cup {"SIG_DFL"},
           SignalCall(t, s, f)
    PROVE  SigInv'
<1>1. PICK l \in SigLabels : l = (IF sig_funcs = NULL THEN "init" ELSE "load") /\ SigGoto(t, l)
  BY DEF SignalCall, SigLabels, InitLabels
<1>2. /\ sig_pc' \in [Racers -> SigLabels] /\ raced' \in BOOLEAN
      /\ sig_pc'[t] = l /\ \A u \in Racers \ {t} : sig_pc'[u] = sig_pc[u]
      /\ ~raced' => ~raced /\ Calm /\ InitAlone'
  BY <1>1, SigGotoStep
<1>3. UNCHANGED <<sig_funcs, table, fill, stored, broken>> /\ sig_pc[t] = "idle"
  BY DEF SignalCall
<1>4. SigTypeOK'
  BY <1>2, <1>3, SigTypeFacts DEF SignalCall, SigTypeOK, SigLabels, Anything
<1>5. Published'
  BY <1>3 DEF SigInv, Published
<1>6. ASSUME ~raced' PROVE Calm'
  <2>1. NoTable'
    BY <1>1, <1>2, <1>3, <1>6 DEF Calm, NoTable
  <2>2. \A u \in Racers : Filling(u)'
    BY <1>1, <1>2, <1>3, <1>6 DEF Calm, Filling
  <2>3. Filled'
    <3>1. l # "fill" /\ sig_pc[t] # "fill"
      BY <1>1, <1>3
    <3> QED
      BY <1>2, <1>3, <1>6, <3>1 DEF Calm, Filled
  <2> QED
    BY <1>2, <1>3, <1>6, <2>1, <2>2, <2>3 DEF Calm
<1> QED
  BY <1>4, <1>5, <1>6 DEF SigInv

LEMMA InitCheckStep ==
    ASSUME SigInv, NEW t \in Racers, InitCheck(t)
    PROVE  SigInv'
<1>1. PICK l \in SigLabels : l = (IF sig_funcs = NULL THEN "alloc" ELSE "load") /\ SigGoto(t, l)
  BY DEF InitCheck, SigLabels, InitLabels
<1>2. /\ sig_pc' \in [Racers -> SigLabels] /\ raced' \in BOOLEAN
      /\ sig_pc'[t] = l /\ \A u \in Racers \ {t} : sig_pc'[u] = sig_pc[u]
      /\ ~raced' => ~raced /\ Calm /\ InitAlone'
  BY <1>1, SigGotoStep
<1>3. UNCHANGED <<sig_funcs, table, sig, func, fill, stored, broken>> /\ sig_pc[t] = "init"
  BY DEF InitCheck
<1>4. SigTypeOK'
  BY <1>2, <1>3, SigTypeFacts DEF SigTypeOK, SigLabels, Anything
<1>5. Published'
  BY <1>3 DEF SigInv, Published
<1>6. ASSUME ~raced' PROVE Calm'
  <2>1. NoTable'
    BY <1>1, <1>2, <1>3, <1>6 DEF Calm, NoTable
  <2>2. \A u \in Racers : Filling(u)'
    BY <1>1, <1>2, <1>3, <1>6 DEF Calm, Filling
  <2>3. Filled'
    <3>1. l # "fill" /\ sig_pc[t] # "fill"
      BY <1>1, <1>3
    <3> QED
      BY <1>2, <1>3, <1>6, <3>1 DEF Calm, Filled
  <2> QED
    BY <1>2, <1>3, <1>6, <2>1, <2>2, <2>3 DEF Calm
<1> QED
  BY <1>4, <1>5, <1>6 DEF SigInv

LEMMA InitMallocStep ==
    ASSUME SigInv, NEW t \in Racers, InitMalloc(t)
    PROVE  SigInv'
<1>1. PICK l \in SigLabels : l = "fill" /\ SigGoto(t, l)
  BY DEF InitMalloc, SigLabels, InitLabels
<1>2. /\ sig_pc' \in [Racers -> SigLabels] /\ raced' \in BOOLEAN
      /\ sig_pc'[t] = l /\ \A u \in Racers \ {t} : sig_pc'[u] = sig_pc[u]
      /\ ~raced' => ~raced /\ Calm /\ InitAlone'
  BY <1>1, SigGotoStep
<1>3. UNCHANGED <<sig, func, stored, broken>> /\ sig_pc[t] = "alloc"
      /\ fill' = [fill EXCEPT ![t] = 0]
  BY DEF InitMalloc
<1>4. PICK b \in Tables : table' = [table EXCEPT ![b] = Fresh] /\ sig_funcs' = b
  BY DEF InitMalloc
<1>5. Fresh \in [SigNumbers -> Anything]
  BY DEF Fresh, Anything
<1>6. table' \in [Tables -> [SigNumbers -> Anything] \cup {NULL}] /\ table'[b] = Fresh
  BY <1>4, <1>5, SigTypeFacts
<1>7. fill' \in [Racers -> 0 .. NSIG] /\ fill'[t] = 0
  BY <1>3, SigTypeFacts
<1>8. SigTypeOK'
  BY <1>2, <1>3, <1>4, <1>6, <1>7, SigTypeFacts DEF SigTypeOK, SigLabels, Anything
<1>9. Published'
  BY <1>4, <1>5, <1>6 DEF Published
<1>10. ASSUME ~raced' PROVE Calm'
  <2>0. sig_funcs = NULL /\ \A s \in SigNumbers : stored'[s] = "SIG_DFL"
    BY <1>2, <1>3, <1>10 DEF Calm, NoTable
  <2>1. \A u \in Racers \ {t} : sig_pc'[u] = "idle"
    BY <1>1, <1>2, <1>10 DEF InitAlone, InitLabels
  <2>2. NoTable'
    BY <1>1, <1>2, <1>4, <2>1, SigTypeFacts DEF NoTable
  <2>3. \A u \in Racers : Filling(u)'
    BY <1>7, <2>0, <2>1, SigTypeFacts DEF Filling
  <2>4. Filled'
    BY <1>1, <1>2 DEF Filled
  <2> QED
    BY <1>2, <1>3, <1>10, <2>2, <2>3, <2>4 DEF Calm
<1> QED
  BY <1>8, <1>9, <1>10 DEF SigInv

LEMMA InitMallocFailsStep ==
    ASSUME SigInv, NEW t \in Racers, InitMallocFails(t)
    PROVE  SigInv'
<1>1. PICK l \in SigLabels : l = "idle" /\ SigGoto(t, l)
  BY DEF InitMallocFails, SigLabels, InitLabels
<1>2. /\ sig_pc' \in [Racers -> SigLabels] /\ raced' \in BOOLEAN
      /\ sig_pc'[t] = l /\ \A u \in Racers \ {t} : sig_pc'[u] = sig_pc[u]
      /\ ~raced' => ~raced /\ Calm /\ InitAlone'
  BY <1>1, SigGotoStep
<1>3. UNCHANGED <<table, sig, func, fill, stored, broken>> /\ sig_pc[t] = "alloc" /\ sig_funcs' = NULL
  BY DEF InitMallocFails
<1>4. SigTypeOK'
  BY <1>2, <1>3, SigTypeFacts DEF SigTypeOK, SigLabels, Anything
<1>5. Published'
  BY <1>3 DEF Published
<1>6. ASSUME ~raced' PROVE Calm'
  <2>0. sig_funcs = NULL
    BY <1>2, <1>3, <1>6 DEF Calm, NoTable
  <2>1. NoTable'
    BY <1>1, <1>2, <1>3, <1>6, <2>0 DEF Calm, NoTable
  <2>2. \A u \in Racers : Filling(u)'
    BY <1>1, <1>2, <1>6, <2>0, <2>1 DEF NoTable, Calm, Filling
  <2>3. Filled'
    BY <1>3 DEF Filled
  <2> QED
    BY <1>2, <1>3, <1>6, <2>1, <2>2, <2>3 DEF Calm
<1> QED
  BY <1>4, <1>5, <1>6 DEF SigInv

LEMMA InitFillStep ==
    ASSUME SigInv, NEW t \in Racers, InitFill(t)
    PROVE  SigInv'
<1>1. PICK l \in SigLabels : l = (IF fill[t] + 1 = NSIG THEN "load" ELSE "fill") /\ SigGoto(t, l)
  BY DEF InitFill, SigLabels, InitLabels
<1>2. /\ sig_pc' \in [Racers -> SigLabels] /\ raced' \in BOOLEAN
      /\ sig_pc'[t] = l /\ \A u \in Racers \ {t} : sig_pc'[u] = sig_pc[u]
      /\ ~raced' => ~raced /\ Calm /\ InitAlone'
  BY <1>1, SigGotoStep
<1>3. UNCHANGED <<sig_funcs, sig, func, stored>> /\ sig_pc[t] = "fill" /\ fill[t] < NSIG
      /\ fill' = [fill EXCEPT ![t] = @ + 1]
  BY DEF InitFill
<1>4. fill[t] \in SigNumbers
  BY <1>3, SigTypeFacts DEF SigNumbers
<1>5. /\ table' \in [Tables -> [SigNumbers -> Anything] \cup {NULL}]
      /\ broken' \in BOOLEAN
      /\ Published'
      /\ sig_funcs # NULL =>
           /\ broken' = broken
           /\ table'[sig_funcs][fill[t]] = "SIG_DFL"
           /\ \A z \in SigNumbers \ {fill[t]} : table'[sig_funcs][z] = table[sig_funcs][z]
  <2>1. PICK h \in Anything : h = "SIG_DFL" /\ Write(fill[t], h)
    BY DEF InitFill, Anything
  <2> QED
    BY <1>3, <1>4, <2>1, WriteStep
<1>6. fill' \in [Racers -> 0 .. NSIG] /\ fill'[t] = fill[t] + 1
  BY <1>3, <1>4, SigTypeFacts DEF SigNumbers
<1>7. SigTypeOK'
  BY <1>2, <1>3, <1>5, <1>6, SigTypeFacts DEF SigTypeOK, SigLabels, Anything
<1>8. ASSUME ~raced' PROVE Calm'
  <2>0. /\ sig_funcs # NULL
        /\ \A s \in SigNumbers : stored'[s] = "SIG_DFL"
        /\ \A s \in 0 .. fill[t] - 1 : table[sig_funcs][s] = "SIG_DFL"
    BY <1>2, <1>3, <1>8 DEF Calm, NoTable, Filling
  <2>1. \A u \in Racers \ {t} : sig_pc'[u] = "idle"
    BY <1>2, <1>3, <1>8 DEF Calm, InitAlone, InitLabels
  <2>2. \A s \in 0 .. fill[t] : table'[sig_funcs][s] = "SIG_DFL"
    <3>1. SUFFICES ASSUME NEW s \in 0 .. fill[t] PROVE table'[sig_funcs][s] = "SIG_DFL"
      OBVIOUS
    <3>2. CASE s = fill[t]
      BY <1>5, <2>0, <3>2
    <3>3. CASE s # fill[t]
      <4>1. s \in 0 .. fill[t] - 1 /\ s \in SigNumbers \ {fill[t]}
        BY <1>4, <3>3, SigTypeFacts DEF SigNumbers
      <4> QED
        BY <1>5, <2>0, <4>1
    <3> QED
      BY <3>2, <3>3
  <2>3. NoTable'
    BY <1>1, <1>2, <1>3, <2>0, <2>1 DEF NoTable
  <2>4. \A u \in Racers : Filling(u)'
    <3>1. Filling(t)'
      <4>1. SUFFICES ASSUME l = "fill"
                     PROVE  /\ fill'[t] < NSIG
                            /\ \A s \in 0 .. fill'[t] - 1 : table'[sig_funcs][s] = "SIG_DFL"
        BY <1>2, <1>3, <2>0 DEF Filling
      <4>2. fill[t] \in Nat /\ NSIG \in Nat /\ fill[t] < NSIG /\ fill[t] + 1 # NSIG
        BY <1>1, <1>3, <1>4, <4>1, SigTypeFacts DEF SigNumbers
      <4>3. fill'[t] < NSIG /\ fill'[t] - 1 = fill[t]
        BY <1>6, <4>2
      <4> QED
        BY <2>2, <4>3
    <3> QED
      BY <2>1, <3>1 DEF Filling
  <2>5. Filled'
    <3>1. SUFFICES ASSUME l # "fill", NEW s \in SigNumbers
                   PROVE  table'[sig_funcs][s] = stored'[s]
      BY <1>2, <1>3 DEF Filled
    <3>2. s \in 0 .. fill[t]
      BY <1>1, <1>4, <3>1, SigTypeFacts DEF SigNumbers
    <3> QED
      BY <2>0, <2>2, <3>2
  <2> QED
    BY <1>2, <1>5, <1>8, <2>0, <2>3, <2>4, <2>5 DEF Calm
<1> QED
  BY <1>5, <1>7, <1>8 DEF SigInv

LEMMA LoadStep ==
    ASSUME SigInv, NEW t \in Racers, Load(t)
    PROVE  SigInv'
<1>1. PICK l \in SigLabels : l = "store" /\ SigGoto(t, l)
  BY DEF Load, SigLabels, InitLabels
<1>2. /\ sig_pc' \in [Racers -> SigLabels] /\ raced' \in BOOLEAN
      /\ sig_pc'[t] = l /\ \A u \in Racers \ {t} : sig_pc'[u] = sig_pc[u]
      /\ ~raced' => ~raced /\ Calm /\ InitAlone'
  BY <1>1, SigGotoStep
<1>3. UNCHANGED <<sig_funcs, table, sig, func, fill, stored>> /\ sig_pc[t] = "load"
  BY DEF Load
<1>4. broken' \in BOOLEAN
  BY SigTypeFacts DEF Load
<1>5. SigTypeOK'
  BY <1>2, <1>3, <1>4, SigTypeFacts DEF SigTypeOK, SigLabels, Anything
<1>6. Published'
  BY <1>3 DEF SigInv, Published
<1>7. ASSUME ~raced' PROVE Calm'
  <2>1. sig_funcs # NULL
    BY <1>2, <1>3, <1>7 DEF Calm, NoTable
  <2>2. \A u \in Racers : sig_pc[u] # "fill"
    BY <1>2, <1>3, <1>7 DEF Calm, InitAlone, InitLabels
  <2>3. table[sig_funcs][sig[t]] # "uninitialised"
    BY <1>2, <1>7, <2>1, <2>2, SigTypeFacts DEF Calm, Filled
  <2>4. ~broken'
    BY <1>2, <1>7, <2>1, <2>3 DEF Load, Calm
  <2>5. NoTable'
    BY <1>1, <1>2, <1>3, <1>7, <2>1 DEF Calm, NoTable
  <2>6. \A u \in Racers : Filling(u)'
    BY <1>1, <1>2, <2>2 DEF Filling
  <2>7. Filled'
    BY <1>2, <1>3, <1>7, <2>2 DEF Calm, Filled
  <2> QED
    BY <1>2, <1>7, <2>4, <2>5, <2>6, <2>7 DEF Calm
<1> QED
  BY <1>5, <1>6, <1>7 DEF SigInv

LEMMA StoreStep ==
    ASSUME SigInv, NEW t \in Racers, Store(t)
    PROVE  SigInv'
<1>1. PICK l \in SigLabels : l = "idle" /\ SigGoto(t, l)
  BY DEF Store, SigLabels, InitLabels
<1>2. /\ sig_pc' \in [Racers -> SigLabels] /\ raced' \in BOOLEAN
      /\ sig_pc'[t] = l /\ \A u \in Racers \ {t} : sig_pc'[u] = sig_pc[u]
      /\ ~raced' => ~raced /\ Calm /\ InitAlone'
  BY <1>1, SigGotoStep
<1>3. UNCHANGED <<sig_funcs, sig, func, fill>> /\ sig_pc[t] = "store"
      /\ stored' = [stored EXCEPT ![sig[t]] = func[t]]
  BY DEF Store
<1>4. sig[t] \in SigNumbers /\ func[t] \in Handlers \cup {"SIG_DFL"} /\ func[t] \in Anything
  BY SigTypeFacts DEF Anything
<1>5. /\ table' \in [Tables -> [SigNumbers -> Anything] \cup {NULL}]
      /\ broken' \in BOOLEAN
      /\ Published'
      /\ sig_funcs # NULL =>
           /\ broken' = broken
           /\ table'[sig_funcs][sig[t]] = func[t]
           /\ \A z \in SigNumbers \ {sig[t]} : table'[sig_funcs][z] = table[sig_funcs][z]
  <2>1. Write(sig[t], func[t])
    BY DEF Store
  <2> QED
    BY <1>3, <1>4, <2>1, WriteStep
<1>6. /\ stored' \in [SigNumbers -> Handlers \cup {"SIG_DFL"}]
      /\ stored'[sig[t]] = func[t]
      /\ \A z \in SigNumbers \ {sig[t]} : stored'[z] = stored[z]
  BY <1>3, <1>4, SigTypeFacts
<1>7. SigTypeOK'
  BY <1>2, <1>3, <1>5, <1>6, SigTypeFacts DEF SigTypeOK, SigLabels, Anything
<1>8. ASSUME ~raced' PROVE Calm'
  <2>1. sig_funcs # NULL
    BY <1>2, <1>3, <1>8 DEF Calm, NoTable
  <2>2. \A u \in Racers : sig_pc[u] # "fill"
    BY <1>2, <1>3, <1>8 DEF Calm, InitAlone, InitLabels
  <2>3. NoTable'
    BY <1>1, <1>2, <1>3, <1>8, <2>1 DEF Calm, NoTable
  <2>4. \A u \in Racers : Filling(u)'
    BY <1>1, <1>2, <2>2 DEF Filling
  <2>5. \A s \in SigNumbers : table[sig_funcs][s] = stored[s]
    BY <1>2, <1>8, <2>1, <2>2 DEF Calm, Filled
  <2>6. Filled'
    BY <1>3, <1>5, <1>6, <2>1, <2>5 DEF Filled
  <2> QED
    BY <1>2, <1>5, <1>8, <2>1, <2>3, <2>4, <2>6 DEF Calm
<1> QED
  BY <1>5, <1>7, <1>8 DEF SigInv

LEMMA SigInitInv == SigInit => SigInv
<1> SUFFICES ASSUME SigInit PROVE SigInv
  OBVIOUS
<1>1. 0 \in SigNumbers /\ 0 \in 0 .. NSIG
  BY SigAssumption DEF SigNumbers
<1>2. SigTypeOK
  BY <1>1 DEF SigInit, SigTypeOK
<1>3. Published /\ Calm
  BY DEF SigInit, Published, Calm, InitAlone, InitLabels, NoTable, Filling, Filled
<1> QED
  BY <1>2, <1>3 DEF SigInv

LEMMA SigNextInv == SigInv /\ [SigNext]_sigVars => SigInv'
<1> SUFFICES ASSUME SigInv, [SigNext]_sigVars PROVE SigInv'
  OBVIOUS
<1>1. CASE UNCHANGED sigVars
  BY <1>1 DEF sigVars, SigInv, SigTypeOK, Published, Calm, InitAlone, NoTable, Filling, Filled
<1>2. CASE SigNext
  BY <1>2, SignalCallStep, InitCheckStep, InitMallocStep, InitMallocFailsStep, InitFillStep,
     LoadStep, StoreStep DEF SigNext, signal
<1> QED
  BY <1>1, <1>2

(* The invariant holds of every interleaving of calls of signal().          *)
THEOREM SigInvariance == SigSpec => []SigInv
BY SigInitInv, SigNextInv, PTL DEF SigSpec

(* For every number of signals, handlers and threads: unless a call overlaps *)
(* with the first one's _init_signal, signal() uses no NULL table, returns   *)
(* no element that nobody wrote, and the table holds what was stored last.   *)
THEOREM HandlersCorrect == SigSpec => []HandlersKept
<1>1. SigInv => HandlersKept
  <2> SUFFICES ASSUME SigInv, ~raced
               PROVE  /\ ~broken
                      /\ (\A t \in Racers : sig_pc[t] \notin InitLabels)
                            => \A s \in SigNumbers : Current(s) = stored[s]
    BY DEF HandlersKept
  <2>1. Calm
    BY DEF SigInv
  <2>2. ASSUME \A t \in Racers : sig_pc[t] \notin InitLabels, NEW s \in SigNumbers
        PROVE  Current(s) = stored[s]
    BY <2>1, <2>2 DEF Calm, NoTable, Filled, Current, InitLabels
  <2> QED
    BY <2>1, <2>2 DEF Calm
<1> QED
  BY <1>1, SigInvariance, PTL

=============================================================================
