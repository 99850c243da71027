----------------------------- MODULE PagesProofs -----------------------------
(***************************************************************************)
(* Proofs about the pages Sistemas and Usuarios, for any systems, roles,   *)
(* contents, users and terms, and any number of requests under way.        *)
(* WebAppsProofs uses them for the instances of WebApps.                   *)
(*                                                                         *)
(* First come lemmas on the requests of a page, which serve every page:    *)
(* one is sent, answered or gone, and the others stay in their order.      *)
(* Then, of each page, an invariant with four parts, kept by every step:   *)
(*   - a flag is up only with the request that takes it down;              *)
(*   - what the page names is in the tables;                               *)
(*   - what is displayed is right or will be put right by a request under  *)
(*     way (Truth), as long as chance has not decided (hist.calm);         *)
(*   - a secret that was drawn is in an answer under way, seen or lost.    *)
(***************************************************************************)
EXTENDS SystemsPage, TLAPS

CONSTANTS Users, Terms, NoTerm, Found, Limits, FirstLimit, UserSecrets

\* The page Usuarios.
UP == INSTANCE UsersPage WITH MaxSecrets <- UserSecrets

\* s without its element i, as Without of every page has it.
Rest(s, i) == SubSeq(s, 1, i - 1) \o SubSeq(s, i + 1, Len(s))

\* The others stay, in their order.
LEMMA RestOrder ==
    ASSUME NEW S, NEW s \in Seq(S), NEW i \in DOMAIN s
    PROVE  /\ Rest(s, i) \in Seq(S) /\ Len(Rest(s, i)) = Len(s) - 1
           /\ \A j \in 1..(i - 1) : Rest(s, i)[j] = s[j]
           /\ \A j \in i..(Len(s) - 1) : Rest(s, i)[j] = s[j + 1]
<1> DEFINE a == SubSeq(s, 1, i - 1)
           b == SubSeq(s, i + 1, Len(s))
<1>1. i \in 1..Len(s) /\ Len(s) \in Nat
  OBVIOUS
<1>2. a \in Seq(S) /\ Len(a) = i - 1 /\ \A j \in 1..(i - 1) : a[j] = s[j]
  BY <1>1
<1>3. /\ b \in Seq(S) /\ Len(b) = Len(s) - i
      /\ \A j \in 1..(Len(s) - i) : b[j] = s[i + j]
  BY <1>1
<1>4. Rest(s, i) = a \o b
  BY DEF Rest
<1> HIDE DEF a, b
<1>5. a \o b \in Seq(S) /\ Len(a \o b) = Len(s) - 1
  BY <1>1, <1>2, <1>3
<1>6. ASSUME NEW j \in 1..(i - 1) PROVE (a \o b)[j] = s[j]
  BY <1>1, <1>2, <1>3
<1>7. ASSUME NEW j \in i..(Len(s) - 1) PROVE (a \o b)[j] = s[j + 1]
  <2>1. (a \o b)[j] = b[j - Len(a)]
    BY <1>1, <1>2, <1>3
  <2>2. b[j - (i - 1)] = s[i + (j - (i - 1))]
    BY <1>1, <1>3
  <2>3. QED
    BY <1>1, <1>2, <2>1, <2>2
<1>8. QED
  BY <1>4, <1>5, <1>6, <1>7

\* So nothing is there that was not there before, and only i has gone.
LEMMA RestHasTheOthers ==
    ASSUME NEW S, NEW s \in Seq(S), NEW i \in DOMAIN s
    PROVE  /\ Rest(s, i) \in Seq(S) /\ Len(Rest(s, i)) = Len(s) - 1
           /\ \A j \in DOMAIN Rest(s, i) : \E k \in DOMAIN s : Rest(s, i)[j] = s[k]
           /\ \A k \in DOMAIN s : k # i => \E j \in DOMAIN Rest(s, i) : Rest(s, i)[j] = s[k]
<1>1. /\ Rest(s, i) \in Seq(S) /\ Len(Rest(s, i)) = Len(s) - 1
      /\ i \in 1..Len(s) /\ Len(s) \in Nat
      /\ \A j \in 1..(i - 1) : Rest(s, i)[j] = s[j]
      /\ \A j \in i..(Len(s) - 1) : Rest(s, i)[j] = s[j + 1]
  BY RestOrder
<1>2. DOMAIN Rest(s, i) = 1..(Len(s) - 1) /\ DOMAIN s = 1..Len(s)
  BY <1>1
<1>3. ASSUME NEW j \in DOMAIN Rest(s, i) PROVE \E k \in DOMAIN s : Rest(s, i)[j] = s[k]
  <2>1. CASE j < i
    BY <1>1, <1>2, <2>1
  <2>2. CASE ~(j < i)
    <3>1. j + 1 \in DOMAIN s /\ Rest(s, i)[j] = s[j + 1]
      BY <1>1, <1>2, <2>2
    <3>2. QED
      BY <3>1
  <2>3. QED
    BY <2>1, <2>2
<1>4. ASSUME NEW k \in DOMAIN s, k # i
      PROVE  \E j \in DOMAIN Rest(s, i) : Rest(s, i)[j] = s[k]
  <2>1. CASE k < i
    BY <1>1, <1>2, <2>1
  <2>2. CASE ~(k < i)
    <3>1. k - 1 \in DOMAIN Rest(s, i) /\ Rest(s, i)[k - 1] = s[(k - 1) + 1]
      BY <1>1, <1>2, <1>4, <2>2
    <3>2. QED
      BY <1>2, <3>1
  <2>3. QED
    BY <2>1, <2>2
<1>5. QED
  BY <1>1, <1>3, <1>4

\* A sequence with one element more at its end.
LEMMA OneMore ==
    ASSUME NEW S, NEW s \in Seq(S), NEW x \in S
    PROVE  /\ s \o <<x>> = Append(s, x)
           /\ Append(s, x) \in Seq(S) /\ DOMAIN Append(s, x) = 1..(Len(s) + 1)
           /\ DOMAIN s = 1..Len(s) /\ Len(s) \in Nat
           /\ \A j \in 1..Len(s) : Append(s, x)[j] = s[j]
           /\ Append(s, x)[Len(s) + 1] = x
<1>1. s \o <<x>> = Append(s, x)
  OBVIOUS
<1>2. QED
  BY <1>1

-----------------------------------------------------------------------------
(* The requests of a page of the panel *)

Elements(s) == {s[i] : i \in DOMAIN s}

\* A request says what it is; those that are not for the list say for whom, or
\* for what, in the fields F.
Says(c, F)   == "op" \in DOMAIN c /\ (c.op # "list" => F \subseteq DOMAIN c)
Calls(s, F)  == s \in Seq(Elements(s)) /\ \A i \in DOMAIN s : Says(s[i], F)
Same(c, d, F) == d.op = c.op /\ (c.op # "list" => \A x \in F : d[x] = c[x])

\* All of s are still in t, but for the one at gone.
Survive(s, t, gone, F) ==
    \A k \in DOMAIN s : k # gone => \E j \in DOMAIN t : Same(s[k], t[j], F)

LEMMA OwnElements ==
    ASSUME NEW S, NEW s \in Seq(S)
    PROVE  s \in Seq(Elements(s)) /\ DOMAIN s = 1..Len(s) /\ Len(s) \in Nat
<1>1. DOMAIN s = 1..Len(s) /\ Len(s) \in Nat
  OBVIOUS
<1>2. \A i \in 1..Len(s) : s[i] \in Elements(s)
  BY <1>1 DEF Elements
<1> HIDE DEF Elements
<1>3. s = [i \in 1..Len(s) |-> s[i]]
  OBVIOUS
<1>4. QED
  BY <1>1, <1>2, <1>3

\* The server answers one.
LEMMA AnAnswer ==
    ASSUME NEW F, NEW s, Calls(s, F), NEW i \in DOMAIN s, NEW x, NEW a, x \notin F \cup {"op"}
    PROVE  LET t == [s EXCEPT ![i] = [s[i] EXCEPT ![x] = a]]
           IN  /\ Calls(t, F) /\ Survive(s, t, 0, F) /\ DOMAIN t = DOMAIN s
               /\ \A j \in DOMAIN s : j # i => t[j] = s[j]
               /\ t[i] = [s[i] EXCEPT ![x] = a]
<1> DEFINE r == [s[i] EXCEPT ![x] = a]
           t == [s EXCEPT ![i] = r]
<1>1. /\ s \in Seq(Elements(s)) /\ \A j \in DOMAIN s : Says(s[j], F)
      /\ DOMAIN s = 1..Len(s) /\ Len(s) \in Nat
  BY OwnElements DEF Calls
<1>2. DOMAIN r = DOMAIN s[i] /\ \A y \in DOMAIN s[i] : y # x => r[y] = s[i][y]
  OBVIOUS
<1>3. Says(r, F) /\ Same(s[i], r, F)
  BY <1>1, <1>2 DEF Says, Same
<1> HIDE DEF r
<1>4. DOMAIN t = DOMAIN s /\ t[i] = r /\ \A j \in DOMAIN s : j # i => t[j] = s[j]
  OBVIOUS
<1>5. t \in Seq(Elements(s) \cup {r})
  BY <1>1
<1> HIDE DEF t
<1>6. t \in Seq(Elements(t)) /\ \A j \in DOMAIN t : Says(t[j], F)
  BY <1>1, <1>3, <1>4, <1>5, OwnElements
<1>7. \A j \in DOMAIN s : Same(s[j], s[j], F)
  BY DEF Same
<1>8. QED
  BY <1>3, <1>4, <1>6, <1>7 DEF Calls, Survive, t, r

\* The page sends one.
LEMMA OneIsSent ==
    ASSUME NEW F, NEW s, Calls(s, F), NEW e, Says(e, F)
    PROVE  LET t == Append(s, e)
           IN  /\ Calls(t, F) /\ Survive(s, t, 0, F)
               /\ Len(s) + 1 \in DOMAIN t /\ t[Len(s) + 1] = e
               /\ \A j \in DOMAIN t : t[j] = e \/ \E k \in DOMAIN s : t[j] = s[k]
<1> DEFINE t == Append(s, e)
           S == Elements(s) \cup {e}
<1>1. s \in Seq(Elements(s)) /\ \A j \in DOMAIN s : Says(s[j], F)
  BY DEF Calls
<1>2. s \in Seq(S) /\ e \in S
  BY <1>1
<1> HIDE DEF S
<1>3. /\ t \in Seq(S) /\ DOMAIN t = 1..(Len(s) + 1)
      /\ DOMAIN s = 1..Len(s) /\ Len(s) \in Nat
      /\ \A j \in 1..Len(s) : t[j] = s[j]
      /\ t[Len(s) + 1] = e
  BY <1>2, OneMore
<1> HIDE DEF t
<1>4. Len(s) + 1 \in DOMAIN t /\ \A j \in DOMAIN t : j \in DOMAIN s \/ j = Len(s) + 1
  BY <1>3
<1>5. t \in Seq(Elements(t))
  BY <1>3, OwnElements
<1>6. \A j \in DOMAIN s : j \in DOMAIN t /\ t[j] = s[j] /\ Same(s[j], s[j], F)
  BY <1>3 DEF Same
<1>7. \A j \in DOMAIN t : t[j] = e \/ \E k \in DOMAIN s : t[j] = s[k]
  BY <1>3, <1>4, <1>6
<1>8. QED
  BY <1>1, <1>3, <1>4, <1>5, <1>6, <1>7 DEF Calls, Survive, t

\* One has been answered, or is given up.
LEMMA OneIsGone ==
    ASSUME NEW F, NEW s, Calls(s, F), NEW i \in DOMAIN s
    PROVE  /\ Calls(Rest(s, i), F) /\ Survive(s, Rest(s, i), i, F)
           /\ \A j \in DOMAIN Rest(s, i) : \E k \in DOMAIN s : Rest(s, i)[j] = s[k]
<1>1. s \in Seq(Elements(s)) /\ \A j \in DOMAIN s : Says(s[j], F)
  BY DEF Calls
<1>2. /\ Rest(s, i) \in Seq(Elements(s))
      /\ \A j \in DOMAIN Rest(s, i) : \E k \in DOMAIN s : Rest(s, i)[j] = s[k]
      /\ \A k \in DOMAIN s : k # i => \E j \in DOMAIN Rest(s, i) : Rest(s, i)[j] = s[k]
  BY <1>1, RestHasTheOthers
<1>3. Rest(s, i) \in Seq(Elements(Rest(s, i)))
  BY <1>2, OwnElements
<1>4. \A j \in DOMAIN Rest(s, i) : Says(Rest(s, i)[j], F)
  BY <1>1, <1>2
<1>5. \A j \in DOMAIN s : Same(s[j], s[j], F)
  BY DEF Same
<1>6. Survive(s, Rest(s, i), i, F)
  BY <1>2, <1>5 DEF Survive
<1>7. QED
  BY <1>2, <1>3, <1>4, <1>6 DEF Calls

\* The page asks again once one has been answered.
LEMMA OneForAnother ==
    ASSUME NEW F, NEW s, Calls(s, F), NEW i \in DOMAIN s, NEW e, Says(e, F)
    PROVE  LET t == Append(Rest(s, i), e)
           IN  /\ Calls(t, F) /\ Survive(s, t, i, F)
               /\ \E j \in DOMAIN t : t[j] = e
               /\ \A j \in DOMAIN t : t[j] = e \/ \E k \in DOMAIN s : t[j] = s[k]
<1> DEFINE r == Rest(s, i)
           t == Append(r, e)
<1>1. /\ Calls(r, F) /\ Survive(s, r, i, F)
      /\ \A j \in DOMAIN r : \E k \in DOMAIN s : r[j] = s[k]
  BY OneIsGone
<1> HIDE DEF r
<1>2. /\ Calls(t, F) /\ Survive(r, t, 0, F)
      /\ Len(r) + 1 \in DOMAIN t /\ t[Len(r) + 1] = e
      /\ \A j \in DOMAIN t : t[j] = e \/ \E k \in DOMAIN r : t[j] = r[k]
  BY <1>1, OneIsSent
<1> HIDE DEF t
<1>3. 0 \notin DOMAIN r
  BY <1>1 DEF Calls
<1>4. ASSUME NEW k \in DOMAIN s, k # i PROVE \E j \in DOMAIN t : Same(s[k], t[j], F)
  <2>1. PICK l \in DOMAIN r : Same(s[k], r[l], F)
    BY <1>1, <1>4 DEF Survive
  <2>2. PICK j \in DOMAIN t : Same(r[l], t[j], F)
    BY <1>2, <1>3 DEF Survive
  <2>3. Same(s[k], t[j], F)
    BY <2>1, <2>2 DEF Same
  <2>4. QED
    BY <2>3
<1>5. QED
  BY <1>1, <1>2, <1>4 DEF Survive, t, r

LEMMA ServerAnswers ==
    ASSUME NEW F, Calls(calls, F), "answer" \notin F, NEW i \in DOMAIN calls, NEW a,
           calls' = [calls EXCEPT ![i].answer = a]
    PROVE  /\ Calls(calls', F) /\ Survive(calls, calls', 0, F)
           /\ DOMAIN calls' = DOMAIN calls
           /\ \A j \in DOMAIN calls : j # i => calls'[j] = calls[j]
           /\ calls'[i] = [calls[i] EXCEPT !["answer"] = a]
<1> DEFINE x == "answer"
           t == [calls EXCEPT ![i] = [calls[i] EXCEPT ![x] = a]]
<1>1. x \notin F \cup {"op"} /\ calls' = t
  OBVIOUS
<1> HIDE DEF x
<1>2. /\ Calls(t, F) /\ Survive(calls, t, 0, F) /\ DOMAIN t = DOMAIN calls
      /\ \A j \in DOMAIN calls : j # i => t[j] = calls[j]
      /\ t[i] = [calls[i] EXCEPT ![x] = a]
  BY <1>1, AnAnswer
<1> HIDE DEF t
<1>3. QED
  BY <1>1, <1>2 DEF x

\* The page sends several.
LEMMA ManyAreSent ==
    ASSUME NEW F, NEW s, Calls(s, F), NEW q, Calls(q, F)
    PROVE  LET t == s \o q
           IN  /\ Calls(t, F) /\ Survive(s, t, 0, F)
               /\ \A j \in DOMAIN t : \/ \E k \in DOMAIN s : t[j] = s[k]
                                      \/ \E k \in DOMAIN q : t[j] = q[k]
<1> DEFINE t == s \o q
           S == Elements(s) \cup Elements(q)
<1>1. /\ s \in Seq(Elements(s)) /\ \A j \in DOMAIN s : Says(s[j], F)
      /\ q \in Seq(Elements(q)) /\ \A j \in DOMAIN q : Says(q[j], F)
  BY DEF Calls
<1>2. s \in Seq(S) /\ q \in Seq(S)
  BY <1>1
<1> HIDE DEF S
<1>3. /\ t \in Seq(S) /\ DOMAIN t = 1..(Len(s) + Len(q))
      /\ DOMAIN s = 1..Len(s) /\ Len(s) \in Nat /\ DOMAIN q = 1..Len(q) /\ Len(q) \in Nat
      /\ \A j \in 1..Len(s) : t[j] = s[j]
      /\ \A j \in (Len(s) + 1)..(Len(s) + Len(q)) : t[j] = q[j - Len(s)]
  BY <1>2
<1> HIDE DEF t
<1>4. t \in Seq(Elements(t))
  BY <1>3, OwnElements
<1>5. ASSUME NEW j \in DOMAIN t
      PROVE  \/ j \in DOMAIN s /\ t[j] = s[j]
             \/ j - Len(s) \in DOMAIN q /\ t[j] = q[j - Len(s)]
  <2>1. CASE j <= Len(s)
    BY <1>3, <2>1
  <2>2. CASE ~(j <= Len(s))
    BY <1>3, <2>2
  <2>3. QED
    BY <2>1, <2>2
<1>6. \A j \in DOMAIN t : Says(t[j], F)
  BY <1>1, <1>5
<1>7. \A j \in DOMAIN s : j \in DOMAIN t /\ Same(s[j], t[j], F)
  BY <1>3 DEF Same
<1>8. QED
  BY <1>4, <1>5, <1>6, <1>7 DEF Calls, Survive, t

LEMMA OneCall ==
    ASSUME NEW F, NEW e, Says(e, F)
    PROVE  Calls(<<e>>, F) /\ DOMAIN <<e>> = {1} /\ <<e>>[1] = e
<1> DEFINE s == <<e>>
<1>1. s \in Seq({e}) /\ DOMAIN s = {1} /\ s[1] = e
  OBVIOUS
<1> HIDE DEF s
<1>2. s \in Seq(Elements(s))
  BY <1>1, OwnElements
<1>3. QED
  BY <1>1, <1>2 DEF Calls, s

-----------------------------------------------------------------------------
(* Flags of the page Sistemas *)

SystemsFields == {"rows", "loading", "form", "creating", "reveal", "modal"}
ModalFields   == {"of", "roles", "rolesLoading", "saving", "regenerating", "creatingRole", "deletingRole",
                  "confirm"}
OwnOps        == {"list", "create"}             \* asked by the page, not by its modal
Confirmables  == {"regenerate", "removeRole"}   \* asked for by a confirmation

Live(s, op) == \E i \in DOMAIN s : s[i].op = op /\ s[i].live

ModalFlags(m, s) ==
    /\ m.rolesLoading => Live(s, "roles")
    /\ m.saving => Live(s, "update")
    /\ m.regenerating => Live(s, "regenerate")
    /\ m.creatingRole => Live(s, "createRole")
    /\ m.deletingRole # None => Live(s, "removeRole")

\* The modal cannot go before a confirmed request is through: its confirmation
\* is on top of it, and has both buttons disabled.
Backed(m, c) ==
    /\ c.live /\ m # None /\ m.confirm # None
    /\ c.op = "regenerate" => m.regenerating /\ m.confirm = "secret"
    /\ c.op = "removeRole" => m.deletingRole = m.confirm /\ m.confirm # "secret"
ModalCall(m, c) ==
    /\ c.op \in Confirmables => Backed(m, c)
    /\ c.op \notin OwnOps /\ c.live => m # None

NoneConfirmed(s) == \A i \in DOMAIN s : s[i].op \notin Confirmables
OneConfirmed(s)  ==
    \A i, j \in DOMAIN s : s[i].op \in Confirmables /\ s[j].op \in Confirmables => i = j

SystemsOk(v, s) ==
    /\ Calls(s, {"live"}) /\ SystemsFields \subseteq DOMAIN v
    /\ v.loading => \E i \in DOMAIN s : s[i].op = "list"
    /\ v.creating => \E i \in DOMAIN s : s[i].op = "create"
    /\ v.modal # None => ModalFields \subseteq DOMAIN v.modal /\ ModalFlags(v.modal, s)
    /\ OneConfirmed(s) /\ \A i \in DOMAIN s : ModalCall(v.modal, s[i])
SystemsInv == SystemsOk(view, calls)

\* None, a value like no other for TLC, is not the state of a modal.
NoneIsNoModal == ~(ModalFields \subseteq DOMAIN None)

LEMMA OneIsConfirmed ==
    ASSUME NEW s, Calls(s, {"live"}), OneConfirmed(s), NEW i \in DOMAIN s
    PROVE  /\ OneConfirmed(Rest(s, i))
           /\ s[i].op \in Confirmables => NoneConfirmed(Rest(s, i))
<1> DEFINE S == Elements(s)
           r == Rest(s, i)
<1>1. s \in Seq(S)
  BY DEF Calls
<1> HIDE DEF S
<1>2. /\ r \in Seq(S) /\ Len(r) = Len(s) - 1
      /\ \A j \in 1..(i - 1) : r[j] = s[j]
      /\ \A j \in i..(Len(s) - 1) : r[j] = s[j + 1]
  BY <1>1, RestOrder
<1>3. DOMAIN s = 1..Len(s) /\ Len(s) \in Nat
  BY <1>1
<1> DEFINE at(j) == IF j < i THEN j ELSE j + 1
<1> HIDE DEF r
<1>4. DOMAIN r = 1..(Len(s) - 1)
  BY <1>2
<1>5. ASSUME NEW j \in DOMAIN r PROVE at(j) \in DOMAIN s /\ at(j) # i /\ r[j] = s[at(j)]
  <2>1. CASE j < i
    BY <1>2, <1>3, <1>4, <2>1
  <2>2. CASE ~(j < i)
    BY <1>2, <1>3, <1>4, <2>2
  <2>3. QED
    BY <2>1, <2>2
<1>6. \A j, k \in DOMAIN r : at(j) = at(k) => j = k
  BY <1>3, <1>4
<1> HIDE DEF at
<1>7. QED
  BY <1>5, <1>6 DEF OneConfirmed, NoneConfirmed, r

LEMMA OneMoreConfirmed ==
    ASSUME NEW s, Calls(s, {"live"}), OneConfirmed(s), NEW e,
           e.op \in Confirmables => NoneConfirmed(s)
    PROVE  OneConfirmed(Append(s, e))
<1> DEFINE S == Elements(s) \cup {e}
           t == Append(s, e)
<1>1. s \in Seq(S) /\ e \in S
  BY DEF Calls
<1> HIDE DEF S
<1>2. /\ DOMAIN t = 1..(Len(s) + 1) /\ DOMAIN s = 1..Len(s) /\ Len(s) \in Nat
      /\ \A j \in 1..Len(s) : t[j] = s[j]
      /\ t[Len(s) + 1] = e
  BY <1>1, OneMore
<1> HIDE DEF t
<1>3. \A j \in DOMAIN t : \/ j \in DOMAIN s /\ t[j] = s[j]
                          \/ j = Len(s) + 1 /\ t[j] = e
  BY <1>2
<1>4. QED
  BY <1>3 DEF OneConfirmed, NoneConfirmed, t

LEMMA LiveStays ==
    ASSUME NEW s, NEW t, NEW gone, Survive(s, t, gone, {"live"}), NEW op, op # "list",
           Live(s, op), ~(gone \in DOMAIN s /\ s[gone].op = op /\ s[gone].live)
    PROVE  Live(t, op)
<1>1. PICK k \in DOMAIN s : s[k].op = op /\ s[k].live
  BY DEF Live
<1>2. PICK j \in DOMAIN t : Same(s[k], t[j], {"live"})
  BY <1>1 DEF Survive
<1>3. t[j].op = op /\ t[j].live = s[k].live
  BY <1>1, <1>2 DEF Same
<1>4. QED
  BY <1>1, <1>3 DEF Live

\* A flag of the modal that is up after a step has its request.
LEMMA ModalFlagsKept ==
    ASSUME NEW m, NEW n, NEW s, NEW t, NEW gone,
           ModalFlags(m, s), Survive(s, t, gone, {"live"}),
           LET Gone(op) == gone \in DOMAIN s /\ s[gone].op = op /\ s[gone].live
           IN  /\ n.rolesLoading => Live(t, "roles") \/ (m.rolesLoading /\ ~Gone("roles"))
               /\ n.saving => Live(t, "update") \/ (m.saving /\ ~Gone("update"))
               /\ n.regenerating =>
                    Live(t, "regenerate") \/ (m.regenerating /\ ~Gone("regenerate"))
               /\ n.creatingRole =>
                    Live(t, "createRole") \/ (m.creatingRole /\ ~Gone("createRole"))
               /\ n.deletingRole # None =>
                    \/ Live(t, "removeRole")
                    \/ m.deletingRole # None /\ ~Gone("removeRole")
    PROVE  ModalFlags(n, t)
BY LiveStays DEF ModalFlags

LEMMA PageFlagStays ==
    ASSUME NEW s, NEW t, NEW gone, Survive(s, t, gone, {"live"}), NEW op,
           \E k \in DOMAIN s : s[k].op = op, ~(gone \in DOMAIN s /\ s[gone].op = op)
    PROVE  \E j \in DOMAIN t : t[j].op = op
BY DEF Survive, Same

-----------------------------------------------------------------------------

LEMMA SystemsServed ==
    ASSUME SystemsInv, NEW i \in DOMAIN calls, NEW a,
           calls' = [calls EXCEPT ![i].answer = a], view' = view
    PROVE  SystemsInv'
<1> DEFINE F == {"live"}
<1>1. Calls(calls, F) /\ SystemsOk(view, calls) /\ 0 \notin DOMAIN calls /\ "answer" \notin F
  BY DEF SystemsInv, SystemsOk, Calls
<1> HIDE DEF F
<1>2. /\ Calls(calls', F) /\ Survive(calls, calls', 0, F)
      /\ DOMAIN calls' = DOMAIN calls
      /\ \A j \in DOMAIN calls : j # i => calls'[j] = calls[j]
      /\ calls'[i] = [calls[i] EXCEPT !["answer"] = a]
  BY <1>1, ServerAnswers
<1> USE DEF F
<1>3. ASSUME NEW j \in DOMAIN calls
      PROVE  /\ calls'[j].op = calls[j].op
             /\ calls[j].op # "list" => calls'[j].live = calls[j].live
  <2>1. Says(calls[i], F)
    BY <1>1 DEF Calls
  <2>2. CASE j = i
    BY <1>2, <2>1, <2>2 DEF Says
  <2>3. CASE j # i
    BY <1>2, <2>3
  <2>4. QED
    BY <2>2, <2>3
<1>4. OneConfirmed(calls')
  BY <1>1, <1>2, <1>3 DEF SystemsOk, OneConfirmed
<1>5. \A j \in DOMAIN calls' : ModalCall(view.modal, calls'[j])
  BY <1>1, <1>2, <1>3 DEF SystemsOk, ModalCall, Backed, OwnOps, Confirmables
<1>6. /\ view.loading => \E j \in DOMAIN calls' : calls'[j].op = "list"
      /\ view.creating => \E j \in DOMAIN calls' : calls'[j].op = "create"
  BY <1>1, <1>2, PageFlagStays DEF SystemsOk
<1>7. ASSUME view.modal # None
      PROVE  ModalFields \subseteq DOMAIN view.modal /\ ModalFlags(view.modal, calls')
  BY <1>1, <1>2, <1>7, ModalFlagsKept DEF SystemsOk
<1>8. QED
  BY <1>1, <1>2, <1>4, <1>5, <1>6, <1>7 DEF SystemsInv, SystemsOk

\* The confirmation is on display, and its request was not sent.
Unconfirmed(m) ==
    \/ m.confirm = None
    \/ ~(m.regenerating /\ m.confirm = "secret") /\ m.deletingRole # m.confirm

LEMMA UnconfirmedHasNoCall ==
    ASSUME SystemsInv, Unconfirmed(view.modal) PROVE NoneConfirmed(calls)
BY DEF SystemsInv, SystemsOk, ModalCall, Backed, Unconfirmed, NoneConfirmed, Confirmables

LEMMA SystemsClicked ==
    ASSUME SystemsInv, NoneIsNoModal, calls' = calls, SystemsFields \subseteq DOMAIN view',
           view'.loading = view.loading, view'.creating = view.creating,
           \/ view'.modal = view.modal
           \/ /\ view.modal # None /\ Unconfirmed(view.modal)
              /\ \E c : view'.modal = [view.modal EXCEPT !.confirm = c]
    PROVE  SystemsInv'
<1>1. SystemsOk(view, calls)
  BY DEF SystemsInv
<1>2. CASE view'.modal = view.modal
  BY <1>1, <1>2 DEF SystemsInv, SystemsOk
<1>3. ASSUME NEW c, view.modal # None, Unconfirmed(view.modal),
             view'.modal = [view.modal EXCEPT !.confirm = c]
      PROVE  SystemsInv'
  <2> DEFINE m == view.modal
             n == view'.modal
  <2>1. ModalFields \subseteq DOMAIN m /\ ModalFlags(m, calls) /\ NoneConfirmed(calls)
    BY <1>1, <1>3, UnconfirmedHasNoCall DEF SystemsOk
  <2>2. /\ ModalFields \subseteq DOMAIN n
        /\ \A f \in ModalFields : f # "confirm" => n[f] = m[f]
    BY <1>3, <2>1
  <2>3. n # None
    BY <2>2 DEF NoneIsNoModal
  <2>4. ModalFlags(n, calls)
    BY <2>1, <2>2 DEF ModalFlags, ModalFields
  <2>5. \A i \in DOMAIN calls : ModalCall(n, calls[i])
    BY <2>1, <2>3 DEF NoneConfirmed, ModalCall
  <2>6. QED
    BY <1>1, <1>3, <2>2, <2>4, <2>5 DEF SystemsInv, SystemsOk
<1>4. QED
  BY <1>2, <1>3

\* The page sends a request of its own, or the modal one that needs no
\* confirmation.
LEMMA SystemsSent ==
    ASSUME SystemsInv, NoneIsNoModal, NEW e, Says(e, {"live"}), e.live,
           calls' = Append(calls, e), SystemsFields \subseteq DOMAIN view',
           view'.loading = view.loading, view'.creating => view.creating \/ e.op = "create",
           \/ e.op = "create" /\ view'.modal = view.modal
           \/ /\ view.modal # None
              /\ \/ e.op = "update" /\ view'.modal = [view.modal EXCEPT !.saving = TRUE]
                 \/ e.op = "createRole" /\ view'.modal = [view.modal EXCEPT !.creatingRole = TRUE]
    PROVE  SystemsInv'
<1>1. Calls(calls, {"live"}) /\ SystemsOk(view, calls) /\ 0 \notin DOMAIN calls
  BY DEF SystemsInv, SystemsOk, Calls
<1>2. /\ Calls(calls', {"live"}) /\ Survive(calls, calls', 0, {"live"})
      /\ \E j \in DOMAIN calls' : calls'[j] = e
      /\ \A j \in DOMAIN calls' : calls'[j] = e \/ \E k \in DOMAIN calls : calls'[j] = calls[k]
  BY <1>1, OneIsSent
<1> DEFINE m == view.modal
           n == view'.modal
<1>3. OneConfirmed(calls')
  BY <1>1, OneMoreConfirmed DEF SystemsOk, Confirmables
<1>4. /\ view'.loading => \E j \in DOMAIN calls' : calls'[j].op = "list"
      /\ view'.creating => \E j \in DOMAIN calls' : calls'[j].op = "create"
  BY <1>1, <1>2, PageFlagStays DEF SystemsOk
<1>5. CASE e.op = "create" /\ n = m
  <2>1. \A j \in DOMAIN calls' : ModalCall(n, calls'[j])
    BY <1>1, <1>2, <1>5 DEF SystemsOk, ModalCall, OwnOps, Confirmables
  <2>2. ASSUME n # None PROVE ModalFields \subseteq DOMAIN n /\ ModalFlags(n, calls')
    BY <1>1, <1>2, <1>5, <2>2, ModalFlagsKept DEF SystemsOk
  <2>3. QED
    BY <1>2, <1>3, <1>4, <2>1, <2>2 DEF SystemsInv, SystemsOk
<1>6. ASSUME NEW f \in {"saving", "creatingRole"}, m # None, n = [m EXCEPT ![f] = TRUE],
             e.op = IF f = "saving" THEN "update" ELSE "createRole"
      PROVE  SystemsInv'
  <2>1. ModalFields \subseteq DOMAIN m /\ ModalFlags(m, calls) /\ Live(calls', e.op)
    BY <1>1, <1>2, <1>6 DEF SystemsOk, Live
  <2>2. /\ ModalFields \subseteq DOMAIN n
        /\ n.rolesLoading = m.rolesLoading /\ n.regenerating = m.regenerating
        /\ n.deletingRole = m.deletingRole /\ n.confirm = m.confirm
        /\ n.saving => m.saving \/ e.op = "update"
        /\ n.creatingRole => m.creatingRole \/ e.op = "createRole"
    BY <1>6, <2>1 DEF ModalFields
  <2>3. n # None
    BY <2>2 DEF NoneIsNoModal
  <2> HIDE DEF n, m
  <2>4. ModalFlags(n, calls')
    BY <1>1, <1>2, <2>1, <2>2, ModalFlagsKept
  <2>5. \A j \in DOMAIN calls : ModalCall(n, calls[j])
    BY <1>1, <2>2, <2>3 DEF SystemsOk, ModalCall, Backed, m
  <2>6. ModalCall(n, e)
    BY <1>6, <2>3 DEF ModalCall, Confirmables
  <2>7. \A j \in DOMAIN calls' : ModalCall(n, calls'[j])
    BY <1>2, <2>5, <2>6
  <2>8. QED
    BY <1>2, <1>3, <1>4, <2>2, <2>4, <2>7 DEF SystemsInv, SystemsOk, n
<1>7. QED
  BY <1>5, <1>6

LEMMA SystemsConfirmed ==
    ASSUME SystemsInv, NoneIsNoModal, NEW e, Says(e, {"live"}), e.live,
           calls' = Append(calls, e), SystemsFields \subseteq DOMAIN view',
           view'.loading = view.loading, view'.creating = view.creating,
           view.modal # None, view.modal.confirm # None, Unconfirmed(view.modal),
           \/ /\ e.op = "regenerate" /\ view.modal.confirm = "secret"
              /\ view'.modal = [view.modal EXCEPT !.regenerating = TRUE]
           \/ /\ e.op = "removeRole" /\ view.modal.confirm # "secret"
              /\ view'.modal = [view.modal EXCEPT !.deletingRole = view.modal.confirm]
    PROVE  SystemsInv'
<1>1. /\ Calls(calls, {"live"}) /\ SystemsOk(view, calls) /\ 0 \notin DOMAIN calls
      /\ NoneConfirmed(calls) /\ OneConfirmed(calls)
  BY UnconfirmedHasNoCall DEF SystemsInv, SystemsOk, Calls
<1>2. /\ Calls(calls', {"live"}) /\ Survive(calls, calls', 0, {"live"})
      /\ \E j \in DOMAIN calls' : calls'[j] = e
      /\ \A j \in DOMAIN calls' : calls'[j] = e \/ \E k \in DOMAIN calls : calls'[j] = calls[k]
  BY <1>1, OneIsSent
<1> DEFINE m == view.modal
           n == view'.modal
<1>3. OneConfirmed(calls')
  <2>1. OneConfirmed(Append(calls, e))
    BY <1>1, OneMoreConfirmed
  <2>2. QED
    BY <2>1
<1>4. /\ view'.loading => \E j \in DOMAIN calls' : calls'[j].op = "list"
      /\ view'.creating => \E j \in DOMAIN calls' : calls'[j].op = "create"
  <2>1. view.loading => \E j \in DOMAIN calls' : calls'[j].op = "list"
    BY <1>1, <1>2, PageFlagStays DEF SystemsOk
  <2>2. view.creating => \E j \in DOMAIN calls' : calls'[j].op = "create"
    BY <1>1, <1>2, PageFlagStays DEF SystemsOk
  <2>3. QED
    BY <2>1, <2>2
<1>5. ModalFields \subseteq DOMAIN m /\ ModalFlags(m, calls) /\ Live(calls', e.op)
  BY <1>1, <1>2 DEF SystemsOk, Live
<1>6. /\ ModalFields \subseteq DOMAIN n
      /\ n.rolesLoading = m.rolesLoading /\ n.saving = m.saving
      /\ n.creatingRole = m.creatingRole /\ n.confirm = m.confirm
      /\ \/ e.op = "regenerate" /\ n.regenerating = TRUE /\ n.deletingRole = m.deletingRole
         \/ e.op = "removeRole" /\ n.deletingRole = m.confirm /\ n.regenerating = m.regenerating
  BY <1>5 DEF ModalFields
<1>7. n # None
  BY <1>6 DEF NoneIsNoModal
<1> HIDE DEF n, m
<1>8. ModalFlags(n, calls')
  BY <1>1, <1>2, <1>5, <1>6, ModalFlagsKept
<1>9. \A j \in DOMAIN calls : ModalCall(n, calls[j])
  BY <1>1, <1>7 DEF NoneConfirmed, ModalCall
<1>10. ModalCall(n, e)
  BY <1>6, <1>7 DEF ModalCall, Backed, Confirmables, m
<1>11. \A j \in DOMAIN calls' : ModalCall(n, calls'[j])
  BY <1>2, <1>9, <1>10
<1>12. QED
  BY <1>2, <1>3, <1>4, <1>6, <1>8, <1>11 DEF SystemsInv, SystemsOk, n

\* A modal opens, and asks for the roles of its system.
LEMMA SystemsOpened ==
    ASSUME SystemsInv, NoneIsNoModal, NEW e, Says(e, {"live"}), e.live, e.op = "roles",
           calls' = Append(calls, e), SystemsFields \subseteq DOMAIN view',
           view'.loading = view.loading, view'.creating = view.creating, view.modal = None,
           ModalFields \subseteq DOMAIN view'.modal,
           ~view'.modal.saving, ~view'.modal.regenerating, ~view'.modal.creatingRole,
           view'.modal.deletingRole = None
    PROVE  SystemsInv'
<1>1. Calls(calls, {"live"}) /\ SystemsOk(view, calls) /\ 0 \notin DOMAIN calls
  BY DEF SystemsInv, SystemsOk, Calls
<1>2. /\ Calls(calls', {"live"}) /\ Survive(calls, calls', 0, {"live"})
      /\ \E j \in DOMAIN calls' : calls'[j] = e
      /\ \A j \in DOMAIN calls' : calls'[j] = e \/ \E k \in DOMAIN calls : calls'[j] = calls[k]
  BY <1>1, OneIsSent
<1>3. OneConfirmed(calls')
  BY <1>1, OneMoreConfirmed DEF SystemsOk, Confirmables
<1>4. /\ view'.loading => \E j \in DOMAIN calls' : calls'[j].op = "list"
      /\ view'.creating => \E j \in DOMAIN calls' : calls'[j].op = "create"
  BY <1>1, <1>2, PageFlagStays DEF SystemsOk
<1>5. view'.modal # None
  BY DEF NoneIsNoModal
<1>6. Live(calls', "roles")
  BY <1>2 DEF Live
<1>7. ModalFlags(view'.modal, calls')
  BY <1>6 DEF ModalFlags
<1>8. \A j \in DOMAIN calls : ModalCall(view'.modal, calls[j])
  BY <1>1, <1>5 DEF SystemsOk, ModalCall, Backed
<1>9. ModalCall(view'.modal, e)
  BY <1>5 DEF ModalCall, Confirmables
<1>10. \A j \in DOMAIN calls' : ModalCall(view'.modal, calls'[j])
  BY <1>2, <1>8, <1>9
<1>11. QED
  BY <1>2, <1>3, <1>4, <1>7, <1>10 DEF SystemsInv, SystemsOk

\* It closes, and its requests go on without it.
LEMMA SystemsClosed ==
    ASSUME SystemsInv, view.modal.confirm = None, SystemsFields \subseteq DOMAIN view',
           view'.loading = view.loading, view'.creating = view.creating, view'.modal = None,
           calls' = [i \in DOMAIN calls |->
                       [calls[i] EXCEPT !.live = @ /\ calls[i].op \in OwnOps]]
    PROVE  SystemsInv'
<1> DEFINE S == {calls'[i] : i \in DOMAIN calls}
<1>1. /\ calls \in Seq(Elements(calls)) /\ \A i \in DOMAIN calls : Says(calls[i], {"live"})
      /\ SystemsOk(view, calls) /\ NoneConfirmed(calls)
  BY UnconfirmedHasNoCall DEF SystemsInv, SystemsOk, Calls, Unconfirmed
<1>2. DOMAIN calls = 1..Len(calls) /\ Len(calls) \in Nat
  BY <1>1, OwnElements
<1>3. DOMAIN calls' = DOMAIN calls
  OBVIOUS
<1>4. ASSUME NEW i \in DOMAIN calls
      PROVE  /\ Says(calls'[i], {"live"}) /\ calls'[i].op = calls[i].op
             /\ calls[i].op # "list" => (calls'[i].live => calls[i].op \in OwnOps)
  BY <1>1, <1>4 DEF Says
<1>5. calls' \in Seq(Elements(calls'))
  <2> DEFINE t == calls'
  <2>1. t = [i \in 1..Len(calls) |-> t[i]]
    BY <1>2
  <2> HIDE DEF t
  <2>2. DOMAIN t = 1..Len(calls)
    BY <2>1
  <2>3. t \in Seq({t[i] : i \in 1..Len(calls)})
    BY <1>2, <2>1
  <2>4. QED
    BY <2>3, OwnElements DEF t
<1>6. OneConfirmed(calls') /\ \A i \in DOMAIN calls' : ModalCall(view'.modal, calls'[i])
  BY <1>1, <1>3, <1>4 DEF NoneConfirmed, OneConfirmed, ModalCall, OwnOps
<1>7. /\ view'.loading => \E j \in DOMAIN calls' : calls'[j].op = "list"
      /\ view'.creating => \E j \in DOMAIN calls' : calls'[j].op = "create"
  BY <1>1, <1>3, <1>4 DEF SystemsOk
<1>8. Calls(calls', {"live"})
  BY <1>3, <1>4, <1>5 DEF Calls
<1>9. QED
  BY <1>6, <1>7, <1>8 DEF SystemsInv, SystemsOk

\* Request i is answered or given up, and another one for the operations more
\* may take its place.
Leaves(s, t, i, more) ==
    \/ t = Rest(s, i) /\ more = {}
    \/ \E e : /\ t = Append(Rest(s, i), e) /\ more = {e.op}
              /\ e.op \in {"list", "roles"} /\ Says(e, {"live"}) /\ e.live

LEMMA OneLeaves ==
    ASSUME NEW s, Calls(s, {"live"}), OneConfirmed(s), NEW i \in DOMAIN s, NEW t, NEW more,
           Leaves(s, t, i, more)
    PROVE  /\ Calls(t, {"live"}) /\ Survive(s, t, i, {"live"})
           /\ OneConfirmed(t) /\ (s[i].op \in Confirmables => NoneConfirmed(t))
           /\ \A op \in more : Live(t, op)
           /\ \A j \in DOMAIN t : (\E k \in DOMAIN s : t[j] = s[k]) \/ t[j].op \in more
           /\ more \subseteq {"list", "roles"}
<1> DEFINE F == {"live"}
           r == Rest(s, i)
<1>1. /\ Calls(r, F) /\ Survive(s, r, i, F)
      /\ \A j \in DOMAIN r : \E k \in DOMAIN s : r[j] = s[k]
      /\ OneConfirmed(r) /\ (s[i].op \in Confirmables => NoneConfirmed(r))
  BY OneIsGone, OneIsConfirmed
<1> HIDE DEF r
<1>2. CASE t = r /\ more = {}
  BY <1>1, <1>2
<1>3. ASSUME NEW e, t = Append(r, e), more = {e.op}, e.op \in {"list", "roles"},
             Says(e, F), e.live
      PROVE  /\ Calls(t, F) /\ Survive(s, t, i, F)
             /\ OneConfirmed(t) /\ (s[i].op \in Confirmables => NoneConfirmed(t))
             /\ \A op \in more : Live(t, op)
             /\ \A j \in DOMAIN t : (\E k \in DOMAIN s : t[j] = s[k]) \/ t[j].op \in more
             /\ more \subseteq {"list", "roles"}
  <2>1. /\ Calls(t, F) /\ Survive(s, t, i, F)
        /\ \E j \in DOMAIN t : t[j] = e
        /\ \A j \in DOMAIN t : t[j] = e \/ \E k \in DOMAIN s : t[j] = s[k]
    BY <1>3, OneForAnother DEF r
  <2>2. e.op \notin Confirmables
    BY <1>3 DEF Confirmables
  <2>3. OneConfirmed(t)
    BY <1>1, <1>3, <2>2, OneMoreConfirmed
  <2>4. \A j \in DOMAIN t : t[j] = e \/ \E k \in DOMAIN r : t[j] = r[k]
    BY <1>1, <1>3, OneIsSent
  <2>5. s[i].op \in Confirmables => NoneConfirmed(t)
    BY <1>1, <2>2, <2>4 DEF NoneConfirmed
  <2>6. \A op \in more : Live(t, op)
    BY <1>3, <2>1 DEF Live
  <2>7. QED
    BY <1>3, <2>1, <2>3, <2>5, <2>6
<1>4. QED
  BY <1>2, <1>3 DEF Leaves, r

\* The modal after the request for op has been answered.
ModalAfter(m, n, op, more) ==
    /\ ModalFields \subseteq DOMAIN n
    /\ n.rolesLoading => "roles" \in more \/ (m.rolesLoading /\ op # "roles")
    /\ n.saving => m.saving /\ op # "update"
    /\ n.regenerating => m.regenerating /\ op # "regenerate"
    /\ m.regenerating /\ op # "regenerate" => n.regenerating
    /\ n.creatingRole => m.creatingRole /\ op # "createRole"
    /\ n.deletingRole = IF op = "removeRole" THEN None ELSE m.deletingRole
    /\ op \notin Confirmables => n.confirm = m.confirm

LEMMA SystemsSettled ==
    ASSUME SystemsInv, NoneIsNoModal, NEW i \in DOMAIN calls, NEW more,
           Leaves(calls, calls', i, more), SystemsFields \subseteq DOMAIN view',
           view'.loading => "list" \in more \/ (view.loading /\ calls[i].op # "list"),
           view'.creating => view.creating /\ calls[i].op # "create",
           \/ /\ view'.modal = view.modal /\ "roles" \notin more
              /\ calls[i].op \in OwnOps \/ ~calls[i].live
           \/ /\ calls[i].op \notin OwnOps /\ calls[i].live
              /\ ModalAfter(view.modal, view'.modal, calls[i].op, more)
    PROVE  SystemsInv'
<1>1. Calls(calls, {"live"}) /\ SystemsOk(view, calls) /\ OneConfirmed(calls)
  BY DEF SystemsInv, SystemsOk
<1>2. /\ Calls(calls', {"live"}) /\ Survive(calls, calls', i, {"live"})
      /\ OneConfirmed(calls') /\ (calls[i].op \in Confirmables => NoneConfirmed(calls'))
      /\ \A op \in more : Live(calls', op)
      /\ \A j \in DOMAIN calls' :
           (\E k \in DOMAIN calls : calls'[j] = calls[k]) \/ calls'[j].op \in more
      /\ more \subseteq {"list", "roles"}
  BY <1>1, OneLeaves
<1>3. /\ view'.loading => \E j \in DOMAIN calls' : calls'[j].op = "list"
      /\ view'.creating => \E j \in DOMAIN calls' : calls'[j].op = "create"
  <2>1. "list" \in more => \E j \in DOMAIN calls' : calls'[j].op = "list"
    BY <1>2 DEF Live
  <2>2. view.loading /\ calls[i].op # "list" => \E j \in DOMAIN calls' : calls'[j].op = "list"
    BY <1>1, <1>2, PageFlagStays DEF SystemsOk
  <2>3. view.creating /\ calls[i].op # "create" =>
          \E j \in DOMAIN calls' : calls'[j].op = "create"
    BY <1>1, <1>2, PageFlagStays DEF SystemsOk
  <2>4. QED
    BY <2>1, <2>2, <2>3
<1> DEFINE m == view.modal
           n == view'.modal
<1>4. CASE n = m /\ "roles" \notin more /\ (calls[i].op \in OwnOps \/ ~calls[i].live)
  <2>1. \A j \in DOMAIN calls' : ModalCall(m, calls'[j])
    BY <1>1, <1>2, <1>4 DEF SystemsOk, ModalCall, OwnOps, Confirmables
  <2>2. ASSUME m # None PROVE ModalFields \subseteq DOMAIN m /\ ModalFlags(m, calls')
    <3>1. ModalFields \subseteq DOMAIN m /\ ModalFlags(m, calls)
      BY <1>1, <2>2 DEF SystemsOk
    <3>2. \A op \in {"roles", "update", "regenerate", "createRole", "removeRole"} :
            ~(i \in DOMAIN calls /\ calls[i].op = op /\ calls[i].live)
      BY <1>4 DEF OwnOps
    <3> HIDE DEF m
    <3>3. QED
      BY <1>2, <3>1, <3>2, ModalFlagsKept
  <2>3. QED
    BY <1>2, <1>3, <1>4, <2>1, <2>2 DEF SystemsInv, SystemsOk
<1>5. CASE /\ calls[i].op \notin OwnOps /\ calls[i].live
           /\ ModalAfter(m, n, calls[i].op, more)
  <2>1. m # None /\ ModalFields \subseteq DOMAIN m /\ ModalFlags(m, calls)
    BY <1>1, <1>5 DEF SystemsOk, ModalCall
  <2>2. n # None /\ ModalFields \subseteq DOMAIN n
    BY <1>5 DEF ModalAfter, NoneIsNoModal
  <2>3. ModalAfter(m, n, calls[i].op, more)
    BY <1>5
  <2>4. \A j \in DOMAIN calls : ModalCall(m, calls[j])
    BY <1>1 DEF SystemsOk
  <2> HIDE DEF m, n
  <2>5. ModalFlags(n, calls')
    BY <1>2, <2>1, <2>3, ModalFlagsKept DEF ModalAfter
  <2>6. ASSUME NEW j \in DOMAIN calls' PROVE ModalCall(n, calls'[j])
    <3>1. CASE calls'[j].op \notin Confirmables
      BY <2>2, <3>1 DEF ModalCall
    <3>2. CASE calls'[j].op \in Confirmables
      <4>1. calls[i].op \notin Confirmables
        BY <1>2, <3>2 DEF NoneConfirmed
      <4>2. PICK k \in DOMAIN calls : calls'[j] = calls[k]
        BY <1>2, <3>2 DEF Confirmables
      <4>3. Backed(m, calls'[j])
        BY <2>4, <3>2, <4>2 DEF ModalCall
      <4>4. Backed(n, calls'[j])
        BY <2>2, <2>3, <4>1, <4>3 DEF ModalAfter, Backed, Confirmables
      <4>5. QED
        BY <2>2, <4>4 DEF ModalCall
    <3>3. QED
      BY <3>1, <3>2
  <2>7. QED
    BY <1>2, <1>3, <2>2, <2>5, <2>6 DEF SystemsInv, SystemsOk, n
<1>6. QED
  BY <1>4, <1>5

LEMMA SystemsStep == ASSUME NoneIsNoModal, SystemsInv, Next PROVE SystemsInv'
<1>1. /\ SystemsFields \subseteq DOMAIN view /\ Calls(calls, {"live"}) /\ SystemsOk(view, calls)
      /\ view.modal # None => ModalFields \subseteq DOMAIN view.modal
  BY DEF SystemsInv, SystemsOk
<1>2. ASSUME NEW i \in DOMAIN calls PROVE Without(i) = Rest(calls, i)
  BY DEF Without, Rest
<1>3. ASSUME NEW op, NEW s, NEW x
      PROVE  LET e == Call(op, s, x) IN Says(e, {"live"}) /\ e.op = op /\ e.live
  BY DEF Call, Says
<1>4. ASSUME NEW i \in DOMAIN calls, Serve(i) PROVE SystemsInv'
  <2>1. view' = view /\ \E a : calls' = [calls EXCEPT ![i].answer = a]
    BY <1>4 DEF Serve, ServeList, ServeRoles,
       ServeCreate, ServeRegenerate, ServeUpdate,
       ServeCreateRole, ServeRemoveRole, DrawFor,
       Answered
  <2>2. QED
    BY <2>1, SystemsServed
<1>5. ASSUME OpenForm \/ CancelForm \/ CloseReveal
      PROVE  SystemsInv'
  BY <1>1, <1>5, SystemsClicked DEF OpenForm, CancelForm,
     CloseReveal, Click, SystemsFields
<1>6. ASSUME NEW c, view.modal # None, Unconfirmed(view.modal), calls' = calls,
             view' = [view EXCEPT !.modal.confirm = c]
      PROVE  SystemsInv'
  <2>1. /\ SystemsFields \subseteq DOMAIN view' /\ view'.loading = view.loading
        /\ view'.creating = view.creating
        /\ view'.modal = [view.modal EXCEPT !.confirm = c]
    BY <1>1, <1>6 DEF SystemsFields
  <2>2. QED
    BY <1>6, <2>1, SystemsClicked
<1>7. CASE AskRegenerate
  BY <1>6, <1>7 DEF AskRegenerate, InModal, Click, Unconfirmed
<1>8. ASSUME NEW r, AskRemoveRole(r) PROVE SystemsInv'
  BY <1>6, <1>8 DEF AskRemoveRole, InModal, Click, Unconfirmed
<1>9. CASE CancelConfirm
  BY <1>6, <1>9 DEF CancelConfirm, Confirming, Confirmed,
     Click, Unconfirmed
<1>10. CASE CloseModal
  <2>1. /\ SystemsFields \subseteq DOMAIN view' /\ view'.loading = view.loading
        /\ view'.creating = view.creating /\ view'.modal = None
        /\ view.modal.confirm = None
    BY <1>1, <1>10 DEF CloseModal, SystemsFields
  <2>2. QED
    BY <1>10, <2>1, SystemsClosed DEF CloseModal, OwnOps
<1>11. ASSUME NEW row, OpenModal(row) PROVE SystemsInv'
  <2> DEFINE e == Call("roles", row.slug, None)
             n == [of |-> row.slug, saving |-> FALSE, regenerating |-> FALSE,
                   confirm |-> None, roles |-> {}, rolesLoading |-> TRUE,
                   creatingRole |-> FALSE, deletingRole |-> None]
  <2>1. /\ view' = [view EXCEPT !.modal = n] /\ calls' = Append(calls, e)
        /\ view.modal = None
    BY <1>11 DEF OpenModal, Open
  <2>2. /\ ModalFields \subseteq DOMAIN n /\ ~n.saving /\ ~n.regenerating
        /\ ~n.creatingRole /\ n.deletingRole = None
    BY DEF ModalFields
  <2>3. Says(e, {"live"}) /\ e.live /\ e.op = "roles"
    BY <1>3
  <2> HIDE DEF n, e
  <2>4. /\ SystemsFields \subseteq DOMAIN view' /\ view'.loading = view.loading
        /\ view'.creating = view.creating /\ view'.modal = n
    BY <1>1, <2>1 DEF SystemsFields
  <2>5. QED
    BY <2>1, <2>2, <2>3, <2>4, SystemsOpened
<1>12. ASSUME NEW s, NEW c, SubmitForm(s, c) PROVE SystemsInv'
  <2>1. /\ SystemsFields \subseteq DOMAIN view' /\ view'.loading = view.loading
        /\ view'.modal = view.modal
        /\ calls' = Append(calls, Call("create", s, c))
    BY <1>1, <1>12 DEF SubmitForm, Send, SystemsFields
  <2>2. QED
    BY <1>3, <2>1, SystemsSent
<1>13. ASSUME NEW c, Save(c) PROVE SystemsInv'
  <2>1. /\ SystemsFields \subseteq DOMAIN view' /\ view'.loading = view.loading
        /\ view'.creating = view.creating /\ view.modal # None
        /\ view'.modal = [view.modal EXCEPT !.saving = TRUE]
        /\ calls' = Append(calls, Call("update", view.modal.of, c))
    BY <1>1, <1>13 DEF Save, InModal, Send, SystemsFields
  <2>2. QED
    BY <1>3, <2>1, SystemsSent
<1>14. ASSUME NEW r, CreateRole(r) PROVE SystemsInv'
  <2>1. /\ SystemsFields \subseteq DOMAIN view' /\ view'.loading = view.loading
        /\ view'.creating = view.creating /\ view.modal # None
        /\ view'.modal = [view.modal EXCEPT !.creatingRole = TRUE]
        /\ calls' = Append(calls, Call("createRole", view.modal.of, r))
    BY <1>1, <1>14 DEF CreateRole, InModal, Send, SystemsFields
  <2>2. QED
    BY <1>3, <2>1, SystemsSent
<1>15. CASE Confirm
  <2>1. /\ view.modal # None /\ view.modal.confirm # None /\ Unconfirmed(view.modal)
    BY <1>15 DEF Confirm, Confirming, Confirmed, Unconfirmed
  <2>2. CASE view.modal.confirm = "secret"
    <3>1. /\ SystemsFields \subseteq DOMAIN view' /\ view'.loading = view.loading
          /\ view'.creating = view.creating
          /\ view'.modal = [view.modal EXCEPT !.regenerating = TRUE]
          /\ calls' = Append(calls, Call("regenerate", view.modal.of, None))
      BY <1>1, <1>15, <2>2 DEF Confirm, Send, SystemsFields
    <3>2. QED
      BY <1>3, <2>1, <2>2, <3>1, SystemsConfirmed
  <2>3. CASE view.modal.confirm # "secret"
    <3>1. /\ SystemsFields \subseteq DOMAIN view' /\ view'.loading = view.loading
          /\ view'.creating = view.creating
          /\ view'.modal = [view.modal EXCEPT !.deletingRole = view.modal.confirm]
          /\ calls' = Append(calls, Call("removeRole", view.modal.of,
                                                   view.modal.confirm))
      BY <1>1, <1>15, <2>3 DEF Confirm, Send, SystemsFields
    <3>2. QED
      BY <1>3, <2>1, <2>3, <3>1, SystemsConfirmed
  <2>4. QED
    BY <2>2, <2>3
<1>16. ASSUME NEW i \in DOMAIN calls
       PROVE  /\ calls' = Without(i) => Leaves(calls, calls', i, {})
              /\ calls' = Append(Without(i), ListCall) =>
                   Leaves(calls, calls', i, {"list"})
              /\ \A s : calls' = Append(Without(i), Call("roles", s, None)) =>
                   Leaves(calls, calls', i, {"roles"})
  BY <1>2, <1>3 DEF Leaves, ListCall
\* A request of the modal brings it back to None only by being given up with it.
<1>17. ASSUME NEW i \in DOMAIN calls, calls[i].op \notin OwnOps, calls[i].live
       PROVE  view.modal # None /\ ModalFields \subseteq DOMAIN view.modal
  BY <1>1, <1>17 DEF SystemsOk, ModalCall
<1>18. ASSUME NEW i \in DOMAIN calls, ShowList(i) PROVE SystemsInv'
  BY <1>1, <1>16, <1>18, SystemsSettled DEF ShowList, SystemsFields, OwnOps
<1>19. ASSUME NEW i \in DOMAIN calls, ShowRoles(i) PROVE SystemsInv'
  <2>1. calls[i].op = "roles" /\ calls' = Without(i)
    BY <1>19 DEF ShowRoles
  <2>2. CASE ~calls[i].live
    <3>1. view' = view
      BY <1>19, <2>2 DEF ShowRoles
    <3>2. QED
      BY <1>1, <1>16, <2>1, <2>2, <3>1, SystemsSettled
  <2>3. CASE calls[i].live
    <3> DEFINE roles == calls[i].answer.roles
    <3>1. view' = [view EXCEPT !.modal.roles = roles, !.modal.rolesLoading = FALSE]
      BY <1>19, <2>3 DEF ShowRoles
    <3>2. ModalFields \subseteq DOMAIN view.modal
      BY <1>17, <2>1, <2>3 DEF OwnOps
    <3> HIDE DEF roles
    <3>3. /\ SystemsFields \subseteq DOMAIN view' /\ view'.loading = view.loading
          /\ view'.creating = view.creating
          /\ view'.modal = [[view.modal EXCEPT !.roles = roles] EXCEPT !.rolesLoading = FALSE]
      BY <1>1, <3>1 DEF SystemsFields
    <3>4. ModalAfter(view.modal, view'.modal, "roles", {})
      BY <3>2, <3>3 DEF ModalAfter, ModalFields, Confirmables
    <3>5. QED
      BY <1>16, <2>1, <2>3, <3>3, <3>4, SystemsSettled DEF OwnOps
  <2>4. QED
    BY <2>2, <2>3
<1>20. ASSUME NEW i \in DOMAIN calls, Created(i) PROVE SystemsInv'
  <2>1. /\ calls[i].op = "create"
        /\ calls' = Append(Without(i), ListCall)
    BY <1>20 DEF Created, FetchSystems
  <2>2. /\ SystemsFields \subseteq DOMAIN view' /\ ~view'.creating
        /\ view'.modal = view.modal
    BY <1>1, <1>20 DEF Created, FetchSystems, SystemsFields
  <2>3. QED
    BY <1>16, <2>1, <2>2, SystemsSettled DEF OwnOps
<1>21. ASSUME NEW i \in DOMAIN calls, Regenerated(i) PROVE SystemsInv'
  <2>1. calls[i].op = "regenerate" /\ calls' = Without(i)
    BY <1>21 DEF Regenerated
  <2>2. calls[i].live /\ ModalFields \subseteq DOMAIN view.modal
    BY <1>1, <2>1 DEF SystemsOk, ModalCall, Backed, Confirmables
  <2>3. /\ SystemsFields \subseteq DOMAIN view' /\ view'.loading = view.loading
        /\ view'.creating = view.creating
        /\ view'.modal = [[view.modal EXCEPT !.regenerating = FALSE] EXCEPT !.confirm = None]
    BY <1>1, <1>21 DEF Regenerated, SystemsFields
  <2>4. ModalAfter(view.modal, view'.modal, "regenerate", {})
    BY <2>2, <2>3 DEF ModalAfter, ModalFields, Confirmables
  <2>5. QED
    BY <1>16, <2>1, <2>2, <2>3, <2>4, SystemsSettled DEF OwnOps
<1>22. ASSUME NEW i \in DOMAIN calls, Updated(i) PROVE SystemsInv'
  <2>1. /\ calls[i].op = "update"
        /\ calls' = Append(Without(i), ListCall)
    BY <1>22 DEF Updated, FetchSystems
  <2>2. CASE ~calls[i].live
    <3>1. view' = [view EXCEPT !.loading = TRUE]
      BY <1>22, <2>2 DEF Updated, FetchSystems
    <3>2. /\ SystemsFields \subseteq DOMAIN view' /\ view'.creating = view.creating
          /\ view'.modal = view.modal
      BY <1>1, <3>1 DEF SystemsFields
    <3>3. QED
      BY <1>16, <2>1, <2>2, <3>2, SystemsSettled
  <2>3. CASE calls[i].live
    <3>1. view' = [[view EXCEPT !.modal.saving = FALSE] EXCEPT !.loading = TRUE]
      BY <1>22, <2>3 DEF Updated, FetchSystems
    <3>2. ModalFields \subseteq DOMAIN view.modal
      BY <1>17, <2>1, <2>3 DEF OwnOps
    <3>3. /\ SystemsFields \subseteq DOMAIN view' /\ view'.creating = view.creating
          /\ view'.modal = [view.modal EXCEPT !.saving = FALSE]
      BY <1>1, <3>1 DEF SystemsFields
    <3>4. ModalAfter(view.modal, view'.modal, "update", {"list"})
      BY <3>2, <3>3 DEF ModalAfter, ModalFields, Confirmables
    <3>5. QED
      BY <1>16, <2>1, <2>3, <3>3, <3>4, SystemsSettled DEF OwnOps
  <2>4. QED
    BY <2>2, <2>3
<1>23. ASSUME NEW i \in DOMAIN calls, RolesChanged(i) PROVE SystemsInv'
  <2>1. calls[i].op \in {"createRole", "removeRole"}
    BY <1>23 DEF RolesChanged
  <2>2. CASE ~calls[i].live
    <3>1. view' = view /\ calls' = Without(i)
      BY <1>23, <2>2 DEF RolesChanged
    <3>2. QED
      BY <1>1, <1>16, <2>1, <2>2, <3>1, SystemsSettled
  <2>3. CASE calls[i].live
    <3>1. PICK w \in {[view EXCEPT !.modal.creatingRole = FALSE],
                      [view EXCEPT !.modal.confirm = None, !.modal.deletingRole = None]} :
            /\ w = IF calls[i].op = "createRole"
                   THEN [view EXCEPT !.modal.creatingRole = FALSE]
                   ELSE [view EXCEPT !.modal.confirm = None, !.modal.deletingRole = None]
            /\ view' = [w EXCEPT !.modal.rolesLoading = TRUE]
            /\ calls' = Append(Without(i), Call("roles", calls[i].slug, None))
      BY <1>23, <2>3 DEF RolesChanged, FetchRoles
    <3>2. ModalFields \subseteq DOMAIN view.modal
      BY <1>17, <2>1, <2>3 DEF OwnOps
    <3> DEFINE x == IF calls[i].op = "createRole"
                    THEN [view.modal EXCEPT !.creatingRole = FALSE]
                    ELSE [[view.modal EXCEPT !.confirm = None] EXCEPT !.deletingRole = None]
    <3>3. /\ SystemsFields \subseteq DOMAIN w /\ w.loading = view.loading
          /\ w.creating = view.creating /\ w.modal = x
      <4>1. CASE calls[i].op = "createRole"
        BY <1>1, <3>1, <4>1 DEF SystemsFields
      <4>2. CASE calls[i].op # "createRole"
        BY <1>1, <3>1, <4>2 DEF SystemsFields
      <4>3. QED
        BY <4>1, <4>2
    <3>4. /\ SystemsFields \subseteq DOMAIN view' /\ view'.loading = view.loading
          /\ view'.creating = view.creating
          /\ view'.modal = [x EXCEPT !.rolesLoading = TRUE]
      BY <3>1, <3>3 DEF SystemsFields
    <3>5. ModalAfter(view.modal, view'.modal, calls[i].op, {"roles"})
      BY <2>1, <3>2, <3>4 DEF ModalAfter, ModalFields, Confirmables
    <3>6. QED
      BY <1>16, <2>1, <2>3, <3>1, <3>4, <3>5, SystemsSettled DEF OwnOps
  <2>4. QED
    BY <2>2, <2>3
\* An answer that is an error, or none.
<1>24. ASSUME NEW i \in DOMAIN calls, view' = Released(i), calls' = Without(i)
       PROVE  SystemsInv'
  <2> DEFINE op == calls[i].op
  <2>1. CASE op = "list"
    BY <1>1, <1>16, <1>24, <2>1, SystemsSettled DEF Released, SystemsFields, OwnOps
  <2>2. CASE op = "create"
    BY <1>1, <1>16, <1>24, <2>2, SystemsSettled DEF Released, SystemsFields, OwnOps
  <2>3. CASE op \notin OwnOps /\ ~calls[i].live
    <3>1. view' = view
      BY <1>24, <2>3 DEF Released, OwnOps
    <3>2. QED
      BY <1>1, <1>16, <1>24, <2>3, <3>1, SystemsSettled DEF OwnOps
  <2>4. CASE op \notin OwnOps /\ calls[i].live
    <3>1. view' = [view EXCEPT
                    !.modal.rolesLoading = @ /\ op # "roles",
                    !.modal.saving = @ /\ op # "update",
                    !.modal.regenerating = @ /\ op # "regenerate",
                    !.modal.creatingRole = @ /\ op # "createRole",
                    !.modal.deletingRole = IF op = "removeRole" THEN None ELSE @]
      BY <1>24, <2>4 DEF Released, OwnOps
    <3>2. ModalFields \subseteq DOMAIN view.modal
      BY <1>17, <2>4
    <3> HIDE DEF op
    <3>3. /\ SystemsFields \subseteq DOMAIN view' /\ view'.loading = view.loading
          /\ view'.creating = view.creating
          /\ view'.modal = [view.modal EXCEPT
                    !.rolesLoading = @ /\ op # "roles",
                    !.saving = @ /\ op # "update",
                    !.regenerating = @ /\ op # "regenerate",
                    !.creatingRole = @ /\ op # "createRole",
                    !.deletingRole = IF op = "removeRole" THEN None ELSE @]
      BY <1>1, <3>1 DEF SystemsFields
    <3>4. ModalAfter(view.modal, view'.modal, op, {})
      BY <3>2, <3>3 DEF ModalAfter, ModalFields, Confirmables
    <3>5. QED
      BY <1>16, <1>24, <2>4, <3>3, <3>4, SystemsSettled DEF op, OwnOps
  <2>5. QED
    BY <2>1, <2>2, <2>3, <2>4 DEF OwnOps
<1>25. ASSUME NEW i \in DOMAIN calls, Settle(i) PROVE SystemsInv'
  BY <1>18, <1>19, <1>20, <1>21, <1>22, <1>23, <1>24, <1>25 DEF Settle,
     Refused, Lost
<1>26. QED
  BY <1>4, <1>5, <1>7, <1>8, <1>9, <1>10, <1>11, <1>12, <1>13, <1>14, <1>15, <1>25, Zenon DEF
     Next

-----------------------------------------------------------------------------

LEMMA SystemsMounts ==
    ASSUME NEW m \in Mounts
    PROVE  SystemsOk(m.view, m.calls)
<1>1. PICK e : Says(e, {"live"}) /\ e.op = "list" /\ m.calls = <<e>>
  BY DEF Mounts, ListCall, Call, Says
<1>2. SystemsFields \subseteq DOMAIN m.view /\ ~m.view.creating /\ m.view.modal = None
  BY DEF Mounts, Mounted, SystemsFields
<1>3. Calls(<<e>>, {"live"}) /\ DOMAIN <<e>> = {1} /\ <<e>>[1] = e
  BY <1>1, OneCall
<1>4. QED
  BY <1>1, <1>2, <1>3 DEF SystemsOk, OneConfirmed, ModalCall, Confirmables, OwnOps

\* What the page displays is right, or will be by an answer under way: a write is
\* through, after which the page asks again; or the newest request for what is
\* displayed, among those at L, is one of those at F, which bring the truth; or there
\* is no such request, and what is displayed is right.
Newest(L, F) == \E k \in F : \A j \in L : j <= k
Truth(L, F, dirty, shown) == dirty \/ Newest(L, F) \/ (L = {} /\ shown)

\* Where the one at j stands after the one at i has gone, and where it stood.
Now(i, j)    == IF j < i THEN j ELSE j - 1
Before(i, j) == IF j < i THEN j ELSE j + 1

LEMMA Moved ==
    ASSUME NEW S, NEW s \in Seq(S), NEW i \in DOMAIN s
    PROVE  /\ DOMAIN Rest(s, i) = 1..(Len(s) - 1) /\ DOMAIN s = 1..Len(s) /\ Len(s) \in Nat
           /\ \A j \in DOMAIN Rest(s, i) :
                /\ Before(i, j) \in DOMAIN s /\ Before(i, j) # i
                /\ Rest(s, i)[j] = s[Before(i, j)]
           /\ \A j \in DOMAIN s : j # i =>
                Now(i, j) \in DOMAIN Rest(s, i) /\ Rest(s, i)[Now(i, j)] = s[j]
<1> DEFINE r == Rest(s, i)
<1>1. /\ r \in Seq(S) /\ Len(r) = Len(s) - 1
      /\ \A j \in 1..(i - 1) : r[j] = s[j]
      /\ \A j \in i..(Len(s) - 1) : r[j] = s[j + 1]
  BY RestOrder
<1>2. DOMAIN s = 1..Len(s) /\ Len(s) \in Nat /\ i \in 1..Len(s)
  OBVIOUS
<1> HIDE DEF r
<1>3. DOMAIN r = 1..(Len(s) - 1)
  BY <1>1
<1>4. ASSUME NEW j \in DOMAIN r
      PROVE  Before(i, j) \in DOMAIN s /\ Before(i, j) # i /\ r[j] = s[Before(i, j)]
  <2>1. CASE j < i
    BY <1>1, <1>2, <1>3, <2>1 DEF Before
  <2>2. CASE ~(j < i)
    BY <1>1, <1>2, <1>3, <2>2 DEF Before
  <2>3. QED
    BY <2>1, <2>2
<1>5. ASSUME NEW j \in DOMAIN s, j # i PROVE Now(i, j) \in DOMAIN r /\ r[Now(i, j)] = s[j]
  <2>1. CASE j < i
    BY <1>1, <1>2, <1>3, <2>1 DEF Now
  <2>2. CASE ~(j < i)
    <3>1. j - 1 \in i..(Len(s) - 1) /\ (j - 1) + 1 = j
      BY <1>2, <1>5, <2>2
    <3>2. r[j - 1] = s[(j - 1) + 1]
      BY <1>1, <3>1
    <3>3. QED
      BY <1>2, <1>3, <2>2, <3>1, <3>2 DEF Now
  <2>3. QED
    BY <2>1, <2>2
<1>6. QED
  BY <1>2, <1>3, <1>4, <1>5 DEF r

\* L and F are requests before, M and G those after, of n requests.
LEMMA NewestStays ==
    ASSUME NEW n \in Nat, NEW i \in 1..n, NEW L, NEW F \in SUBSET (1..n), NEW M, NEW G,
           M \subseteq 1..(n - 1), \A j \in M : Before(i, j) \in L,
           \A k \in F : k # i => Now(i, k) \in G,
           Newest(L, F), i \notin F
    PROVE  Newest(M, G)
<1>1. PICK k \in F : \A j \in L : j <= k
  BY DEF Newest
<1>2. Now(i, k) \in G
  BY <1>1
<1>3. \A j \in M : j <= Now(i, k)
  BY <1>1 DEF Now, Before
<1>4. QED
  BY <1>2, <1>3 DEF Newest

\* The oldest one is answered, and displayed.
LEMMA NewestShown ==
    ASSUME NEW n \in Nat, NEW i \in 1..n, NEW L \in SUBSET (1..n), NEW F \in SUBSET (1..n),
           NEW M, NEW G,
           M \subseteq 1..(n - 1), \A j \in M : Before(i, j) \in L,
           \A k \in F : k # i => Now(i, k) \in G,
           \A j \in L : ~(j < i), Newest(L, F)
    PROVE  Newest(M, G) \/ (M = {} /\ i \in F)
<1>1. CASE i \notin F
  BY <1>1, NewestStays
<1>2. ASSUME i \in F, \A j \in L : j <= i PROVE M = {}
  <2>1. ASSUME NEW j \in M PROVE FALSE
    <3>1. j \in 1..(n - 1) /\ Before(i, j) \in L
      OBVIOUS
    <3>2. Before(i, j) \in 1..n /\ ~(Before(i, j) < i) /\ Before(i, j) <= i
      BY <1>2, <3>1
    <3>3. QED
      BY <3>1, <3>2 DEF Before
  <2>2. QED
    BY <2>1
<1>3. ASSUME NEW k \in F, k # i, \A j \in L : j <= k PROVE Newest(M, G)
  <2>1. Now(i, k) \in G
    BY <1>3
  <2>2. \A j \in M : j <= Now(i, k)
    BY <1>3 DEF Now, Before
  <2>3. QED
    BY <2>1, <2>2 DEF Newest
<1>4. QED
  BY <1>2, <1>3 DEF Newest

-----------------------------------------------------------------------------
(* Requests, field by field *)

CallFields      == {"op", "slug", "value", "live", "answer"}
ShapedCalls(s)  == s \in Seq(Elements(s)) /\ \A i \in DOMAIN s : CallFields \subseteq DOMAIN s[i]

\* The requests t are s with answer a to the one at i.
IsAnswered(s, t, i, a) ==
    /\ DOMAIN t = DOMAIN s /\ t[i].answer = a
    /\ \A j \in DOMAIN s :
         /\ t[j].op = s[j].op /\ t[j].slug = s[j].slug /\ t[j].value = s[j].value
         /\ t[j].live = s[j].live /\ (j # i => t[j].answer = s[j].answer)

LEMMA AnswerShaped ==
    ASSUME NEW s, ShapedCalls(s), NEW i \in DOMAIN s, NEW a, NEW t,
           t = [s EXCEPT ![i].answer = a]
    PROVE  ShapedCalls(t) /\ IsAnswered(s, t, i, a)
<1> DEFINE x == "answer"
           r == [s[i] EXCEPT ![x] = a]
<1>1. /\ s \in Seq(Elements(s)) /\ CallFields \subseteq DOMAIN s[i]
      /\ DOMAIN s = 1..Len(s) /\ Len(s) \in Nat
  BY OwnElements DEF ShapedCalls
<1>3. t = [s EXCEPT ![i] = r]
  OBVIOUS
<1> HIDE DEF x
<1>a. DOMAIN r = DOMAIN s[i] /\ \A y \in DOMAIN s[i] : r[y] = IF y = x THEN a ELSE s[i][y]
  OBVIOUS
<1> HIDE DEF r
<1>2. /\ DOMAIN r = DOMAIN s[i] /\ r.answer = a /\ r.op = s[i].op /\ r.slug = s[i].slug
      /\ r.value = s[i].value /\ r.live = s[i].live
  BY <1>1, <1>a DEF CallFields, x
<1>4. DOMAIN t = DOMAIN s /\ t[i] = r /\ \A j \in DOMAIN s : j # i => t[j] = s[j]
  BY <1>3
<1>5. t \in Seq(Elements(s) \cup {r})
  BY <1>1, <1>3
<1>6. t \in Seq(Elements(t))
  BY <1>5, OwnElements
<1>7. QED
  BY <1>1, <1>2, <1>4, <1>6 DEF ShapedCalls, IsAnswered

\* t is s with e at its end.
IsSent(s, t, e) ==
    /\ DOMAIN s = 1..Len(s) /\ Len(s) \in Nat /\ DOMAIN t = 1..(Len(s) + 1)
    /\ t[Len(s) + 1] = e /\ \A j \in DOMAIN s : t[j] = s[j]

LEMMA SentShaped ==
    ASSUME NEW s, ShapedCalls(s), NEW e, CallFields \subseteq DOMAIN e
    PROVE  ShapedCalls(Append(s, e)) /\ IsSent(s, Append(s, e), e)
<1> DEFINE t == Append(s, e)
           S == Elements(s) \cup {e}
<1>1. s \in Seq(Elements(s)) /\ \A j \in DOMAIN s : CallFields \subseteq DOMAIN s[j]
  BY DEF ShapedCalls
<1>2. s \in Seq(S) /\ e \in S
  BY <1>1
<1> HIDE DEF S
<1>3. /\ t \in Seq(S) /\ DOMAIN t = 1..(Len(s) + 1)
      /\ DOMAIN s = 1..Len(s) /\ Len(s) \in Nat
      /\ \A j \in 1..Len(s) : t[j] = s[j]
      /\ t[Len(s) + 1] = e
  BY <1>2, OneMore
<1> HIDE DEF t
<1>4. t \in Seq(Elements(t))
  BY <1>3, OwnElements
<1>5. \A j \in DOMAIN t : j \in DOMAIN s \/ j = Len(s) + 1
  BY <1>3
<1>6. \A j \in DOMAIN t : CallFields \subseteq DOMAIN t[j]
  BY <1>1, <1>3, <1>5
<1>7. QED
  BY <1>3, <1>4, <1>6 DEF ShapedCalls, IsSent, t

\* t is s without the one at i.
IsGone(s, t, i) ==
    /\ DOMAIN t = 1..(Len(s) - 1) /\ DOMAIN s = 1..Len(s) /\ Len(s) \in Nat
    /\ \A j \in DOMAIN t :
         Before(i, j) \in DOMAIN s /\ Before(i, j) # i /\ t[j] = s[Before(i, j)]
    /\ \A j \in DOMAIN s : j # i => Now(i, j) \in DOMAIN t /\ t[Now(i, j)] = s[j]

LEMMA GoneShaped ==
    ASSUME NEW s, ShapedCalls(s), NEW i \in DOMAIN s
    PROVE  ShapedCalls(Rest(s, i)) /\ IsGone(s, Rest(s, i), i)
<1> DEFINE S == Elements(s)
           r == Rest(s, i)
<1>1. s \in Seq(S)
  BY DEF ShapedCalls
<1> HIDE DEF S
<1>2. r \in Seq(S) /\ IsGone(s, r, i)
  BY <1>1, Moved, RestOrder DEF IsGone
<1> HIDE DEF r
<1>3. r \in Seq(Elements(r))
  BY <1>2, OwnElements
<1>4. \A j \in DOMAIN r : CallFields \subseteq DOMAIN r[j]
  BY <1>2 DEF IsGone, ShapedCalls
<1>5. QED
  BY <1>2, <1>3, <1>4 DEF ShapedCalls, r

\* What becomes of a truth when a request has gone, was answered or sent.
LEMMA TruthGone ==
    ASSUME NEW s, NEW t, NEW i \in DOMAIN s, IsGone(s, t, i),
           NEW L \in SUBSET DOMAIN s, NEW F \in SUBSET L,
           NEW M \in SUBSET DOMAIN t, NEW G,
           \A j \in M : Before(i, j) \in L, \A k \in F : k # i => Now(i, k) \in G,
           NEW dirty, NEW dirtyNow, NEW shown, NEW shownNow,
           dirty => dirtyNow, Truth(L, F, dirty, shown),
           \/ i \notin L /\ (shown => shownNow)
           \/ i \in L /\ (\A j \in L : ~(j < i)) /\ (i \in F => shownNow)
    PROVE  Truth(M, G, dirtyNow, shownNow)
<1>1. /\ DOMAIN t = 1..(Len(s) - 1) /\ DOMAIN s = 1..Len(s) /\ Len(s) \in Nat
      /\ i \in 1..Len(s) /\ M \subseteq 1..(Len(s) - 1) /\ F \in SUBSET (1..Len(s))
      /\ L \in SUBSET (1..Len(s))
  BY DEF IsGone
<1>2. CASE dirty
  BY <1>2 DEF Truth
<1>3. CASE Newest(L, F)
  <2>1. CASE i \notin L
    <3>1. i \notin F
      BY <2>1
    <3>2. Newest(M, G)
      BY <1>1, <1>3, <3>1, NewestStays
    <3>3. QED
      BY <3>2 DEF Truth
  <2>2. CASE (\A j \in L : ~(j < i)) /\ (i \in F => shownNow)
    <3>1. Newest(M, G) \/ (M = {} /\ i \in F)
      BY <1>1, <1>3, <2>2, NewestShown
    <3>2. QED
      BY <2>2, <3>1 DEF Truth
  <2>3. QED
    BY <2>1, <2>2
<1>4. CASE L = {} /\ shown
  <2>1. M = {} /\ shownNow
    BY <1>4
  <2>2. QED
    BY <2>1 DEF Truth
<1>5. QED
  BY <1>2, <1>3, <1>4 DEF Truth

LEMMA TruthAsked ==
    ASSUME NEW s, NEW t, NEW e, IsSent(s, t, e), NEW L \in SUBSET DOMAIN t, NEW F,
           Len(s) + 1 \in F, NEW dirty, NEW shown
    PROVE  Truth(L, F, dirty, shown)
BY DEF Truth, Newest, IsSent

LEMMA TruthKept ==
    ASSUME NEW L, NEW F, NEW M, NEW G, M \subseteq L, L \subseteq M, F \subseteq G,
           NEW dirty, NEW dirtyNow, NEW shown, NEW shownNow,
           Truth(L, F, dirty, shown),
           dirtyNow \/ ((dirty => dirtyNow) /\ (shown => shownNow))
    PROVE  Truth(M, G, dirtyNow, shownNow)
BY DEF Truth, Newest

\* The state apart from flags: every request has all fields, the tables are what the
\* model of the database says.
TablesOk ==
    /\ {"systems", "drawn"} \subseteq DOMAIN server /\ DOMAIN server.systems = Slugs
    /\ \A s \in Registered : {"contents", "secret", "roles"} \subseteq DOMAIN server.systems[s]
    /\ {"calm", "seen", "lost"} \subseteq DOMAIN hist
    /\ ShapedCalls(calls)

\* What the page names is in the table: nothing is ever removed from it.
Names(c, m) ==
    /\ c.op = "list" /\ c.answer # None => \A row \in c.answer.rows : row.slug \in Registered
    /\ c.op = "create" => c.slug \in Slugs
    /\ c.op \notin OwnOps => c.slug \in Registered /\ (c.live => c.slug = m.of)
NamesOk ==
    /\ \A row \in view.rows : row.slug \in Registered
    /\ view.modal # None => view.modal.of \in Registered
    /\ \A i \in DOMAIN calls : Names(calls[i], view.modal)

\* The rows are what the table holds, or an answer under way will put that right.
ListsIn(s)         == {i \in DOMAIN s : s[i].op = "list"}
FreshLists(s, all) == {i \in ListsIn(s) : s[i].answer = None \/ s[i].answer.rows = all}
RowsChange(c)      == c.op \in {"create", "update"} /\ c.answer \notin {None, 0}
RowsTruth(s, rows, all) ==
    Truth(ListsIn(s), FreshLists(s, all), \E i \in DOMAIN s : RowsChange(s[i]), rows = all)

\* The same of the roles that an open modal lists, whose requests are live.
RoleWrites          == {"createRole", "removeRole"}
RolesIn(s)          == {i \in DOMAIN s : s[i].op = "roles" /\ s[i].live}
FreshRoles(s, all)  == {i \in RolesIn(s) : s[i].answer = None \/ s[i].answer.roles = all}
RolesChange(c)      == c.op \in RoleWrites /\ c.live /\ c.answer \notin {None, 0}
RolesTruth(s, m, all) ==
    Truth(RolesIn(s), FreshRoles(s, all), \E i \in DOMAIN s : RolesChange(s[i]), m.roles = all)

TruthOk ==
    /\ hist.calm => RowsTruth(calls, view.rows, SystemRows)
    /\ hist.calm /\ view.modal # None =>
         /\ \A i \in DOMAIN calls : calls[i].op \in RoleWrites => calls[i].live
         /\ RolesTruth(calls, view.modal, RolesOf(view.modal.of))

\* A secret that was drawn is in an answer under way, or has been on display, or was
\* lost; and it is known whose it is.
Holds(c, n)  == c.op \in Draws /\ c.answer = n
Drawn(c)     == c.op \in Draws /\ c.answer # None /\ ~(c.op = "create" /\ c.answer = 0)
SecretsOk ==
    /\ server.drawn \in Seq(Elements(server.drawn))
    /\ \A n \in DOMAIN server.drawn :
         \/ \E i \in DOMAIN calls : Holds(calls[i], n)
         \/ [of |-> server.drawn[n], value |-> n] \in hist.seen
         \/ n \in hist.lost
    /\ \A i \in DOMAIN calls : Drawn(calls[i]) =>
         calls[i].answer \in DOMAIN server.drawn /\ server.drawn[calls[i].answer] = calls[i].slug
    /\ \A secret \in hist.seen :
         secret.value \in DOMAIN server.drawn /\ server.drawn[secret.value] = secret.of

SystemsTruthInv == SystemsInv /\ TablesOk /\ NamesOk /\ TruthOk /\ SecretsOk

-----------------------------------------------------------------------------
(* Steps that leave the tables alone *)

\* The display is as before, but for flags.
SameShown ==
    /\ view'.rows = view.rows /\ (view'.modal = None <=> view.modal = None)
    /\ view.modal # None => /\ view'.modal.of = view.modal.of
                            /\ view'.modal.roles = view.modal.roles

LEMMA SameTables ==
    ASSUME server' = server
    PROVE  /\ Registered' = Registered /\ SystemRows' = SystemRows
           /\ \A s : RolesOf(s)' = RolesOf(s)
BY DEF Registered, SystemRows, RolesOf

LEMMA ClickKeeps ==
    ASSUME SystemsTruthInv, SameShown, UNCHANGED <<calls, server, hist>>
    PROVE  TablesOk' /\ NamesOk' /\ TruthOk' /\ SecretsOk'
<1>1. TablesOk' /\ SecretsOk'
  BY SameTables DEF SystemsTruthInv, TablesOk, SecretsOk
<1>2. NamesOk'
  BY SameTables DEF SystemsTruthInv, NamesOk, Names, SameShown, SystemsInv, SystemsOk, ModalCall
<1>3. TruthOk'
  <2>1. \A s : RolesOf(s)' = RolesOf(s)
    BY SameTables
  <2>2. SystemRows' = SystemRows
    BY SameTables
  <2>3. RowsTruth(calls', view'.rows, SystemRows') <=> RowsTruth(calls, view.rows, SystemRows)
    BY <2>2 DEF SameShown
  <2>4. ASSUME view'.modal # None
        PROVE  RolesTruth(calls, view.modal, RolesOf(view.modal.of))'
                 <=> RolesTruth(calls, view.modal, RolesOf(view.modal.of))
    BY <2>4 DEF SameShown, RolesTruth, RolesOf
  <2>5. QED
    BY <2>3, <2>4 DEF TruthOk, SystemsTruthInv, SameShown
<1>4. QED
  BY <1>1, <1>2, <1>3

\* The page, or its modal, sends a request that changes something.
LEMMA WriteKeeps ==
    ASSUME SystemsTruthInv, SameShown, UNCHANGED <<server, hist>>, NEW e,
           CallFields \subseteq DOMAIN e, e.live, e.answer = None, calls' = Append(calls, e),
           \/ e.op = "create" /\ e.slug \in Slugs
           \/ /\ e.op \in {"update", "createRole", "regenerate", "removeRole"}
              /\ view.modal # None /\ e.slug = view.modal.of
    PROVE  TablesOk' /\ NamesOk' /\ TruthOk' /\ SecretsOk'
<1>1. ShapedCalls(calls)
  BY DEF SystemsTruthInv, TablesOk
<1>2. ShapedCalls(calls') /\ IsSent(calls, calls', e)
  BY <1>1, SentShaped
<1>3. /\ DOMAIN calls \subseteq DOMAIN calls' /\ \A j \in DOMAIN calls : calls'[j] = calls[j]
      /\ \A j \in DOMAIN calls' : j \in DOMAIN calls \/ calls'[j] = e
  BY <1>2 DEF IsSent
<1>4. /\ Registered' = Registered /\ SystemRows' = SystemRows
      /\ \A s : RolesOf(s)' = RolesOf(s)
  BY SameTables
<1>5. TablesOk'
  BY <1>2, <1>4 DEF SystemsTruthInv, TablesOk
<1>6. NamesOk'
  <2>1. \A j \in DOMAIN calls : calls[j].op \notin OwnOps /\ calls[j].live => view.modal # None
    BY DEF SystemsTruthInv, SystemsInv, SystemsOk, ModalCall
  <2>2. \A j \in DOMAIN calls : Names(calls[j], view.modal)'
    BY <1>3, <1>4, <2>1 DEF SystemsTruthInv, NamesOk, Names, SameShown
  <2>3. Names(e, view.modal)'
    BY <1>4 DEF SystemsTruthInv, NamesOk, Names, SameShown, OwnOps
  <2>4. \A j \in DOMAIN calls' : Names(calls[j], view.modal)'
    BY <1>3, <2>2, <2>3
  <2>5. QED
    BY <1>4, <2>4 DEF SystemsTruthInv, NamesOk, SameShown
<1>7. TruthOk'
  <2>1. /\ ListsIn(calls') = ListsIn(calls) /\ RolesIn(calls') = RolesIn(calls)
        /\ \A all : FreshLists(calls', all) = FreshLists(calls, all)
        /\ \A all : FreshRoles(calls', all) = FreshRoles(calls, all)
        /\ (\E j \in DOMAIN calls' : RowsChange(calls'[j])) <=>
             \E j \in DOMAIN calls : RowsChange(calls[j])
        /\ (\E j \in DOMAIN calls' : RolesChange(calls'[j])) <=>
             \E j \in DOMAIN calls : RolesChange(calls[j])
    BY <1>3 DEF ListsIn, RolesIn, FreshLists, FreshRoles, RowsChange, RolesChange
  <2>2. RowsTruth(calls', view'.rows, SystemRows') <=> RowsTruth(calls, view.rows, SystemRows)
    BY <1>4, <2>1 DEF SameShown, RowsTruth
  <2>3. ASSUME view'.modal # None
        PROVE  RolesTruth(calls, view.modal, RolesOf(view.modal.of))'
                 <=> RolesTruth(calls, view.modal, RolesOf(view.modal.of))
    <3>1. RolesOf(view.modal.of)' = RolesOf(view.modal.of)
      BY <2>3 DEF SameShown, RolesOf
    <3>2. view'.modal.roles = view.modal.roles
      BY <2>3 DEF SameShown
    <3>3. QED
      BY <2>1, <3>1, <3>2 DEF RolesTruth
  <2>4. (\A j \in DOMAIN calls : calls[j].op \in RoleWrites => calls[j].live)
          => \A j \in DOMAIN calls' : calls'[j].op \in RoleWrites => calls'[j].live
    BY <1>3
  <2>5. QED
    BY <2>2, <2>3, <2>4 DEF TruthOk, SystemsTruthInv, SameShown
<1>8. SecretsOk'
  BY <1>3 DEF SystemsTruthInv, SecretsOk, Holds, Drawn
<1>9. QED
  BY <1>5, <1>6, <1>7, <1>8

\* A modal opens: the newest request is the one for its roles.
LEMMA OpenKeeps ==
    ASSUME SystemsTruthInv, NEW row \in view.rows, OpenModal(row), NoneIsNoModal
    PROVE  TablesOk' /\ NamesOk' /\ TruthOk' /\ SecretsOk'
<1> DEFINE e == Call("roles", row.slug, None)
<1>1. /\ CallFields \subseteq DOMAIN e /\ e.live /\ e.answer = None /\ e.op = "roles"
      /\ e.slug = row.slug
  BY DEF Call, CallFields
<1>2. /\ calls' = Append(calls, e) /\ view.modal = None /\ view'.rows = view.rows
      /\ view'.modal.of = row.slug /\ server' = server
      /\ hist' = IF Pending(Writes) THEN Disturbed ELSE hist
  BY DEF OpenModal, Open, SystemsTruthInv, SystemsInv, SystemsOk, SystemsFields
<1> HIDE DEF e
<1>3. /\ ShapedCalls(calls) /\ ShapedCalls(calls') /\ IsSent(calls, calls', e)
      /\ {"calm", "seen", "lost"} \subseteq DOMAIN hist
  BY <1>1, <1>2, SentShaped DEF SystemsTruthInv, TablesOk
<1>4. /\ DOMAIN calls \subseteq DOMAIN calls' /\ \A j \in DOMAIN calls : calls'[j] = calls[j]
      /\ \A j \in DOMAIN calls' : j \in DOMAIN calls \/ calls'[j] = e
  BY <1>3 DEF IsSent
<1>5. /\ Registered' = Registered /\ SystemRows' = SystemRows
      /\ \A s : RolesOf(s)' = RolesOf(s)
  BY <1>2, SameTables
<1>6. /\ {"calm", "seen", "lost"} \subseteq DOMAIN hist'
      /\ hist'.seen = hist.seen /\ hist'.lost = hist.lost
      /\ hist'.calm => hist.calm /\ ~Pending(Writes)
  BY <1>2, <1>3 DEF Disturbed
<1>7. TablesOk'
  BY <1>2, <1>3, <1>5, <1>6 DEF SystemsTruthInv, TablesOk
<1>8. \A j \in DOMAIN calls : calls[j].op \notin OwnOps => ~calls[j].live
  BY <1>2 DEF SystemsTruthInv, SystemsInv, SystemsOk, ModalCall
<1>9. NamesOk'
  <2>1. \A j \in DOMAIN calls : Names(calls[j], view.modal)'
    BY <1>4, <1>5, <1>8 DEF SystemsTruthInv, NamesOk, Names
  <2>2. row.slug \in Registered
    BY DEF SystemsTruthInv, NamesOk
  <2>3. Names(e, view.modal)'
    BY <1>1, <1>2, <1>5, <2>2 DEF Names, OwnOps
  <2>4. \A j \in DOMAIN calls' : Names(calls[j], view.modal)'
    BY <1>4, <2>1, <2>3
  <2>5. QED
    BY <1>2, <1>5, <2>2, <2>4 DEF SystemsTruthInv, NamesOk
<1>10. ASSUME hist'.calm PROVE RowsTruth(calls, view.rows, SystemRows)'
  <2>1. /\ ListsIn(calls') = ListsIn(calls)
        /\ \A all : FreshLists(calls', all) = FreshLists(calls, all)
        /\ (\E j \in DOMAIN calls' : RowsChange(calls'[j])) <=>
             \E j \in DOMAIN calls : RowsChange(calls[j])
    BY <1>1, <1>4 DEF ListsIn, FreshLists, RowsChange
  <2>2. RowsTruth(calls, view.rows, SystemRows)
    BY <1>6, <1>10 DEF SystemsTruthInv, TruthOk
  <2>3. QED
    BY <1>2, <1>5, <2>1, <2>2 DEF RowsTruth
<1>11. ASSUME hist'.calm PROVE \A j \in DOMAIN calls' : calls'[j].op \notin RoleWrites
  BY <1>1, <1>4, <1>6, <1>11 DEF Pending, Writes, RoleWrites
<1>12. RolesTruth(calls, view.modal, RolesOf(view.modal.of))'
  <2> DEFINE L == RolesIn(calls')
             all == RolesOf(view.modal.of)'
             F == FreshRoles(calls', all)
             dirty == \E j \in DOMAIN calls' : RolesChange(calls'[j])
             shown == view'.modal.roles = all
  <2>1. L \in SUBSET DOMAIN calls' /\ Len(calls) + 1 \in F
    BY <1>1, <1>3 DEF RolesIn, FreshRoles, IsSent
  <2> HIDE DEF L, F, dirty, shown
  <2>2. Truth(L, F, dirty, shown)
    BY <1>3, <2>1, TruthAsked
  <2>3. QED
    BY <2>2 DEF RolesTruth, L, F, dirty, shown
<1>13. TruthOk'
  BY <1>10, <1>11, <1>12 DEF TruthOk
<1>14. SecretsOk'
  BY <1>1, <1>2, <1>4, <1>6 DEF SystemsTruthInv, SecretsOk, Holds, Drawn, Draws
<1>15. QED
  BY <1>7, <1>9, <1>13, <1>14

\* It closes: its requests go on, and its answers to nobody.
LEMMA CloseKeeps ==
    ASSUME SystemsTruthInv, CloseModal
    PROVE  TablesOk' /\ NamesOk' /\ TruthOk' /\ SecretsOk'
<1>1. /\ ShapedCalls(calls) /\ calls \in Seq(Elements(calls))
      /\ DOMAIN calls = 1..Len(calls) /\ Len(calls) \in Nat
  BY OwnElements DEF SystemsTruthInv, TablesOk, ShapedCalls
<1>2. /\ calls' = [i \in DOMAIN calls |->
                    [calls[i] EXCEPT !.live = @ /\ calls[i].op \in OwnOps]]
      /\ server' = server /\ hist' = hist
      /\ view'.rows = view.rows /\ view'.modal = None
  BY DEF CloseModal, OwnOps, SystemsTruthInv, SystemsInv, SystemsOk, SystemsFields
<1>3. ASSUME NEW i \in DOMAIN calls
      PROVE  /\ CallFields \subseteq DOMAIN calls'[i] /\ calls'[i].op = calls[i].op
             /\ calls'[i].slug = calls[i].slug /\ calls'[i].answer = calls[i].answer
             /\ calls'[i].live => calls[i].live
             /\ calls'[i].live => calls[i].op \in OwnOps
  BY <1>1, <1>2, <1>3 DEF ShapedCalls, CallFields
<1>4. DOMAIN calls' = DOMAIN calls /\ ShapedCalls(calls')
  <2> DEFINE t == calls'
  <2>1. DOMAIN t = DOMAIN calls /\ t = [i \in 1..Len(calls) |-> t[i]]
    BY <1>1, <1>2
  <2>2. \A i \in DOMAIN t : CallFields \subseteq DOMAIN t[i]
    BY <1>3, <2>1
  <2> HIDE DEF t
  <2>3. t \in Seq({t[i] : i \in 1..Len(calls)})
    BY <1>1, <2>1
  <2>4. t \in Seq(Elements(t))
    BY <2>3, OwnElements
  <2>5. QED
    BY <2>1, <2>2, <2>4 DEF ShapedCalls, t
<1>5. /\ Registered' = Registered /\ SystemRows' = SystemRows
      /\ \A s : RolesOf(s)' = RolesOf(s)
  BY <1>2, SameTables
<1>6. TablesOk'
  BY <1>2, <1>4, <1>5 DEF SystemsTruthInv, TablesOk
<1>7. NamesOk'
  <2>1. \A i \in DOMAIN calls : Names(calls[i], view.modal)'
    BY <1>3, <1>5 DEF SystemsTruthInv, NamesOk, Names
  <2>2. QED
    BY <1>2, <1>4, <1>5, <2>1 DEF SystemsTruthInv, NamesOk
<1>8. TruthOk'
  <2>1. /\ ListsIn(calls') = ListsIn(calls)
        /\ \A all : FreshLists(calls', all) = FreshLists(calls, all)
        /\ (\E j \in DOMAIN calls' : RowsChange(calls'[j])) <=>
             \E j \in DOMAIN calls : RowsChange(calls[j])
    BY <1>3, <1>4 DEF ListsIn, FreshLists, RowsChange
  <2>2. QED
    BY <1>2, <1>5, <2>1 DEF SystemsTruthInv, TruthOk, RowsTruth
<1>9. SecretsOk'
  <2>1. \A i \in DOMAIN calls : \A n : Holds(calls'[i], n) <=> Holds(calls[i], n)
    BY <1>3 DEF Holds
  <2>2. \A i \in DOMAIN calls : Drawn(calls'[i]) <=> Drawn(calls[i])
    BY <1>3 DEF Drawn
  <2>3. \A i \in DOMAIN calls :
          calls'[i].answer = calls[i].answer /\ calls'[i].slug = calls[i].slug
    BY <1>3
  <2>4. SecretsOk
    BY DEF SystemsTruthInv
  <2>5. DOMAIN calls' = DOMAIN calls /\ server' = server /\ hist' = hist
    BY <1>2, <1>4
  <2>6. QED
    BY <2>1, <2>2, <2>3, <2>4, <2>5 DEF SecretsOk
<1>10. QED
  BY <1>6, <1>7, <1>8, <1>9

\* None, a value like no other for TLC, is neither a number nor a record.
NoneIsNoValue == None \notin Nat /\ "contents" \notin DOMAIN None /\ NoneIsNoModal

\* What the answer a to request i, and the tables with it, may be.
Serves(i, a) ==
    LET c == calls[i] IN
      /\ {"systems", "drawn"} \subseteq DOMAIN server' /\ DOMAIN server'.systems = Slugs
      /\ \A s \in Slugs : server'.systems[s] # None =>
           {"contents", "secret", "roles"} \subseteq DOMAIN server'.systems[s]
      /\ Registered \subseteq Registered'
      /\ SystemRows' = SystemRows \/ (c.op \in {"create", "update"} /\ a \notin {None, 0})
      /\ \A s \in Registered : \/ server'.systems[s].roles = RolesOf(s)
                               \/ c.op \in RoleWrites /\ c.slug = s /\ a \notin {None, 0}
      /\ c.op = "list" => a.rows = SystemRows
      /\ c.op = "roles" => a.roles = RolesOf(c.slug)
      /\ \/ server'.drawn = server.drawn /\ (c.op \in Draws => c.op = "create" /\ a = 0)
         \/ /\ server'.drawn = Append(server.drawn, c.slug)
            /\ c.op \in Draws /\ a = Len(server.drawn) + 1

LEMMA ServeIs ==
    ASSUME SystemsTruthInv, NoneIsNoValue, NEW i \in DOMAIN calls, Serve(i)
    PROVE  /\ calls[i].answer = None /\ UNCHANGED <<view, hist>>
           /\ \E a : calls' = [calls EXCEPT ![i].answer = a] /\ Serves(i, a)
<1> DEFINE c == calls[i]
           table == server.systems
           n == Len(server.drawn) + 1
<1>1. /\ {"systems", "drawn"} \subseteq DOMAIN server /\ DOMAIN table = Slugs
      /\ \A s \in Slugs : table[s] # None =>
           {"contents", "secret", "roles"} \subseteq DOMAIN table[s]
      /\ Registered = {s \in Slugs : table[s] # None}
      /\ Names(c, view.modal) /\ None \notin Nat /\ 1 \notin {None, 0}
      /\ \A s : RolesOf(s) = table[s].roles
  BY DEF SystemsTruthInv, TablesOk, NamesOk, NoneIsNoValue, Registered, RolesOf
<1>2. Len(server.drawn) \in Nat /\ n \notin {None, 0}
  BY OwnElements, <1>1 DEF SystemsTruthInv, SecretsOk
\* The row of one system is another one.
<1>3. ASSUME NEW s \in Slugs, NEW r, {"contents", "secret", "roles"} \subseteq DOMAIN r,
             server'.systems = [table EXCEPT ![s] = r]
      PROVE  /\ DOMAIN server'.systems = Slugs
             /\ \A x \in Slugs : server'.systems[x] # None =>
                  {"contents", "secret", "roles"} \subseteq DOMAIN server'.systems[x]
             /\ Registered \subseteq Registered'
             /\ \A x \in Registered : x # s => server'.systems[x].roles = RolesOf(x)
             /\ s \in Registered /\ r.contents = table[s].contents => SystemRows' = SystemRows
             /\ server'.systems[s] = r
  <2>1. r # None
    BY <1>3 DEF NoneIsNoValue
  <2>2. /\ server'.systems[s] = r /\ DOMAIN server'.systems = Slugs
        /\ \A x \in Slugs : x # s => server'.systems[x] = table[x]
    BY <1>1, <1>3
  <2>3. Registered' = Registered \cup {s}
    BY <1>1, <2>1, <2>2 DEF Registered
  <2>4. ASSUME s \in Registered, r.contents = table[s].contents PROVE SystemRows' = SystemRows
    <3>1. Registered' = Registered
      BY <2>3, <2>4
    <3>2. \A x \in Registered : server'.systems[x].contents = table[x].contents
      BY <1>1, <2>2, <2>4
    <3>3. QED
      BY <3>1, <3>2 DEF SystemRows
  <2>5. QED
    BY <1>1, <1>3, <2>2, <2>3, <2>4
<1>4. ASSUME server' = server
      PROVE  /\ Registered' = Registered /\ SystemRows' = SystemRows
             /\ \A s : server'.systems[s].roles = RolesOf(s)
  BY <1>4, SameTables DEF RolesOf
<1>5. CASE ServeList(i)
  <2> DEFINE a == [rows |-> SystemRows]
  <2>1. c.op = "list" /\ c.answer = None /\ UNCHANGED <<view, server, hist>>
        /\ calls' = [calls EXCEPT ![i].answer = a]
    BY <1>5 DEF ServeList, Answered
  <2>2. Serves(i, a)
    BY <1>1, <1>4, <2>1 DEF Serves, Draws
  <2>3. QED
    BY <2>1, <2>2
<1>6. CASE ServeRoles(i)
  <2> DEFINE a == [roles |-> RolesOf(c.slug)]
  <2>1. c.op = "roles" /\ c.answer = None /\ UNCHANGED <<view, server, hist>>
        /\ calls' = [calls EXCEPT ![i].answer = a]
    BY <1>6 DEF ServeRoles, Answered
  <2>2. Serves(i, a)
    BY <1>1, <1>4, <2>1 DEF Serves, Draws
  <2>3. QED
    BY <2>1, <2>2
\* A secret is drawn for a system.
<1>7. ASSUME c.op \in Draws, c.answer = None, c.slug \in Slugs, UNCHANGED <<view, hist>>,
             NEW r, {"contents", "secret", "roles"} \subseteq DOMAIN r, DrawFor(i, r),
             c.op = "create" \/ (c.slug \in Registered /\ r = table[c.slug]),
             c.op = "create" => c.slug \notin Registered
      PROVE  /\ c.answer = None /\ UNCHANGED <<view, hist>>
             /\ \E a : calls' = [calls EXCEPT ![i].answer = a] /\ Serves(i, a)
  <2> DEFINE q == [r EXCEPT !.secret = n]
  <2>1. /\ DOMAIN server' = {"systems", "drawn"}
        /\ server'.systems = [table EXCEPT ![c.slug] = q]
        /\ server'.drawn = Append(server.drawn, c.slug)
        /\ calls' = [calls EXCEPT ![i].answer = n]
    BY <1>7 DEF DrawFor, Answered
  <2>2. DOMAIN q = DOMAIN r /\ q.contents = r.contents /\ q.roles = r.roles
    BY <1>7
  <2> HIDE DEF q
  <2>3. Serves(i, n)
    BY <1>1, <1>2, <1>3, <1>7, <2>1, <2>2 DEF Serves, Draws, RoleWrites
  <2>4. QED
    BY <1>7, <2>1, <2>3
<1>8. CASE ServeCreate(i)
  <2>1. c.op = "create" /\ c.answer = None /\ c.slug \in Slugs /\ UNCHANGED <<view, hist>>
    BY <1>1, <1>8 DEF ServeCreate, Names
  <2>2. CASE c.slug \in Registered
    <3>1. server' = server /\ calls' = [calls EXCEPT ![i].answer = 0]
      BY <1>8, <2>2 DEF ServeCreate, Answered
    <3>2. Serves(i, 0)
      BY <1>1, <1>4, <2>1, <3>1 DEF Serves
    <3>3. QED
      BY <2>1, <3>1, <3>2
  <2>3. CASE c.slug \notin Registered
    <3> DEFINE r == [contents |-> c.value, secret |-> 0, roles |-> {}]
    <3>1. DrawFor(i, r) /\ c.op \in Draws /\ {"contents", "secret", "roles"} \subseteq DOMAIN r
      BY <1>8, <2>1, <2>3 DEF ServeCreate, Draws
    <3> HIDE DEF r
    <3>2. QED
      BY <1>7, <2>1, <2>3, <3>1
  <2>4. QED
    BY <2>2, <2>3
<1>9. CASE ServeRegenerate(i)
  <2>1. /\ c.op = "regenerate" /\ c.answer = None /\ UNCHANGED <<view, hist>>
        /\ DrawFor(i, table[c.slug])
    BY <1>9 DEF ServeRegenerate
  <2>2. c.op \in Draws /\ c.slug \in Registered /\ c.slug \in Slugs
    BY <1>1, <2>1 DEF Names, OwnOps, Draws
  <2>3. {"contents", "secret", "roles"} \subseteq DOMAIN table[c.slug]
    BY <1>1, <2>2
  <2>4. QED
    BY <1>7, <2>1, <2>2, <2>3
<1>10. CASE ServeUpdate(i)
  <2> DEFINE q == [table[c.slug] EXCEPT !.contents = c.value]
  <2>1. /\ c.op = "update" /\ c.answer = None /\ UNCHANGED <<view, hist>>
        /\ calls' = [calls EXCEPT ![i].answer = 1]
        /\ server' = [server EXCEPT !.systems[c.slug].contents = c.value]
    BY <1>10 DEF ServeUpdate, Answered
  <2>2. c.slug \in Registered /\ c.slug \in Slugs
    BY <1>1, <2>1 DEF Names, OwnOps
  <2>3. /\ DOMAIN server' = DOMAIN server /\ server'.drawn = server.drawn
        /\ server'.systems = [table EXCEPT ![c.slug] = q]
    BY <1>1, <2>1
  <2>4. DOMAIN q = DOMAIN table[c.slug] /\ q.roles = table[c.slug].roles
    BY <1>1, <2>2
  <2> HIDE DEF q
  <2>5. Serves(i, 1)
    BY <1>1, <1>3, <2>1, <2>2, <2>3, <2>4 DEF Serves, Draws
  <2>6. QED
    BY <2>1, <2>5
\* A role more, or one less.
<1>11. ASSUME c.op \in RoleWrites, c.answer = None, UNCHANGED <<view, hist>>,
              NEW roles, NEW a, calls' = [calls EXCEPT ![i].answer = a],
              server' = [server EXCEPT !.systems[c.slug].roles = roles],
              roles = table[c.slug].roles \/ a \notin {None, 0}
       PROVE  /\ c.answer = None /\ UNCHANGED <<view, hist>>
              /\ \E x : calls' = [calls EXCEPT ![i].answer = x] /\ Serves(i, x)
  <2> DEFINE q == [table[c.slug] EXCEPT !.roles = roles]
  <2>1. c.slug \in Registered /\ c.slug \in Slugs
    BY <1>1, <1>11 DEF Names, OwnOps, RoleWrites
  <2>2. /\ DOMAIN server' = DOMAIN server /\ server'.drawn = server.drawn
        /\ server'.systems = [table EXCEPT ![c.slug] = q]
    BY <1>1, <1>11
  <2>3. DOMAIN q = DOMAIN table[c.slug] /\ q.roles = roles /\ q.contents = table[c.slug].contents
    BY <1>1, <2>1
  <2> HIDE DEF q
  <2>4. Serves(i, a)
    BY <1>1, <1>3, <1>11, <2>1, <2>2, <2>3 DEF Serves, Draws, RoleWrites
  <2>5. QED
    BY <1>11, <2>4
<1>12. CASE ServeCreateRole(i)
  <2>1. /\ c.op = "createRole" /\ c.answer = None /\ UNCHANGED <<view, hist>>
        /\ server' = [server EXCEPT !.systems[c.slug].roles = @ \cup {c.value}]
        /\ calls' = [calls EXCEPT ![i].answer = IF c.value \in RolesOf(c.slug) THEN 0 ELSE 1]
    BY <1>12 DEF ServeCreateRole, Answered
  <2> DEFINE roles == table[c.slug].roles \cup {c.value}
             a == IF c.value \in RolesOf(c.slug) THEN 0 ELSE 1
  <2>2. roles = table[c.slug].roles \/ a \notin {None, 0}
    BY <1>1
  <2>3. server' = [server EXCEPT !.systems[c.slug].roles = roles]
    BY <2>1
  <2>4. c.op \in RoleWrites /\ calls' = [calls EXCEPT ![i].answer = a]
    BY <2>1 DEF RoleWrites
  <2> HIDE DEF roles, a
  <2>5. QED
    BY <1>11, <2>1, <2>2, <2>3, <2>4
<1>13. CASE ServeRemoveRole(i)
  <2>1. /\ c.op = "removeRole" /\ c.answer = None /\ UNCHANGED <<view, hist>>
    BY <1>13 DEF ServeRemoveRole
  <2>2. CASE Answered(i, 0) /\ UNCHANGED server
    <3>1. calls' = [calls EXCEPT ![i].answer = 0]
      BY <2>2 DEF Answered
    <3>2. Serves(i, 0)
      BY <1>1, <1>4, <2>1, <2>2 DEF Serves, Draws
    <3>3. QED
      BY <2>1, <3>1, <3>2
  <2>3. CASE /\ server' = [server EXCEPT !.systems[c.slug].roles = @ \ {c.value}]
             /\ Answered(i, 1)
    <3> DEFINE roles == table[c.slug].roles \ {c.value}
    <3>1. server' = [server EXCEPT !.systems[c.slug].roles = roles]
      BY <2>3
    <3>2. c.op \in RoleWrites /\ calls' = [calls EXCEPT ![i].answer = 1]
      BY <2>1, <2>3 DEF RoleWrites, Answered
    <3> HIDE DEF roles
    <3>3. QED
      BY <1>1, <1>11, <2>1, <3>1, <3>2
  <2>4. QED
    BY <1>13, <2>2, <2>3 DEF ServeRemoveRole
<1>14. QED
  BY <1>5, <1>6, <1>8, <1>9, <1>10, <1>12, <1>13 DEF Serve

LEMMA ServeKeeps ==
    ASSUME SystemsTruthInv, NoneIsNoValue, NEW i \in DOMAIN calls, Serve(i)
    PROVE  TablesOk' /\ NamesOk' /\ TruthOk' /\ SecretsOk'
<1>1. PICK a : /\ calls[i].answer = None /\ UNCHANGED <<view, hist>>
               /\ calls' = [calls EXCEPT ![i].answer = a] /\ Serves(i, a)
  BY ServeIs
<1>2. ShapedCalls(calls) /\ ShapedCalls(calls') /\ IsAnswered(calls, calls', i, a)
  BY <1>1, AnswerShaped DEF SystemsTruthInv, TablesOk
<1>3. /\ DOMAIN calls' = DOMAIN calls /\ calls'[i].answer = a
      /\ \A j \in DOMAIN calls :
           /\ calls'[j].op = calls[j].op /\ calls'[j].slug = calls[j].slug
           /\ calls'[j].live = calls[j].live /\ (j # i => calls'[j].answer = calls[j].answer)
  BY <1>2 DEF IsAnswered
<1>4. /\ Registered \subseteq Registered'
      /\ SystemRows' = SystemRows
           \/ (calls[i].op \in {"create", "update"} /\ a \notin {None, 0})
      /\ \A s \in Registered : \/ server'.systems[s].roles = RolesOf(s)
                               \/ calls[i].op \in RoleWrites /\ calls[i].slug = s /\ a \notin {None, 0}
      /\ calls[i].op = "list" => a.rows = SystemRows
      /\ calls[i].op = "roles" => a.roles = RolesOf(calls[i].slug)
  BY <1>1 DEF Serves
<1>5. TablesOk'
  BY <1>1, <1>2 DEF SystemsTruthInv, TablesOk, Serves, Registered
<1>6. NamesOk'
  <2>1. \A row \in SystemRows : row.slug \in Registered
    BY DEF SystemRows
  <2>2. \A j \in DOMAIN calls : Names(calls[j], view.modal)'
    BY <1>1, <1>3, <1>4, <2>1 DEF SystemsTruthInv, NamesOk, Names
  <2>3. QED
    BY <1>1, <1>3, <1>4, <2>2 DEF SystemsTruthInv, NamesOk
<1>7. ASSUME hist'.calm PROVE RowsTruth(calls, view.rows, SystemRows)'
  <2> DEFINE all == SystemRows
             now == SystemRows'
             dirty == \E j \in DOMAIN calls : RowsChange(calls[j])
             dirtyNow == \E j \in DOMAIN calls' : RowsChange(calls'[j])
             shown == view.rows = all
             shownNow == view.rows = now
  <2>1. Truth(ListsIn(calls), FreshLists(calls, all), dirty, shown)
    BY <1>1, <1>7 DEF SystemsTruthInv, TruthOk, RowsTruth
  <2>2. ListsIn(calls') = ListsIn(calls)
    BY <1>3 DEF ListsIn
  <2>3. CASE now # all
    <3>1. dirtyNow
      BY <1>3, <1>4, <2>3 DEF RowsChange
    <3>2. QED
      BY <1>1, <3>1 DEF RowsTruth, Truth
  <2>4. CASE now = all
    <3>1. FreshLists(calls, all) \subseteq FreshLists(calls', now)
      BY <1>3, <1>4, <2>4 DEF FreshLists, ListsIn
    <3>2. dirty => dirtyNow
      BY <1>1, <1>3 DEF RowsChange
    <3>3. shown => shownNow
      BY <2>4
    <3> HIDE DEF dirty, dirtyNow, shown, shownNow
    <3>4. Truth(ListsIn(calls'), FreshLists(calls', now), dirtyNow, shownNow)
      BY <2>1, <2>2, <3>1, <3>2, <3>3, TruthKept
    <3>5. QED
      BY <1>1, <3>4 DEF RowsTruth, dirtyNow, shownNow
  <2>5. QED
    BY <2>3, <2>4
<1>8. ASSUME hist'.calm, view'.modal # None
      PROVE  /\ \A j \in DOMAIN calls' : calls'[j].op \in RoleWrites => calls'[j].live
             /\ RolesTruth(calls, view.modal, RolesOf(view.modal.of))'
  <2> DEFINE all == RolesOf(view.modal.of)
             now == server'.systems[view.modal.of].roles
             dirty == \E j \in DOMAIN calls : RolesChange(calls[j])
             dirtyNow == \E j \in DOMAIN calls' : RolesChange(calls'[j])
             shown == view.modal.roles = all
             shownNow == view.modal.roles = now
  <2>1. /\ Truth(RolesIn(calls), FreshRoles(calls, all), dirty, shown)
        /\ \A j \in DOMAIN calls : calls[j].op \in RoleWrites => calls[j].live
        /\ view.modal.of \in Registered
        /\ RolesOf(view.modal.of)' = now
    BY <1>1, <1>8 DEF SystemsTruthInv, TruthOk, RolesTruth, NamesOk, RolesOf
  <2>2. /\ RolesIn(calls') = RolesIn(calls)
        /\ \A j \in DOMAIN calls' : calls'[j].op \in RoleWrites => calls'[j].live
    BY <1>3, <2>1 DEF RolesIn
  <2>3. CASE now # all
    <3>1. calls[i].op \in RoleWrites /\ a \notin {None, 0}
      BY <1>4, <2>1, <2>3
    <3>2. dirtyNow
      BY <1>3, <2>1, <3>1 DEF RolesChange
    <3>3. RolesTruth(calls, view.modal, RolesOf(view.modal.of))'
      BY <3>2 DEF RolesTruth, Truth
    <3>4. QED
      BY <2>2, <3>3
  <2>4. CASE now = all
    <3>1. \A j \in RolesIn(calls) : calls[j].slug = view.modal.of
      BY DEF RolesIn, SystemsTruthInv, NamesOk, Names, OwnOps
    <3>2. FreshRoles(calls, all) \subseteq FreshRoles(calls', now)
      BY <1>3, <1>4, <2>4, <3>1 DEF FreshRoles, RolesIn
    <3>3. dirty => dirtyNow
      BY <1>1, <1>3 DEF RolesChange
    <3>4. shown => shownNow
      BY <2>4
    <3> HIDE DEF dirty, dirtyNow, shown, shownNow
    <3>5. Truth(RolesIn(calls'), FreshRoles(calls', now), dirtyNow, shownNow)
      BY <2>1, <2>2, <3>2, <3>3, <3>4, TruthKept
    <3>6. RolesTruth(calls, view.modal, RolesOf(view.modal.of))'
      BY <1>1, <2>1, <3>5 DEF RolesTruth, dirtyNow, shownNow
    <3>7. QED
      BY <2>2, <3>6
  <2>5. QED
    BY <2>3, <2>4
<1>9. TruthOk'
  BY <1>7, <1>8 DEF TruthOk
<1>10. SecretsOk'
  <2> DEFINE drawn == server.drawn
             now == server'.drawn
             c == calls[i]
             n == Len(drawn) + 1
  <2>1. /\ drawn \in Seq(Elements(drawn)) /\ DOMAIN drawn = 1..Len(drawn) /\ Len(drawn) \in Nat
        /\ SecretsOk
    BY OwnElements DEF SystemsTruthInv, SecretsOk
  <2>2. /\ \A j \in DOMAIN calls : \A x : j # i => (Holds(calls'[j], x) <=> Holds(calls[j], x))
        /\ \A j \in DOMAIN calls : j # i => (Drawn(calls'[j]) <=> Drawn(calls[j]))
        /\ c.answer = None
        /\ Drawn(calls'[i]) => c.op \in Draws /\ a # None /\ ~(c.op = "create" /\ a = 0)
    BY <1>1, <1>3 DEF Holds, Drawn
  <2>3. \A x \in DOMAIN drawn : ~Holds(c, x)
    BY <2>1, <2>2 DEF Holds, NoneIsNoValue
  <2>4. CASE now = drawn /\ (c.op \in Draws => c.op = "create" /\ a = 0)
    <3>1. ~Drawn(calls'[i])
      BY <2>2, <2>4
    <3>2. QED
      BY <1>1, <1>3, <2>1, <2>2, <2>3, <2>4, <3>1 DEF SecretsOk
  <2>5. CASE now = Append(drawn, c.slug) /\ c.op \in Draws /\ a = n
    <3>1. /\ now \in Seq(Elements(drawn) \cup {c.slug}) /\ DOMAIN now = 1..n
          /\ now[n] = c.slug /\ \A x \in DOMAIN drawn : now[x] = drawn[x]
      BY <2>1, <2>5
    <3>2. now \in Seq(Elements(now))
      BY <3>1, OwnElements
    <3>3. Holds(calls'[i], n) /\ i \in DOMAIN calls' /\ n \in DOMAIN now
      BY <1>3, <2>1, <2>5, <3>1 DEF Holds
    <3>4. \A x \in DOMAIN now : x \in DOMAIN drawn \/ x = n
      BY <2>1, <3>1
    <3>5. \A x \in DOMAIN drawn : x \in DOMAIN now
      BY <2>1, <3>1
    <3> HIDE DEF now, n
    <3>6. ASSUME NEW x \in DOMAIN now
          PROVE  \/ \E j \in DOMAIN calls' : Holds(calls'[j], x)
                 \/ [of |-> now[x], value |-> x] \in hist.seen
                 \/ x \in hist.lost
      BY <1>3, <2>1, <2>2, <2>3, <3>1, <3>3, <3>4 DEF SecretsOk, drawn
    <3>7. ASSUME NEW j \in DOMAIN calls', Drawn(calls'[j])
          PROVE  calls'[j].answer \in DOMAIN now /\ now[calls'[j].answer] = calls'[j].slug
      <4>1. CASE j = i
        BY <1>3, <2>5, <3>1, <3>3, <4>1
      <4>2. CASE j # i
        BY <1>3, <2>1, <2>2, <3>1, <3>5, <3>7, <4>2 DEF SecretsOk, drawn
      <4>3. QED
        BY <4>1, <4>2
    <3>8. \A secret \in hist.seen :
            secret.value \in DOMAIN now /\ now[secret.value] = secret.of
      BY <2>1, <3>1, <3>5 DEF SecretsOk, drawn
    <3>9. hist' = hist
      BY <1>1
    <3>10. QED
      BY <3>2, <3>6, <3>7, <3>8, <3>9 DEF SecretsOk, now
  <2>6. QED
    BY <1>1, <2>4, <2>5 DEF Serves
<1>11. QED
  BY <1>5, <1>6, <1>9, <1>10

\* The rows, when a request has gone, another one was sent, or the page asks again.
LEMMA RowsGone ==
    ASSUME NEW s, ShapedCalls(s), NEW i \in DOMAIN s, NEW rows, NEW now, NEW all,
           RowsTruth(s, rows, all), ~RowsChange(s[i]),
           \/ s[i].op # "list" /\ now = rows
           \/ /\ s[i].op = "list" /\ s[i].answer # None /\ now = s[i].answer.rows
              /\ \A j \in 1..(i - 1) : s[j].op # "list"
    PROVE  RowsTruth(Rest(s, i), now, all)
<1> DEFINE t == Rest(s, i)
           L == ListsIn(s)
           F == FreshLists(s, all)
           M == ListsIn(t)
           G == FreshLists(t, all)
           dirty == \E j \in DOMAIN s : RowsChange(s[j])
           dirtyNow == \E j \in DOMAIN t : RowsChange(t[j])
           shown == rows = all
           shownNow == now = all
<1>1. IsGone(s, t, i)
  BY GoneShaped
<1> HIDE DEF t
<1>2. \A j \in DOMAIN t : t[j] = s[Before(i, j)] /\ Before(i, j) \in DOMAIN s
  BY <1>1 DEF IsGone
<1>3. \A j \in DOMAIN s : j # i => Now(i, j) \in DOMAIN t /\ t[Now(i, j)] = s[j]
  BY <1>1 DEF IsGone
<1>4. /\ L \in SUBSET DOMAIN s /\ F \in SUBSET L /\ M \in SUBSET DOMAIN t
      /\ \A j \in M : Before(i, j) \in L
      /\ \A k \in F : k # i => Now(i, k) \in G
  BY <1>2, <1>3 DEF ListsIn, FreshLists
<1>5. dirty => dirtyNow
  BY <1>3
<1>6. Truth(L, F, dirty, shown)
  BY DEF RowsTruth
<1>7. \/ i \notin L /\ (shown => shownNow)
      \/ i \in L /\ (\A j \in L : ~(j < i)) /\ (i \in F => shownNow)
  <2>1. CASE s[i].op # "list" /\ now = rows
    BY <2>1 DEF ListsIn
  <2>2. CASE /\ s[i].op = "list" /\ s[i].answer # None /\ now = s[i].answer.rows
             /\ \A j \in 1..(i - 1) : s[j].op # "list"
    <3>1. DOMAIN s = 1..Len(s) /\ Len(s) \in Nat
      BY <1>1 DEF IsGone
    <3>2. \A j \in L : ~(j < i)
      BY <2>2, <3>1 DEF ListsIn
    <3>3. QED
      BY <2>2, <3>2 DEF ListsIn, FreshLists
  <2>3. QED
    BY <2>1, <2>2
<1> HIDE DEF L, F, M, G, dirty, dirtyNow, shown, shownNow
<1>8. Truth(M, G, dirtyNow, shownNow)
  BY <1>1, <1>4, <1>5, <1>6, <1>7, TruthGone
<1>9. QED
  BY <1>8 DEF RowsTruth, M, G, dirtyNow, shownNow, t

LEMMA RowsMore ==
    ASSUME NEW s, ShapedCalls(s), NEW e, CallFields \subseteq DOMAIN e, e.op = "roles",
           NEW rows, NEW all, RowsTruth(s, rows, all)
    PROVE  RowsTruth(Append(s, e), rows, all)
<1> DEFINE t == Append(s, e)
<1>1. IsSent(s, t, e)
  BY SentShaped
<1> HIDE DEF t
<1>2. /\ DOMAIN s \subseteq DOMAIN t /\ \A j \in DOMAIN s : t[j] = s[j]
      /\ \A j \in DOMAIN t : j \in DOMAIN s \/ t[j] = e
  BY <1>1 DEF IsSent
<1>3. /\ ListsIn(t) = ListsIn(s) /\ FreshLists(t, all) = FreshLists(s, all)
      /\ (\E j \in DOMAIN t : RowsChange(t[j])) <=> \E j \in DOMAIN s : RowsChange(s[j])
  BY <1>2 DEF ListsIn, FreshLists, RowsChange
<1>4. QED
  BY <1>3 DEF RowsTruth, t

LEMMA RowsAsked ==
    ASSUME NEW s, ShapedCalls(s), NEW e, CallFields \subseteq DOMAIN e, e.op = "list",
           e.answer = None, NEW rows, NEW all
    PROVE  RowsTruth(Append(s, e), rows, all)
<1> DEFINE t == Append(s, e)
           L == ListsIn(t)
           F == FreshLists(t, all)
           dirty == \E j \in DOMAIN t : RowsChange(t[j])
           shown == rows = all
<1>1. IsSent(s, t, e)
  BY SentShaped
<1> HIDE DEF t
<1>2. L \in SUBSET DOMAIN t /\ Len(s) + 1 \in F
  BY <1>1 DEF ListsIn, FreshLists, IsSent
<1> HIDE DEF L, F, dirty, shown
<1>3. Truth(L, F, dirty, shown)
  BY <1>1, <1>2, TruthAsked
<1>4. QED
  BY <1>3 DEF RowsTruth, L, F, dirty, shown, t

\* The same for the roles in the modal.
LEMMA RolesGone ==
    ASSUME NEW s, ShapedCalls(s), NEW i \in DOMAIN s, NEW m, NEW n, NEW all,
           RolesTruth(s, m, all), ~RolesChange(s[i]),
           \/ ~(s[i].op = "roles" /\ s[i].live) /\ n.roles = m.roles
           \/ /\ s[i].op = "roles" /\ s[i].live /\ s[i].answer # None
              /\ n.roles = s[i].answer.roles
              /\ \A j \in 1..(i - 1) : s[j].op # "roles"
    PROVE  RolesTruth(Rest(s, i), n, all)
<1> DEFINE t == Rest(s, i)
           L == RolesIn(s)
           F == FreshRoles(s, all)
           M == RolesIn(t)
           G == FreshRoles(t, all)
           dirty == \E j \in DOMAIN s : RolesChange(s[j])
           dirtyNow == \E j \in DOMAIN t : RolesChange(t[j])
           shown == m.roles = all
           shownNow == n.roles = all
<1>1. IsGone(s, t, i)
  BY GoneShaped
<1> HIDE DEF t
<1>2. \A j \in DOMAIN t : t[j] = s[Before(i, j)] /\ Before(i, j) \in DOMAIN s
  BY <1>1 DEF IsGone
<1>3. \A j \in DOMAIN s : j # i => Now(i, j) \in DOMAIN t /\ t[Now(i, j)] = s[j]
  BY <1>1 DEF IsGone
<1>4. /\ L \in SUBSET DOMAIN s /\ F \in SUBSET L /\ M \in SUBSET DOMAIN t
      /\ \A j \in M : Before(i, j) \in L
      /\ \A k \in F : k # i => Now(i, k) \in G
  BY <1>2, <1>3 DEF RolesIn, FreshRoles
<1>5. dirty => dirtyNow
  BY <1>3
<1>6. Truth(L, F, dirty, shown)
  BY DEF RolesTruth
<1>7. \/ i \notin L /\ (shown => shownNow)
      \/ i \in L /\ (\A j \in L : ~(j < i)) /\ (i \in F => shownNow)
  <2>1. CASE ~(s[i].op = "roles" /\ s[i].live) /\ n.roles = m.roles
    BY <2>1 DEF RolesIn
  <2>2. CASE /\ s[i].op = "roles" /\ s[i].live /\ s[i].answer # None
             /\ n.roles = s[i].answer.roles
             /\ \A j \in 1..(i - 1) : s[j].op # "roles"
    <3>1. DOMAIN s = 1..Len(s) /\ Len(s) \in Nat
      BY <1>1 DEF IsGone
    <3>2. \A j \in L : ~(j < i)
      BY <2>2, <3>1 DEF RolesIn
    <3>3. QED
      BY <2>2, <3>2 DEF RolesIn, FreshRoles
  <2>3. QED
    BY <2>1, <2>2
<1> HIDE DEF L, F, M, G, dirty, dirtyNow, shown, shownNow
<1>8. Truth(M, G, dirtyNow, shownNow)
  BY <1>1, <1>4, <1>5, <1>6, <1>7, TruthGone
<1>9. QED
  BY <1>8 DEF RolesTruth, M, G, dirtyNow, shownNow, t

LEMMA RolesMore ==
    ASSUME NEW s, ShapedCalls(s), NEW e, CallFields \subseteq DOMAIN e, e.op = "list",
           NEW m, NEW all, RolesTruth(s, m, all)
    PROVE  RolesTruth(Append(s, e), m, all)
<1> DEFINE t == Append(s, e)
<1>1. IsSent(s, t, e)
  BY SentShaped
<1> HIDE DEF t
<1>2. /\ DOMAIN s \subseteq DOMAIN t /\ \A j \in DOMAIN s : t[j] = s[j]
      /\ \A j \in DOMAIN t : j \in DOMAIN s \/ t[j] = e
  BY <1>1 DEF IsSent
<1>3. /\ RolesIn(t) = RolesIn(s) /\ FreshRoles(t, all) = FreshRoles(s, all)
      /\ (\E j \in DOMAIN t : RolesChange(t[j])) <=> \E j \in DOMAIN s : RolesChange(s[j])
  BY <1>2 DEF RolesIn, FreshRoles, RolesChange, RoleWrites
<1>4. QED
  BY <1>3 DEF RolesTruth, t

LEMMA RolesAsked ==
    ASSUME NEW s, ShapedCalls(s), NEW e, CallFields \subseteq DOMAIN e, e.op = "roles", e.live,
           e.answer = None, NEW m, NEW all
    PROVE  RolesTruth(Append(s, e), m, all)
<1> DEFINE t == Append(s, e)
           L == RolesIn(t)
           F == FreshRoles(t, all)
           dirty == \E j \in DOMAIN t : RolesChange(t[j])
           shown == m.roles = all
<1>1. IsSent(s, t, e)
  BY SentShaped
<1> HIDE DEF t
<1>2. L \in SUBSET DOMAIN t /\ Len(s) + 1 \in F
  BY <1>1 DEF RolesIn, FreshRoles, IsSent
<1> HIDE DEF L, F, dirty, shown
<1>3. Truth(L, F, dirty, shown)
  BY <1>1, <1>2, TruthAsked
<1>4. QED
  BY <1>3 DEF RolesTruth, L, F, dirty, shown, t

\* What follows an answer: nothing, or a request for the list or for the roles.
Follows(i, e) ==
    \/ calls' = Rest(calls, i)
    \/ /\ calls' = Append(Rest(calls, i), e)
       /\ CallFields \subseteq DOMAIN e /\ e.answer = None
       /\ \/ e.op = "list"
          \/ e.op = "roles" /\ e.live /\ view.modal # None /\ e.slug = view.modal.of

LEMMA Followed ==
    ASSUME ShapedCalls(calls), NEW i \in DOMAIN calls, NEW e, Follows(i, e)
    PROVE  /\ ShapedCalls(calls') /\ ShapedCalls(Rest(calls, i))
           /\ \A j \in DOMAIN calls' :
                \/ \E k \in DOMAIN calls : calls'[j] = calls[k]
                \/ /\ calls'[j] = e /\ e.answer = None
                   /\ \/ e.op = "list"
                      \/ /\ e.op = "roles" /\ e.live
                         /\ view.modal # None /\ e.slug = view.modal.of
           /\ \A k \in DOMAIN calls : k # i => \E j \in DOMAIN calls' : calls'[j] = calls[k]
<1> DEFINE r == Rest(calls, i)
<1>1. ShapedCalls(r) /\ IsGone(calls, r, i)
  BY GoneShaped
<1>2. /\ \A j \in DOMAIN r : \E k \in DOMAIN calls : r[j] = calls[k]
      /\ \A k \in DOMAIN calls : k # i => \E j \in DOMAIN r : r[j] = calls[k]
  BY <1>1 DEF IsGone
<1>3. calls' = r \/ (calls' = Append(r, e) /\ CallFields \subseteq DOMAIN e)
  BY DEF Follows
<1> HIDE DEF r
<1>4. CASE calls' = r
  BY <1>1, <1>2, <1>4 DEF r
<1>5. CASE calls' = Append(r, e) /\ CallFields \subseteq DOMAIN e /\ calls' # r
  <2>1. ShapedCalls(calls') /\ IsSent(r, calls', e)
    BY <1>1, <1>5, SentShaped
  <2>2. /\ DOMAIN r \subseteq DOMAIN calls' /\ \A j \in DOMAIN r : calls'[j] = r[j]
        /\ \A j \in DOMAIN calls' : j \in DOMAIN r \/ calls'[j] = e
    BY <2>1 DEF IsSent
  <2>3. /\ e.answer = None
        /\ \/ e.op = "list"
           \/ e.op = "roles" /\ e.live /\ view.modal # None /\ e.slug = view.modal.of
    BY <1>5 DEF Follows, r
  <2>4. QED
    BY <1>1, <1>2, <2>1, <2>2, <2>3 DEF r
<1>6. QED
  BY <1>3, <1>4, <1>5

\* The request at i has an answer, or is given up; what it drew is seen, or lost.
LEMMA LeaveKeeps ==
    ASSUME SystemsTruthInv, NoneIsNoValue, NEW i \in DOMAIN calls, NEW e, Follows(i, e),
           server' = server,
           \/ view'.rows = view.rows
           \/ /\ calls[i].op = "list" /\ calls[i].answer # None
              /\ view'.rows = calls[i].answer.rows,
           view'.modal = None <=> view.modal = None,
           view.modal # None => view'.modal.of = view.modal.of,
           {"calm", "seen", "lost"} \subseteq DOMAIN hist',
           hist.seen \subseteq hist'.seen, hist.lost \subseteq hist'.lost,
           \A x \in hist'.seen : x \in hist.seen \/ (x = Reveal(i) /\ Drawn(calls[i])),
           Drawn(calls[i]) => Reveal(i) \in hist'.seen \/ calls[i].answer \in hist'.lost
    PROVE  TablesOk' /\ NamesOk' /\ SecretsOk'
<1>1. /\ ShapedCalls(calls')
      /\ \A j \in DOMAIN calls' :
           \/ \E k \in DOMAIN calls : calls'[j] = calls[k]
           \/ /\ calls'[j] = e /\ e.answer = None
              /\ \/ e.op = "list"
                 \/ e.op = "roles" /\ e.live /\ view.modal # None /\ e.slug = view.modal.of
      /\ \A k \in DOMAIN calls : k # i => \E j \in DOMAIN calls' : calls'[j] = calls[k]
  BY Followed DEF SystemsTruthInv, TablesOk
<1>2. /\ Registered' = Registered /\ SystemRows' = SystemRows
      /\ \A s : RolesOf(s)' = RolesOf(s)
  BY SameTables
<1>3. TablesOk'
  BY <1>1, <1>2 DEF SystemsTruthInv, TablesOk
<1>4. NamesOk'
  <2>1. \A k \in DOMAIN calls : calls[k].op \notin OwnOps /\ calls[k].live => view.modal # None
    BY DEF SystemsTruthInv, SystemsInv, SystemsOk, ModalCall
  <2>2. /\ \A row \in view.rows : row.slug \in Registered
        /\ view.modal # None => view.modal.of \in Registered
        /\ \A k \in DOMAIN calls : Names(calls[k], view.modal)
    BY DEF SystemsTruthInv, NamesOk
  <2>3. \A row \in view'.rows : row.slug \in Registered
    BY <2>2 DEF Names
  <2>4. ASSUME NEW j \in DOMAIN calls' PROVE Names(calls[j], view.modal)'
    <3>1. ASSUME NEW k \in DOMAIN calls, calls'[j] = calls[k] PROVE Names(calls[j], view.modal)'
      BY <1>2, <2>1, <2>2, <3>1 DEF Names
    <3>2. ASSUME calls'[j] = e, e.answer = None,
                 \/ e.op = "list"
                 \/ e.op = "roles" /\ e.live /\ view.modal # None /\ e.slug = view.modal.of
          PROVE  Names(calls[j], view.modal)'
      BY <1>2, <2>2, <3>2 DEF Names, OwnOps
    <3>3. QED
      BY <1>1, <3>1, <3>2
  <2>5. QED
    BY <1>2, <2>2, <2>3, <2>4 DEF NamesOk
<1>5. SecretsOk'
  <2>1. SecretsOk /\ DOMAIN server.drawn = 1..Len(server.drawn) /\ Len(server.drawn) \in Nat
    BY OwnElements DEF SystemsTruthInv, SecretsOk
  <2>2. ASSUME NEW n \in DOMAIN server.drawn, Holds(calls[i], n)
        PROVE  [of |-> server.drawn[n], value |-> n] \in hist'.seen \/ n \in hist'.lost
    <3>1. Drawn(calls[i]) /\ calls[i].answer = n
      BY <2>1, <2>2 DEF Holds, Drawn, NoneIsNoValue
    <3>2. Reveal(i) = [of |-> server.drawn[n], value |-> n]
      BY <2>1, <3>1 DEF SecretsOk, Reveal
    <3>3. QED
      BY <3>1, <3>2
  <2>3. ASSUME NEW n \in DOMAIN server.drawn
        PROVE  \/ \E j \in DOMAIN calls' : Holds(calls'[j], n)
               \/ [of |-> server.drawn[n], value |-> n] \in hist'.seen
               \/ n \in hist'.lost
    <3>1. ASSUME NEW k \in DOMAIN calls, Holds(calls[k], n), k # i
          PROVE  \E j \in DOMAIN calls' : Holds(calls'[j], n)
      BY <1>1, <3>1
    <3>2. QED
      BY <2>1, <2>2, <3>1 DEF SecretsOk
  <2>4. ASSUME NEW j \in DOMAIN calls', Drawn(calls'[j])
        PROVE  /\ calls'[j].answer \in DOMAIN server.drawn
               /\ server.drawn[calls'[j].answer] = calls'[j].slug
    <3>1. PICK k \in DOMAIN calls : calls'[j] = calls[k]
      BY <1>1, <2>4 DEF Drawn
    <3>2. QED
      BY <2>1, <2>4, <3>1 DEF SecretsOk
  <2>5. \A secret \in hist'.seen :
          secret.value \in DOMAIN server.drawn /\ server.drawn[secret.value] = secret.of
    BY <2>1 DEF SecretsOk, Reveal
  <2>6. QED
    BY <2>1, <2>3, <2>4, <2>5 DEF SecretsOk
<1>6. QED
  BY <1>3, <1>4, <1>5

LEMMA SettleKeeps ==
    ASSUME SystemsTruthInv, NoneIsNoValue, NEW i \in DOMAIN calls, Settle(i)
    PROVE  TablesOk' /\ NamesOk' /\ TruthOk' /\ SecretsOk'
<1> DEFINE c == calls[i]
           rest == Rest(calls, i)
           truth == view.modal # None =>
                      /\ \A j \in DOMAIN calls : calls[j].op \in RoleWrites => calls[j].live
                      /\ RolesTruth(calls, view.modal, RolesOf(view.modal.of))
<1>1. /\ Without(i) = rest /\ ShapedCalls(calls) /\ SystemsFields \subseteq DOMAIN view
      /\ {"calm", "seen", "lost"} \subseteq DOMAIN hist
      /\ view.modal # None => ModalFields \subseteq DOMAIN view.modal
      /\ c.op \notin OwnOps /\ c.live => view.modal # None /\ c.slug = view.modal.of
      /\ c.op \in Confirmables => c.live
  BY DEF Without, Rest, SystemsTruthInv, TablesOk, NamesOk, Names, SystemsInv, SystemsOk,
     ModalCall, Backed
<1>2. /\ ListCall.op = "list" /\ ListCall.answer = None /\ CallFields \subseteq DOMAIN ListCall
      /\ \A s : LET e == Call("roles", s, None)
                IN  /\ e.op = "roles" /\ e.answer = None /\ e.live /\ e.slug = s
                    /\ CallFields \subseteq DOMAIN e
  BY DEF ListCall, Call, CallFields
<1>3. /\ hist.calm => RowsTruth(calls, view.rows, SystemRows) /\ truth
      /\ ShapedCalls(rest)
      /\ \A j \in DOMAIN rest : \E k \in DOMAIN calls : rest[j] = calls[k]
  BY <1>1, GoneShaped DEF SystemsTruthInv, TruthOk, IsGone
<1>4. server' = server /\ SystemRows' = SystemRows /\ \A s : RolesOf(s)' = RolesOf(s)
  BY SameTables DEF Settle, ShowList, ShowRoles, Created, Regenerated, Updated, RolesChanged,
     Refused,
     Lost
\* The modal, after a request that it did not send, or whose answer does not change what it lists.
<1>5. ASSUME truth, ~RolesChange(c), calls' = rest \/ calls' = Append(rest, ListCall),
             view'.modal = None <=> view.modal = None,
             view.modal # None => view'.modal.of = view.modal.of,
             view.modal # None =>
               \/ ~(c.op = "roles" /\ c.live) /\ view'.modal.roles = view.modal.roles
               \/ /\ c.op = "roles" /\ c.live /\ c.answer # None /\ view'.modal.roles = c.answer.roles
                  /\ \A j \in 1..(i - 1) : calls[j].op # "roles"
      PROVE  truth'
  <2>1. CASE view.modal = None
    BY <1>5, <2>1
  <2>2. CASE view.modal # None
    <3> DEFINE all == RolesOf(view.modal.of)
               n == view'.modal
    <3>1. /\ RolesTruth(calls, view.modal, all)
          /\ \A j \in DOMAIN calls : calls[j].op \in RoleWrites => calls[j].live
          /\ RolesOf(view.modal.of)' = all
      BY <1>4, <1>5, <2>2 DEF RolesOf
    <3> HIDE DEF all, n
    <3>2. RolesTruth(rest, n, all)
      BY <1>1, <1>5, <2>2, <3>1, RolesGone DEF n
    <3>3. RolesTruth(calls', n, all)
      <4>1. ListCall.op = "list" /\ CallFields \subseteq DOMAIN ListCall /\ ShapedCalls(rest)
        BY <1>2, <1>3
      <4>2. RolesTruth(Append(rest, ListCall), n, all)
        BY <3>2, <4>1, RolesMore
      <4>3. QED
        BY <1>5, <3>2, <4>2
    <3>4. \A j \in DOMAIN calls' : calls'[j].op \in RoleWrites => calls'[j].live
      <4>1. \A j \in DOMAIN rest : rest[j].op \in RoleWrites => rest[j].live
        BY <1>3, <3>1
      <4>2. CASE calls' = rest
        BY <4>1, <4>2
      <4>3. CASE calls' = Append(rest, ListCall)
        <5>1. IsSent(rest, calls', ListCall)
          BY <1>2, <1>3, <4>3, SentShaped
        <5>2. \A j \in DOMAIN calls' : calls'[j] = ListCall \/ (j \in DOMAIN rest /\ calls'[j] = rest[j])
          BY <5>1 DEF IsSent
        <5>3. QED
          BY <1>2, <4>1, <5>2 DEF RoleWrites
      <4>4. QED
        BY <1>5, <4>2, <4>3
    <3>5. QED
      BY <3>1, <3>3, <3>4 DEF n
  <2>3. QED
    BY <2>1, <2>2
<1> HIDE DEF rest
<1>6. ~Drawn(c) \/ c.op \in Draws
  BY DEF Drawn
<1>7. CASE ShowList(i)
  <2>1. /\ c.op = "list" /\ c.answer # None /\ calls' = rest /\ view'.rows = c.answer.rows
        /\ view'.modal = view.modal /\ hist' = Displayed(i)
    BY <1>1, <1>7 DEF ShowList, SystemsFields
  <2>2. /\ {"calm", "seen", "lost"} \subseteq DOMAIN hist' /\ hist'.seen = hist.seen
        /\ hist'.lost = hist.lost /\ (hist'.calm => hist.calm /\ ~Overtakes(i))
    BY <1>1, <2>1 DEF Displayed
  <2>3. Follows(i, ListCall) /\ ~Drawn(c) /\ ~RowsChange(c) /\ ~RolesChange(c)
    BY <2>1 DEF Follows, Drawn, Draws, rest, RowsChange, RolesChange, RoleWrites
  <2>4. TablesOk' /\ NamesOk' /\ SecretsOk'
    BY <1>4, <2>1, <2>2, <2>3, LeaveKeeps
  <2>5. ASSUME hist'.calm PROVE RowsTruth(calls', view'.rows, SystemRows)
    <3>1. \A j \in 1..(i - 1) : calls[j].op # "list"
      BY <2>1, <2>2, <2>5 DEF Overtakes
    <3>2. RowsTruth(calls, view.rows, SystemRows)
      BY <1>3, <2>2, <2>5
    <3>3. QED
      BY <1>1, <2>1, <2>3, <3>1, <3>2, RowsGone DEF rest
  <2>6. ASSUME hist'.calm PROVE truth'
    BY <1>3, <1>5, <2>1, <2>2, <2>3, <2>6
  <2>7. QED
    BY <1>4, <2>4, <2>5, <2>6 DEF TruthOk
<1>8. CASE ShowRoles(i)
  <2>1. /\ c.op = "roles" /\ c.answer # None /\ calls' = rest /\ view'.rows = view.rows
        /\ view'.modal = None <=> view.modal = None
        /\ hist' = Displayed(i)
        /\ view.modal # None => /\ view'.modal.of = view.modal.of
                                /\ view'.modal.roles = IF c.live THEN c.answer.roles ELSE view.modal.roles
    <3>1. c.op = "roles" /\ c.answer # None /\ calls' = rest /\ hist' = Displayed(i)
      BY <1>1, <1>8 DEF ShowRoles
    <3>2. CASE ~c.live
      BY <1>8, <3>1, <3>2 DEF ShowRoles
    <3>3. CASE c.live
      <4> DEFINE roles == c.answer.roles
      <4>1. view' = [view EXCEPT !.modal.roles = roles, !.modal.rolesLoading = FALSE]
        BY <1>8, <3>3 DEF ShowRoles
      <4>2. view.modal # None /\ ModalFields \subseteq DOMAIN view.modal
        BY <1>1, <3>1, <3>3 DEF OwnOps
      <4> HIDE DEF roles
      <4>3. /\ view'.rows = view.rows
            /\ view'.modal = [[view.modal EXCEPT !.roles = roles] EXCEPT !.rolesLoading = FALSE]
        BY <1>1, <4>1 DEF SystemsFields
      <4>4. /\ ModalFields \subseteq DOMAIN view'.modal
            /\ view'.modal.of = view.modal.of /\ view'.modal.roles = roles
        BY <4>2, <4>3 DEF ModalFields
      <4>5. view'.modal # None
        BY <4>4 DEF NoneIsNoValue, NoneIsNoModal
      <4>6. QED
        BY <3>1, <3>3, <4>2, <4>3, <4>4, <4>5 DEF roles
    <3>4. QED
      BY <3>2, <3>3
  <2>2. /\ {"calm", "seen", "lost"} \subseteq DOMAIN hist' /\ hist'.seen = hist.seen
        /\ hist'.lost = hist.lost /\ (hist'.calm => hist.calm /\ ~Overtakes(i))
    BY <1>1, <2>1 DEF Displayed
  <2>3. Follows(i, ListCall) /\ ~Drawn(c) /\ ~RowsChange(c) /\ ~RolesChange(c)
    BY <2>1 DEF Follows, Drawn, Draws, rest, RowsChange, RolesChange, RoleWrites
  <2>4. TablesOk' /\ NamesOk' /\ SecretsOk'
    BY <1>4, <2>1, <2>2, <2>3, LeaveKeeps
  <2>5. ASSUME hist'.calm PROVE RowsTruth(calls', view'.rows, SystemRows)
    <3>1. RowsTruth(calls, view.rows, SystemRows)
      BY <1>3, <2>2, <2>5
    <3>2. QED
      BY <1>1, <2>1, <2>3, <3>1, RowsGone DEF rest
  <2>6. ASSUME hist'.calm PROVE truth'
    <3>1. \A j \in 1..(i - 1) : calls[j].op # "roles"
      BY <2>1, <2>2, <2>6 DEF Overtakes
    <3>2. truth
      BY <1>3, <2>2, <2>6
    <3>3. QED
      BY <1>5, <2>1, <2>3, <3>1, <3>2
  <2>7. QED
    BY <1>4, <2>4, <2>5, <2>6 DEF TruthOk
<1>9. CASE Created(i)
  <2>1. /\ c.op = "create" /\ c.answer \notin {None, 0} /\ calls' = Append(rest, ListCall)
        /\ view'.rows = view.rows /\ view'.modal = view.modal
        /\ hist' = Seen(Asked(rest, view.modal = None), i)
    BY <1>1, <1>9 DEF Created, FetchSystems, SystemsFields
  <2>2. /\ {"calm", "seen", "lost"} \subseteq DOMAIN hist' /\ hist'.seen = hist.seen \cup {Reveal(i)}
        /\ hist'.lost = hist.lost /\ (hist'.calm => hist.calm \/ view.modal = None)
    BY <1>1, <2>1 DEF Asked, Seen
  <2>3. Follows(i, ListCall) /\ Drawn(c) /\ ~RolesChange(c)
    BY <1>2, <2>1 DEF Follows, Drawn, Draws, rest, RolesChange, RoleWrites
  <2>4. TablesOk' /\ NamesOk' /\ SecretsOk'
    BY <1>4, <2>1, <2>2, <2>3, LeaveKeeps
  <2>5. RowsTruth(calls', view'.rows, SystemRows)
    BY <1>2, <1>3, <2>1, RowsAsked
  <2>6. ASSUME hist'.calm PROVE truth'
    <3>1. CASE view.modal = None
      BY <2>1, <3>1
    <3>2. CASE hist.calm
      BY <1>3, <1>5, <2>1, <2>3, <3>2
    <3>3. QED
      BY <2>2, <2>6, <3>1, <3>2
  <2>7. QED
    BY <1>4, <2>4, <2>5, <2>6 DEF TruthOk
<1>10. CASE Regenerated(i)
  <2>1. /\ c.op = "regenerate" /\ c.answer # None /\ calls' = rest
        /\ hist' = Seen(hist, i) /\ view.modal # None
        /\ view'.rows = view.rows
        /\ view'.modal = [[view.modal EXCEPT !.regenerating = FALSE] EXCEPT !.confirm = None]
    BY <1>1, <1>10 DEF Regenerated, SystemsFields, OwnOps, Confirmables
  <2>2. view'.modal # None /\ view'.modal.of = view.modal.of /\ view'.modal.roles = view.modal.roles
    BY <1>1, <2>1 DEF ModalFields, NoneIsNoValue, NoneIsNoModal
  <2>3. /\ {"calm", "seen", "lost"} \subseteq DOMAIN hist' /\ hist'.seen = hist.seen \cup {Reveal(i)}
        /\ hist'.lost = hist.lost /\ hist'.calm = hist.calm
    BY <1>1, <2>1 DEF Seen
  <2>4. Follows(i, ListCall) /\ Drawn(c) /\ ~RowsChange(c) /\ ~RolesChange(c)
    BY <1>2, <2>1 DEF Follows, Drawn, Draws, rest, RowsChange, RolesChange, RoleWrites
  <2>5. TablesOk' /\ NamesOk' /\ SecretsOk'
    BY <1>4, <2>1, <2>2, <2>3, <2>4, LeaveKeeps
  <2>6. ASSUME hist'.calm PROVE RowsTruth(calls', view'.rows, SystemRows)
    <3>1. RowsTruth(calls, view.rows, SystemRows)
      BY <1>3, <2>3, <2>6
    <3>2. QED
      BY <1>1, <2>1, <2>4, <3>1, RowsGone DEF rest
  <2>7. ASSUME hist'.calm PROVE truth'
    BY <1>3, <1>5, <2>1, <2>2, <2>3, <2>4, <2>7
  <2>8. QED
    BY <1>4, <2>5, <2>6, <2>7 DEF TruthOk
<1>11. CASE Updated(i)
  <2>1. /\ c.op = "update" /\ calls' = Append(rest, ListCall)
        /\ view'.rows = view.rows /\ (view'.modal = None <=> view.modal = None)
        /\ hist' = Asked(rest, view.modal = None)
        /\ view.modal # None => /\ view'.modal.of = view.modal.of
                                /\ view'.modal.roles = view.modal.roles
    <3>1. /\ c.op = "update" /\ calls' = Append(rest, ListCall)
          /\ hist' = Asked(rest, view.modal = None)
      BY <1>1, <1>11 DEF Updated, FetchSystems
    <3>2. CASE ~c.live
      <4>1. view' = [view EXCEPT !.loading = TRUE]
        BY <1>11, <3>2 DEF Updated, FetchSystems
      <4>2. QED
        BY <1>1, <3>1, <4>1 DEF SystemsFields
    <3>3. CASE c.live
      <4>1. view' = [[view EXCEPT !.modal.saving = FALSE] EXCEPT !.loading = TRUE]
        BY <1>11, <3>3 DEF Updated, FetchSystems
      <4>2. view.modal # None /\ ModalFields \subseteq DOMAIN view.modal
        BY <1>1, <3>1, <3>3 DEF OwnOps
      <4>3. view'.rows = view.rows /\ view'.modal = [view.modal EXCEPT !.saving = FALSE]
        BY <1>1, <4>1 DEF SystemsFields
      <4>4. QED
        BY <3>1, <4>2, <4>3 DEF ModalFields, NoneIsNoValue, NoneIsNoModal
    <3>4. QED
      BY <3>2, <3>3
  <2>2. /\ {"calm", "seen", "lost"} \subseteq DOMAIN hist' /\ hist'.seen = hist.seen
        /\ hist'.lost = hist.lost /\ (hist'.calm => hist.calm \/ view.modal = None)
    BY <1>1, <2>1 DEF Asked
  <2>3. Follows(i, ListCall) /\ ~Drawn(c) /\ ~RolesChange(c)
    BY <1>2, <2>1 DEF Follows, Drawn, Draws, rest, RolesChange, RoleWrites
  <2>4. TablesOk' /\ NamesOk' /\ SecretsOk'
    BY <1>4, <2>1, <2>2, <2>3, LeaveKeeps
  <2>5. RowsTruth(calls', view'.rows, SystemRows)
    BY <1>2, <1>3, <2>1, RowsAsked
  <2>6. ASSUME hist'.calm PROVE truth'
    <3>1. CASE view.modal = None
      BY <2>1, <3>1
    <3>2. CASE hist.calm
      BY <1>3, <1>5, <2>1, <2>3, <3>2
    <3>3. QED
      BY <2>2, <2>6, <3>1, <3>2
  <2>7. QED
    BY <1>4, <2>4, <2>5, <2>6 DEF TruthOk
<1>12. CASE RolesChanged(i)
  <2> DEFINE e == Call("roles", c.slug, None)
  <2>1. /\ c.op \in RoleWrites /\ hist' = hist
        /\ ~Drawn(c) /\ ~RowsChange(c)
    BY <1>12 DEF RolesChanged, RoleWrites, Drawn, Draws, RowsChange
  <2>2. CASE ~c.live
    <3>1. view' = view /\ calls' = rest
      BY <1>1, <1>12, <2>2 DEF RolesChanged
    <3>2. Follows(i, e)
      BY <3>1 DEF Follows, rest
    <3>3. TablesOk' /\ NamesOk' /\ SecretsOk'
      BY <1>1, <1>4, <2>1, <3>1, <3>2, LeaveKeeps
    <3>4. ASSUME hist'.calm PROVE RowsTruth(calls', view'.rows, SystemRows)
      <4>1. RowsTruth(calls, view.rows, SystemRows)
        BY <1>3, <2>1, <3>4
      <4>2. QED
        BY <1>1, <2>1, <3>1, <4>1, RowsGone DEF rest, RoleWrites
    <3>5. ASSUME hist'.calm PROVE truth'
      BY <1>3, <2>1, <2>2, <3>1, <3>5
    <3>6. QED
      BY <1>4, <3>3, <3>4, <3>5 DEF TruthOk
  <2>3. CASE c.live
    <3>1. view.modal # None /\ c.slug = view.modal.of /\ ModalFields \subseteq DOMAIN view.modal
      BY <1>1, <2>1, <2>3 DEF OwnOps, RoleWrites
    <3>2. PICK w \in {[view EXCEPT !.modal.creatingRole = FALSE],
                      [view EXCEPT !.modal.confirm = None, !.modal.deletingRole = None]} :
            /\ view' = [w EXCEPT !.modal.rolesLoading = TRUE]
            /\ calls' = Append(rest, e)
      BY <1>1, <1>12, <2>3 DEF RolesChanged, FetchRoles
    <3> HIDE DEF e
    <3>3. /\ SystemsFields \subseteq DOMAIN w /\ w.rows = view.rows
          /\ ModalFields \subseteq DOMAIN w.modal
          /\ w.modal.of = view.modal.of /\ w.modal.roles = view.modal.roles
      <4>1. CASE w = [view EXCEPT !.modal.creatingRole = FALSE]
        <5>1. /\ SystemsFields \subseteq DOMAIN w /\ w.rows = view.rows
              /\ w.modal = [view.modal EXCEPT !.creatingRole = FALSE]
          BY <1>1, <4>1 DEF SystemsFields
        <5>2. QED
          BY <3>1, <5>1 DEF ModalFields
      <4>2. CASE w = [view EXCEPT !.modal.confirm = None, !.modal.deletingRole = None]
        <5>1. /\ SystemsFields \subseteq DOMAIN w /\ w.rows = view.rows
              /\ w.modal = [[view.modal EXCEPT !.confirm = None] EXCEPT !.deletingRole = None]
          BY <1>1, <4>2 DEF SystemsFields
        <5>2. QED
          BY <3>1, <5>1 DEF ModalFields
      <4>3. QED
        BY <3>2, <4>1, <4>2
    <3>4. view'.rows = w.rows /\ view'.modal = [w.modal EXCEPT !.rolesLoading = TRUE]
      BY <3>2, <3>3 DEF SystemsFields
    <3>5. /\ view'.modal # None /\ view'.rows = view.rows
          /\ view'.modal.of = view.modal.of /\ view'.modal.roles = view.modal.roles
      BY <3>3, <3>4 DEF ModalFields, NoneIsNoValue, NoneIsNoModal
    <3>6. /\ e.op = "roles" /\ e.answer = None /\ e.live /\ e.slug = c.slug
          /\ CallFields \subseteq DOMAIN e
      BY <1>2 DEF e
    <3>7. Follows(i, e)
      BY <3>1, <3>2, <3>6 DEF Follows, rest
    <3>8. TablesOk' /\ NamesOk' /\ SecretsOk'
      BY <1>1, <1>4, <2>1, <3>1, <3>5, <3>7, LeaveKeeps
    <3>9. ASSUME hist'.calm PROVE RowsTruth(calls', view'.rows, SystemRows)
      <4>1. RowsTruth(calls, view.rows, SystemRows)
        BY <1>3, <2>1, <3>9
      <4>2. RowsTruth(rest, view.rows, SystemRows)
        BY <1>1, <2>1, <4>1, RowsGone DEF rest, RoleWrites
      <4>3. QED
        BY <1>3, <3>2, <3>5, <3>6, <4>2, RowsMore
    <3>10. ASSUME hist'.calm PROVE truth'
      <4>1. \A j \in DOMAIN calls : calls[j].op \in RoleWrites => calls[j].live
        BY <1>3, <2>1, <3>1, <3>10
      <4>2. IsSent(rest, calls', e)
        BY <1>3, <3>2, <3>6, SentShaped
      <4>3. \A j \in DOMAIN calls' : calls'[j] = e \/ (j \in DOMAIN rest /\ calls'[j] = rest[j])
        BY <4>2 DEF IsSent
      <4>4. \A j \in DOMAIN calls' : calls'[j].op \in RoleWrites => calls'[j].live
        BY <1>3, <3>6, <4>1, <4>3
      <4> DEFINE all == RolesOf(view.modal.of)
                 n == view'.modal
      <4>5. RolesOf(view.modal.of)' = all
        BY <1>4, <3>5 DEF RolesOf
      <4> HIDE DEF all, n
      <4>6. RolesTruth(calls', n, all)
        BY <1>3, <3>2, <3>6, RolesAsked
      <4>7. QED
        BY <4>4, <4>5, <4>6 DEF n
    <3>11. QED
      BY <1>4, <3>8, <3>9, <3>10 DEF TruthOk
  <2>4. QED
    BY <2>2, <2>3
\* What is shown stays.
<1>13. ASSUME view' = Released(i)
       PROVE  SameShown
  <2> DEFINE op == c.op
  <2>1. CASE op \in OwnOps
    BY <1>1, <1>13, <2>1 DEF Released, SystemsFields, OwnOps, SameShown
  <2>2. CASE op \notin OwnOps /\ ~c.live
    <3>1. view' = view
      BY <1>13, <2>2 DEF Released, OwnOps
    <3>2. QED
      BY <3>1 DEF SameShown
  <2>3. CASE op \notin OwnOps /\ c.live
    <3>1. view' = [view EXCEPT
                    !.modal.rolesLoading = @ /\ op # "roles",
                    !.modal.saving = @ /\ op # "update",
                    !.modal.regenerating = @ /\ op # "regenerate",
                    !.modal.creatingRole = @ /\ op # "createRole",
                    !.modal.deletingRole = IF op = "removeRole" THEN None ELSE @]
      BY <1>13, <2>3 DEF Released, OwnOps
    <3>2. view.modal # None /\ ModalFields \subseteq DOMAIN view.modal
      BY <1>1, <2>3
    <3> HIDE DEF op
    <3>3. /\ view'.rows = view.rows
          /\ view'.modal = [view.modal EXCEPT
                    !.rolesLoading = @ /\ op # "roles",
                    !.saving = @ /\ op # "update",
                    !.regenerating = @ /\ op # "regenerate",
                    !.creatingRole = @ /\ op # "createRole",
                    !.deletingRole = IF op = "removeRole" THEN None ELSE @]
      BY <1>1, <3>1 DEF SystemsFields
    <3>4. /\ ModalFields \subseteq DOMAIN view'.modal
          /\ view'.modal.of = view.modal.of /\ view'.modal.roles = view.modal.roles
      BY <3>2, <3>3 DEF ModalFields
    <3>5. QED
      BY <3>2, <3>3, <3>4 DEF SameShown, NoneIsNoValue, NoneIsNoModal
  <2>4. QED
    BY <2>1, <2>2, <2>3
<1>14. CASE Refused(i)
  <2>1. /\ c.op \in Writes /\ c.answer = 0 /\ calls' = rest /\ hist' = hist /\ SameShown
    BY <1>1, <1>13, <1>14 DEF Refused
  <2>2. /\ Follows(i, ListCall) /\ ~Drawn(c) /\ ~RowsChange(c) /\ ~RolesChange(c)
        /\ c.op # "list" /\ c.op # "roles"
    BY <2>1 DEF Follows, Drawn, Draws, Writes, rest, RowsChange, RolesChange
  <2>3. TablesOk' /\ NamesOk' /\ SecretsOk'
    BY <1>1, <1>4, <2>1, <2>2, LeaveKeeps DEF SameShown
  <2>4. ASSUME hist'.calm PROVE RowsTruth(calls', view'.rows, SystemRows)
    <3>1. RowsTruth(calls, view.rows, SystemRows)
      BY <1>3, <2>1, <2>4
    <3>2. QED
      BY <1>1, <2>1, <2>2, <3>1, RowsGone DEF rest, SameShown
  <2>5. ASSUME hist'.calm PROVE truth'
    BY <1>3, <1>5, <2>1, <2>2, <2>5 DEF SameShown
  <2>6. QED
    BY <1>4, <2>3, <2>4, <2>5 DEF TruthOk
<1>15. CASE Lost(i)
  <2>1. /\ calls' = rest /\ SameShown
        /\ hist' = [Disturbed EXCEPT !.lost = @ \cup SecretOf(i)]
    BY <1>1, <1>13, <1>15 DEF Lost
  <2>2. /\ {"calm", "seen", "lost"} \subseteq DOMAIN hist' /\ hist'.seen = hist.seen
        /\ hist'.lost = hist.lost \cup SecretOf(i) /\ ~hist'.calm
    BY <1>1, <2>1 DEF Disturbed
  <2>3. ASSUME Drawn(c) PROVE c.answer \in hist'.lost
    <3>1. DOMAIN server.drawn = 1..Len(server.drawn) /\ Len(server.drawn) \in Nat
      BY OwnElements DEF SystemsTruthInv, SecretsOk
    <3>2. c.answer \in DOMAIN server.drawn /\ c.op \in Draws /\ c.answer # None
      BY <2>3 DEF SystemsTruthInv, SecretsOk, Drawn
    <3>3. QED
      BY <2>2, <3>1, <3>2 DEF SecretOf
  <2>4. Follows(i, ListCall)
    BY <2>1 DEF Follows, rest
  <2>5. TablesOk' /\ NamesOk' /\ SecretsOk'
    BY <1>1, <1>4, <2>1, <2>2, <2>3, <2>4, LeaveKeeps DEF SameShown
  <2>6. QED
    BY <2>2, <2>5 DEF TruthOk
<1>16. QED
  BY <1>7, <1>8, <1>9, <1>10, <1>11, <1>12, <1>14, <1>15 DEF Settle

LEMMA SystemsTruthStep ==
    ASSUME NoneIsNoValue, SystemsTruthInv, Next
    PROVE  SystemsTruthInv'
<1>1. SystemsInv'
  BY SystemsStep DEF SystemsTruthInv, NoneIsNoValue
<1>2. /\ SystemsFields \subseteq DOMAIN view
      /\ view.modal # None => ModalFields \subseteq DOMAIN view.modal
  BY DEF SystemsTruthInv, SystemsInv, SystemsOk
<1>3. ASSUME NEW op, NEW s, NEW x
      PROVE  LET e == Call(op, s, x)
             IN  /\ CallFields \subseteq DOMAIN e /\ e.op = op /\ e.live /\ e.answer = None
                 /\ e.slug = s
  BY DEF Call, CallFields
<1> DEFINE Kept == TablesOk' /\ NamesOk' /\ TruthOk' /\ SecretsOk'
<1>4. ASSUME SameShown, UNCHANGED <<calls, server, hist>> PROVE Kept
  BY <1>4, ClickKeeps
<1>5. ASSUME OpenForm \/ CancelForm \/ CloseReveal PROVE Kept
  <2>1. view'.rows = view.rows /\ view'.modal = view.modal
    BY <1>2, <1>5 DEF OpenForm, CancelForm, CloseReveal, Click, SystemsFields
  <2>2. SameShown
    BY <2>1 DEF SameShown
  <2>3. QED
    BY <1>4, <1>5, <2>2 DEF OpenForm, CancelForm, CloseReveal, Click
<1>7. ASSUME NEW x, view.modal # None, view' = [view EXCEPT !.modal.confirm = x] PROVE SameShown
  <2>1. view'.rows = view.rows /\ view'.modal = [view.modal EXCEPT !.confirm = x]
    BY <1>2, <1>7 DEF SystemsFields
  <2>2. QED
    BY <1>2, <1>7, <2>1 DEF SameShown, ModalFields, NoneIsNoValue, NoneIsNoModal
<1>8. ASSUME AskRegenerate PROVE Kept
  BY <1>4, <1>7, <1>8 DEF AskRegenerate, InModal, Click
<1>9. ASSUME NEW r, AskRemoveRole(r) PROVE Kept
  BY <1>4, <1>7, <1>9 DEF AskRemoveRole, InModal, Click
<1>10. ASSUME CancelConfirm PROVE Kept
  BY <1>4, <1>7, <1>10 DEF CancelConfirm, Confirming, Click
<1>11. ASSUME NEW row \in view.rows, OpenModal(row) PROVE Kept
  BY <1>11, OpenKeeps DEF NoneIsNoValue
<1>12. ASSUME CloseModal PROVE Kept
  BY <1>12, CloseKeeps
<1>13. ASSUME NEW s \in Slugs, NEW c, SubmitForm(s, c) PROVE Kept
  <2> DEFINE e == Call("create", s, c)
  <2>1. /\ calls' = Append(calls, e) /\ UNCHANGED <<server, hist>>
        /\ view'.rows = view.rows /\ view'.modal = view.modal
    BY <1>2, <1>13 DEF SubmitForm, Send, SystemsFields
  <2>2. /\ CallFields \subseteq DOMAIN e /\ e.op = "create" /\ e.live /\ e.answer = None
        /\ e.slug \in Slugs /\ SameShown
    BY <1>3, <2>1 DEF SameShown
  <2> HIDE DEF e
  <2>3. QED
    BY <2>1, <2>2, WriteKeeps
<1>14. ASSUME NEW op \in {"update", "createRole", "regenerate", "removeRole"}, NEW x, SameShown,
              view.modal # None,
              calls' = Append(calls, Call(op, view.modal.of, x)), UNCHANGED <<server, hist>>
       PROVE  Kept
  <2> DEFINE e == Call(op, view.modal.of, x)
  <2>1. /\ CallFields \subseteq DOMAIN e /\ e.op = op /\ e.live /\ e.answer = None
        /\ e.slug = view.modal.of
    BY <1>3
  <2> HIDE DEF e
  <2>2. QED
    BY <1>14, <2>1, WriteKeeps DEF e
<1>15. ASSUME NEW c, Save(c) PROVE Kept
  <2>1. /\ view.modal # None /\ view'.rows = view.rows
        /\ view'.modal = [view.modal EXCEPT !.saving = TRUE]
    BY <1>2, <1>15 DEF Save, InModal, Send, SystemsFields
  <2>2. SameShown
    BY <1>2, <2>1 DEF SameShown, ModalFields, NoneIsNoValue, NoneIsNoModal
  <2>3. QED
    BY <1>14, <1>15, <2>1, <2>2 DEF Save, Send
<1>16. ASSUME NEW r, CreateRole(r) PROVE Kept
  <2>1. /\ view.modal # None /\ view'.rows = view.rows
        /\ view'.modal = [view.modal EXCEPT !.creatingRole = TRUE]
    BY <1>2, <1>16 DEF CreateRole, InModal, Send, SystemsFields
  <2>2. SameShown
    BY <1>2, <2>1 DEF SameShown, ModalFields, NoneIsNoValue, NoneIsNoModal
  <2>3. QED
    BY <1>14, <1>16, <2>1, <2>2 DEF CreateRole, Send
<1>17. ASSUME Confirm PROVE Kept
  <2>1. view.modal # None
    BY <1>17 DEF Confirm, Confirming
  <2>2. CASE view.modal.confirm = "secret"
    <3>1. /\ view'.rows = view.rows
          /\ view'.modal = [view.modal EXCEPT !.regenerating = TRUE]
      BY <1>2, <1>17, <2>2 DEF Confirm, Send, SystemsFields
    <3>2. SameShown
      BY <1>2, <2>1, <3>1 DEF SameShown, ModalFields, NoneIsNoValue, NoneIsNoModal
    <3>3. QED
      BY <1>14, <1>17, <2>1, <2>2, <3>2 DEF Confirm, Send
  <2>3. CASE view.modal.confirm # "secret"
    <3>1. /\ view'.rows = view.rows
          /\ view'.modal = [view.modal EXCEPT !.deletingRole = view.modal.confirm]
      BY <1>2, <1>17, <2>3 DEF Confirm, Send, SystemsFields
    <3>2. SameShown
      BY <1>2, <2>1, <3>1 DEF SameShown, ModalFields, NoneIsNoValue, NoneIsNoModal
    <3>3. QED
      BY <1>14, <1>17, <2>1, <2>3, <3>2 DEF Confirm, Send
  <2>4. QED
    BY <2>2, <2>3
<1>18. ASSUME NEW i \in DOMAIN calls, Serve(i) PROVE Kept
  BY <1>18, ServeKeeps
<1>19. ASSUME NEW i \in DOMAIN calls, Settle(i) PROVE Kept
  BY <1>19, SettleKeeps
<1>20. Kept
  <2> HIDE DEF Kept
  <2>1. QED
    BY <1>5, <1>8, <1>9, <1>10, <1>11, <1>12, <1>13, <1>15, <1>16, <1>17, <1>18, <1>19,
       Zenon DEF Next
<1>21. QED
  BY <1>1, <1>20 DEF SystemsTruthInv

LEMMA SystemsTruthStays ==
    ASSUME SystemsTruthInv, UNCHANGED pageVars
    PROVE  SystemsTruthInv'
<1>1. UNCHANGED <<view, calls, server, hist>>
  BY DEF pageVars
<1>2. TablesOk' /\ NamesOk' /\ TruthOk' /\ SecretsOk'
  BY <1>1, ClickKeeps DEF SameShown
<1>3. QED
  BY <1>1, <1>2 DEF SystemsTruthInv, SystemsInv

\* It holds when the page is opened, whatever the table holds.
LEMMA SystemsTruthMounts ==
    ASSUME NoneIsNoValue, NEW m \in Mounts,
           view' = m.view, calls' = m.calls, server' = m.server, hist' = m.hist
    PROVE  SystemsTruthInv'
<1>1. PICK systems \in [Slugs -> {None} \cup [contents : Contents, secret : {0}, roles : {{}}]] :
        m = [view |-> Mounted, calls |-> <<ListCall>>,
             server |-> [systems |-> systems, drawn |-> <<>>],
             hist |-> [calm |-> TRUE, seen |-> {}, lost |-> {}]]
  BY DEF Mounts
<1> DEFINE e == ListCall
<1>2. /\ e.op = "list" /\ e.answer = None /\ CallFields \subseteq DOMAIN e
  BY DEF ListCall, Call, CallFields
<1>3. /\ view' = Mounted /\ calls' = <<e>> /\ server'.systems = systems /\ server'.drawn = <<>>
      /\ DOMAIN server' = {"systems", "drawn"}
      /\ hist' = [calm |-> TRUE, seen |-> {}, lost |-> {}]
  BY <1>1
<1>4. view'.rows = {} /\ view'.modal = None
  BY <1>3 DEF Mounted
<1> HIDE DEF e
<1>5. SystemsInv'
  BY SystemsMounts DEF SystemsInv
<1>6. DOMAIN <<e>> = {1} /\ <<e>>[1] = e /\ <<e>> \in Seq({e})
  OBVIOUS
<1>7. ShapedCalls(calls')
  BY <1>2, <1>3, <1>6, OwnElements DEF ShapedCalls
<1>8. TablesOk'
  <2>1. \A s \in Slugs : systems[s] # None => {"contents", "secret", "roles"} \subseteq DOMAIN systems[s]
    OBVIOUS
  <2>2. DOMAIN systems = Slugs
    OBVIOUS
  <2>3. QED
    BY <1>3, <1>7, <2>1, <2>2 DEF TablesOk, Registered
<1>9. NamesOk'
  BY <1>2, <1>3, <1>4, <1>6 DEF NamesOk, Names, OwnOps
<1>10. TruthOk'
  <2> DEFINE L == ListsIn(calls')
             F == FreshLists(calls', SystemRows')
  <2>1. L = {1} /\ F = {1}
    BY <1>2, <1>3, <1>6 DEF ListsIn, FreshLists
  <2>2. Newest(L, F)
    BY <2>1 DEF Newest
  <2>3. RowsTruth(calls', view'.rows, SystemRows')
    BY <2>2 DEF RowsTruth, Truth
  <2>4. QED
    BY <1>4, <2>3 DEF TruthOk
<1>11. SecretsOk'
  <2>1. <<>> \in Seq(Elements(<<>>)) /\ DOMAIN <<>> = {}
    OBVIOUS
  <2>2. \A i \in DOMAIN calls' : ~Drawn(calls'[i])
    BY <1>2, <1>3, <1>6 DEF Drawn
  <2>3. QED
    BY <1>3, <2>1, <2>2 DEF SecretsOk
<1>12. QED
  BY <1>5, <1>8, <1>9, <1>10, <1>11 DEF SystemsTruthInv

\* What the runs check of the page.
LEMMA SystemsTruth ==
    ASSUME SystemsTruthInv
    PROVE  FlagsHaveCalls /\ ShowsTheTable /\ SecretsShown
<1>1. FlagsHaveCalls
  BY DEF SystemsTruthInv, SystemsInv, SystemsOk, ModalFlags, FlagsHaveCalls, Live, Pending
<1>2. ASSUME calls = <<>>, hist.calm
      PROVE  /\ view.rows = SystemRows
             /\ view.modal # None => view.modal.roles = RolesOf(view.modal.of)
  <2>1. DOMAIN calls = {}
    BY <1>2
  <2>2. RowsTruth(calls, view.rows, SystemRows)
    BY <1>2 DEF SystemsTruthInv, TruthOk
  <2>3. view.modal # None => RolesTruth(calls, view.modal, RolesOf(view.modal.of))
    BY <1>2 DEF SystemsTruthInv, TruthOk
  <2>4. QED
    BY <2>1, <2>2, <2>3 DEF RowsTruth, RolesTruth, Truth, Newest, ListsIn, FreshLists, RolesIn,
       FreshRoles
<1>3. ShowsTheTable
  BY <1>2 DEF ShowsTheTable, AtRest
<1>4. SecretsShown
  BY DEF SystemsTruthInv, SecretsOk, SecretsShown, Holds
<1>5. QED
  BY <1>1, <1>3, <1>4

(* Flags of the page Usuarios *)

UsersFields == {"loading", "creating", "rowAction"}
RowOps      == {"setActive", "reset"}

UsersFlags(v, s) ==
    /\ v.loading => \E i \in DOMAIN s : s[i].op = "list"
    /\ v.creating => \E i \in DOMAIN s : s[i].op = "create"
    /\ v.rowAction # None =>
         \E i \in DOMAIN s : s[i].op \in RowOps /\ s[i].user = v.rowAction

UsersInv == Calls(calls, {"user"}) /\ UsersFields \subseteq DOMAIN view /\ UsersFlags(view, calls)

\* The handlers, as far as flags and requests go.
UsersClick == calls' = calls /\ \A f \in UsersFields : view'[f] = view[f]
UsersServe == \E i \in DOMAIN calls : /\ \E a : calls' = [calls EXCEPT ![i].answer = a]
                                     /\ view' = view
UsersSend(e) ==
    /\ Says(e, {"user"}) /\ calls' = Append(calls, e)
    /\ view'.loading => view.loading \/ e.op = "list"
    /\ view'.creating => view.creating \/ e.op = "create"
    /\ \/ view'.rowAction = view.rowAction
       \/ e.op \in RowOps /\ e.user = view'.rowAction
UsersSettle(i) ==
    /\ \/ /\ calls' = Rest(calls, i)
          /\ view'.loading => view.loading /\ calls[i].op # "list"
       \/ \E e : e.op = "list" /\ Says(e, {"user"}) /\ calls' = Append(Rest(calls, i), e)
    /\ view'.creating => view.creating /\ calls[i].op # "create"
    /\ view'.rowAction # None =>
         view'.rowAction = view.rowAction /\ calls[i].op \notin RowOps
UsersMove ==
    /\ UsersFields \subseteq DOMAIN view'
    /\ UsersClick \/ UsersServe \/ (\E e : UsersSend(e)) \/ \E i \in DOMAIN calls : UsersSettle(i)

LEMMA UsersMoveKeeps == ASSUME UsersInv, UsersMove PROVE UsersInv'
<1> DEFINE F == {"user"}
<1>1. /\ Calls(calls, F) /\ UsersFields \subseteq DOMAIN view' /\ 0 \notin DOMAIN calls
      /\ UsersFlags(view, calls)
  BY DEF UsersInv, UsersMove, Calls
<1>2. CASE UsersClick
  <2>1. UsersFlags(view', calls)
    BY <1>1, <1>2 DEF UsersClick, UsersFlags, UsersFields
  <2>2. QED
    BY <1>1, <1>2, <2>1 DEF UsersClick, UsersInv
<1>3. CASE UsersServe
  <2>1. PICK i \in DOMAIN calls : \E a : calls' = [calls EXCEPT ![i].answer = a]
    BY <1>3 DEF UsersServe
  <2>2. PICK a : calls' = [calls EXCEPT ![i].answer = a]
    BY <2>1
  <2>3. Calls(calls, F) /\ "answer" \notin F
    BY <1>1
  <2>4. Calls(calls', F) /\ Survive(calls, calls', 0, F)
    <3> HIDE DEF F
    <3> QED  BY <2>2, <2>3, ServerAnswers
  <2>5. UsersFlags(view', calls')
    BY <1>1, <1>3, <2>4 DEF UsersServe, UsersFlags, Survive, Same, RowOps
  <2>6. QED
    BY <1>1, <2>4, <2>5 DEF UsersInv
<1>4. ASSUME NEW e, UsersSend(e) PROVE UsersInv'
  <2>1. Says(e, F) /\ calls' = Append(calls, e)
    BY <1>4 DEF UsersSend
  <2>2. /\ Calls(calls', F) /\ Survive(calls, calls', 0, F)
        /\ \E j \in DOMAIN calls' : calls'[j] = e
    BY <1>1, <2>1, OneIsSent
  <2>3. UsersFlags(view', calls')
    BY <1>1, <1>4, <2>2 DEF UsersSend, UsersFlags, Survive, Same, RowOps
  <2>4. QED
    BY <1>1, <2>2, <2>3 DEF UsersInv
<1>5. ASSUME NEW i \in DOMAIN calls, UsersSettle(i) PROVE UsersInv'
  <2>1. \/ /\ calls' = Rest(calls, i)
           /\ view'.loading => view.loading /\ calls[i].op # "list"
        \/ \E e : e.op = "list" /\ Says(e, F) /\ calls' = Append(Rest(calls, i), e)
    BY <1>5 DEF UsersSettle
  <2>2. /\ Calls(calls', F) /\ Survive(calls, calls', i, F)
        /\ \/ view'.loading => view.loading /\ calls[i].op # "list"
           \/ \E j \in DOMAIN calls' : calls'[j].op = "list"
    <3>1. CASE calls' = Rest(calls, i)
      BY <1>1, <2>1, <3>1, OneIsGone
    <3>2. ASSUME NEW e, e.op = "list", Says(e, F), calls' = Append(Rest(calls, i), e)
          PROVE  /\ Calls(calls', F) /\ Survive(calls, calls', i, F)
                 /\ \E j \in DOMAIN calls' : calls'[j].op = "list"
      BY <1>1, <3>2, OneForAnother
    <3>3. QED
      BY <2>1, <3>1, <3>2
  <2>3. UsersFlags(view', calls')
    BY <1>1, <1>5, <2>2 DEF UsersSettle, UsersFlags, Survive, Same, RowOps
  <2>4. QED
    BY <1>1, <2>2, <2>3 DEF UsersInv
<1>6. QED
  BY <1>2, <1>3, <1>4, <1>5 DEF UsersMove

LEMMA UsersMoves == ASSUME UsersInv, UP!Next PROVE UsersMove
<1>1. /\ UsersFields \subseteq DOMAIN view /\ Calls(calls, {"user"})
      /\ calls \in Seq(Elements(calls))
  BY DEF UsersInv, Calls
<1>2. ASSUME NEW i \in DOMAIN calls, UP!Serve(i) PROVE UsersMove
  BY <1>1, <1>2 DEF UP!Serve, UP!ServeList, UP!ServeCreate,
     UP!ServeSetActive, UP!ServeReset, UP!DrawFor, UP!Answered,
     UsersMove, UsersServe
<1>3. ASSUME NEW q, NEW v, UP!ShowQuery(q, v), UsersFields \subseteq DOMAIN v,
             \A f \in UsersFields : v[f] = view[f]
      PROVE  UsersMove
  <2>1. CASE UNCHANGED calls /\ view' = v
    BY <1>3, <2>1 DEF UsersMove, UsersClick
  <2>2. CASE UP!Fetch(q, calls, [v EXCEPT !.query = q])
    BY <1>3, <2>2 DEF UP!Fetch, UP!ListCall, UsersMove, UsersSend, UsersFields,
       Says
  <2>3. QED
    BY <1>3, <2>1, <2>2 DEF UP!ShowQuery
<1>4. ASSUME UP!SearchFires \/ UP!ClearSearch \/ (\E p : UP!GoToPage(p))
               \/ (\E l : UP!SetLimit(l))
      PROVE  UsersMove
  <2>1. PICK q, v : /\ UP!ShowQuery(q, v) /\ UsersFields \subseteq DOMAIN v
                    /\ \A f \in UsersFields : v[f] = view[f]
    BY <1>1, <1>4 DEF UP!SearchFires, UP!ClearSearch, UP!GoToPage,
       UP!SetLimit, UsersFields
  <2>2. QED
    BY <1>3, <2>1
<1>5. ASSUME \/ UP!OpenForm \/ UP!CancelForm
             \/ UP!CancelDeactivate \/ UP!CloseReveal
             \/ \E t : UP!Type(t)
      PROVE  UsersMove
  BY <1>1, <1>5 DEF UP!OpenForm, UP!CancelForm, UP!CancelDeactivate,
     UP!CloseReveal, UP!Type, UsersMove, UsersClick, UsersFields
<1>6. ASSUME NEW u, UP!SubmitForm(u) PROVE UsersMove
  BY <1>1, <1>6 DEF UP!SubmitForm, UP!Write, UsersMove, UsersSend, UsersFields,
     Says
<1>7. ASSUME NEW row, UP!SetActive(row) \/ UP!ResetPassword(row) PROVE UsersMove
  BY <1>1, <1>7 DEF UP!SetActive, UP!ResetPassword, UP!Write, UsersMove,
     UsersSend, UsersFields, Says, RowOps
<1>8. ASSUME NEW row, UP!Toggle(row) PROVE UsersMove
  <2>1. CASE row.active
    <3>1. view' = [view EXCEPT !.confirm = row] /\ calls' = calls
      BY <1>8, <2>1 DEF UP!Toggle
    <3>2. QED
      BY <1>1, <3>1 DEF UsersMove, UsersClick, UsersFields
  <2>2. CASE ~row.active
    BY <1>7, <1>8, <2>2 DEF UP!Toggle
  <2>3. QED
    BY <2>1, <2>2
<1>9. ASSUME UP!ConfirmDeactivate PROVE UsersMove
  BY <1>7, <1>9 DEF UP!ConfirmDeactivate
<1>10. ASSUME NEW i \in DOMAIN calls, UP!Settle(i) PROVE UsersMove
  <2>1. UP!Without(i) = Rest(calls, i)
    BY DEF UP!Without, Rest
  <2>2. CASE UP!ShowList(i) \/ UP!NotCreated(i) \/ UP!PasswordReset(i)
    BY <1>1, <2>1, <2>2 DEF UP!ShowList, UP!NotCreated,
       UP!PasswordReset, UsersMove, UsersSettle, UsersFields, RowOps
  <2>3. CASE UP!Created(i)
    BY <1>1, <2>1, <2>3 DEF UP!Created, UP!Fetch, UP!ListCall, Says,
       UsersMove, UsersSettle, UsersFields, RowOps
  <2>4. CASE UP!Toggled(i)
    BY <1>1, <2>1, <2>4 DEF UP!Toggled, UP!Fetch, UP!ListCall, Says,
       UsersMove, UsersSettle, UsersFields, RowOps
  <2>5. CASE UP!Lost(i)
    BY <1>1, <2>1, <2>5 DEF UP!Lost, UsersMove, UsersSettle, UsersFields, RowOps
  <2>6. QED
    BY <1>10, <2>2, <2>3, <2>4, <2>5 DEF UP!Settle
<1>11. QED
  BY <1>2, <1>4, <1>5, <1>6, <1>7, <1>8, <1>9, <1>10, Zenon DEF UP!Next, UP!Click

-----------------------------------------------------------------------------
(* Requests, whatever they say *)

LEMMA Answering ==
    ASSUME NEW s, s \in Seq(Elements(s)), NEW i \in DOMAIN s, NEW a, NEW t,
           t = [s EXCEPT ![i].answer = a]
    PROVE  /\ t \in Seq(Elements(t)) /\ DOMAIN t = DOMAIN s
           /\ \A j \in DOMAIN s : j # i => t[j] = s[j]
           /\ DOMAIN t[i] = DOMAIN s[i]
           /\ \A y \in DOMAIN s[i] : t[i][y] = IF y = "answer" THEN a ELSE s[i][y]
<1> DEFINE x == "answer"
           r == [s[i] EXCEPT ![x] = a]
<1>1. DOMAIN s = 1..Len(s) /\ Len(s) \in Nat
  BY OwnElements
<1>2. t = [s EXCEPT ![i] = r]
  OBVIOUS
<1> HIDE DEF x
<1>3. DOMAIN r = DOMAIN s[i] /\ \A y \in DOMAIN s[i] : r[y] = IF y = x THEN a ELSE s[i][y]
  OBVIOUS
<1> HIDE DEF r
<1>4. DOMAIN t = DOMAIN s /\ t[i] = r /\ \A j \in DOMAIN s : j # i => t[j] = s[j]
  BY <1>2
<1>5. t \in Seq(Elements(s) \cup {r})
  BY <1>1, <1>2
<1>6. t \in Seq(Elements(t))
  BY <1>5, OwnElements
<1>7. QED
  BY <1>3, <1>4, <1>6 DEF x

LEMMA Sending ==
    ASSUME NEW s, s \in Seq(Elements(s)), NEW e
    PROVE  Append(s, e) \in Seq(Elements(Append(s, e))) /\ IsSent(s, Append(s, e), e)
<1> DEFINE t == Append(s, e)
           S == Elements(s) \cup {e}
<1>1. s \in Seq(S) /\ e \in S
  OBVIOUS
<1> HIDE DEF S
<1>2. /\ t \in Seq(S) /\ DOMAIN t = 1..(Len(s) + 1)
      /\ DOMAIN s = 1..Len(s) /\ Len(s) \in Nat
      /\ \A j \in 1..Len(s) : t[j] = s[j]
      /\ t[Len(s) + 1] = e
  BY <1>1, OneMore
<1> HIDE DEF t
<1>3. t \in Seq(Elements(t))
  BY <1>2, OwnElements
<1>4. QED
  BY <1>2, <1>3 DEF IsSent, t

LEMMA Going ==
    ASSUME NEW s, s \in Seq(Elements(s)), NEW i \in DOMAIN s
    PROVE  Rest(s, i) \in Seq(Elements(Rest(s, i))) /\ IsGone(s, Rest(s, i), i)
<1> DEFINE S == Elements(s)
           r == Rest(s, i)
<1>1. s \in Seq(S)
  OBVIOUS
<1> HIDE DEF S
<1>2. r \in Seq(S) /\ IsGone(s, r, i)
  BY <1>1, Moved, RestOrder DEF IsGone
<1> HIDE DEF r
<1>3. r \in Seq(Elements(r))
  BY <1>2, OwnElements
<1>4. QED
  BY <1>2, <1>3 DEF r

\* One has gone, and perhaps e was sent: the others are still there.
IsFollowed(s, t, i, e) ==
    /\ t \in Seq(Elements(t))
    /\ \A j \in DOMAIN t : t[j] = e \/ \E k \in DOMAIN s : k # i /\ t[j] = s[k]
    /\ \A k \in DOMAIN s : k # i => \E j \in DOMAIN t : t[j] = s[k]

LEMMA GoingOn ==
    ASSUME NEW s, s \in Seq(Elements(s)), NEW i \in DOMAIN s, NEW e
    PROVE  IsFollowed(s, Rest(s, i), i, e) /\ IsFollowed(s, Append(Rest(s, i), e), i, e)
<1> DEFINE r == Rest(s, i)
           t == Append(r, e)
<1>1. r \in Seq(Elements(r)) /\ IsGone(s, r, i)
  BY Going
<1>2. /\ \A j \in DOMAIN r : \E k \in DOMAIN s : k # i /\ r[j] = s[k]
      /\ \A k \in DOMAIN s : k # i => \E j \in DOMAIN r : r[j] = s[k]
  BY <1>1 DEF IsGone
<1>3. IsFollowed(s, r, i, e)
  BY <1>1, <1>2 DEF IsFollowed
<1> HIDE DEF r
<1>4. t \in Seq(Elements(t)) /\ IsSent(r, t, e)
  BY <1>1, Sending
<1> HIDE DEF t
<1>5. /\ DOMAIN r \subseteq DOMAIN t /\ \A j \in DOMAIN r : t[j] = r[j]
      /\ \A j \in DOMAIN t : j \in DOMAIN r \/ t[j] = e
  BY <1>4 DEF IsSent
<1>6. IsFollowed(s, t, i, e)
  BY <1>2, <1>4, <1>5 DEF IsFollowed
<1>7. QED
  BY <1>3, <1>6 DEF r, t

-----------------------------------------------------------------------------
(* What the page Usuarios shows, and the passwords it has drawn *)

UsersOps    == {"list", "create"} \cup RowOps
UsersShown  == {"query", "typed", "timer", "rows", "total", "confirm"}
TermsFindUsers == NoTerm \in Terms /\ \A t \in Terms : Found[t] \subseteq Users

\* What the page names is in the table: nobody is ever removed from it.
Known(u, table) == u \in Users /\ table[u] # None

UsersView(v, table) ==
    /\ UsersShown \subseteq DOMAIN v
    /\ "search" \in DOMAIN v.query /\ v.query.search \in Terms /\ v.typed \in Terms
    /\ \A row \in v.rows : Known(row.id, table)
    /\ v.confirm # None => Known(v.confirm.id, table)

UserCall(c, table) ==
    /\ {"op", "query", "answer"} \subseteq DOMAIN c /\ c.op \in UsersOps
    /\ c.query.search \in Terms
    /\ c.op = "list" /\ c.answer # None => \A row \in c.answer.rows : Known(row.id, table)
    /\ c.op = "create" => "user" \in DOMAIN c /\ c.user \in Users
    /\ c.op \in RowOps => "user" \in DOMAIN c /\ Known(c.user, table)

UsersTable(s) ==
    /\ {"users", "drawn"} \subseteq DOMAIN s /\ DOMAIN s.users = Users /\ s.drawn \in Nat
    /\ \A u \in Users : s.users[u] # None =>
         {"active", "password"} \subseteq DOMAIN s.users[u] /\ s.users[u].password \in Nat

UsersShape ==
    /\ UsersView(view, server.users) /\ UsersTable(server)
    /\ {"calm", "seen", "lost"} \subseteq DOMAIN hist
    /\ calls \in Seq(Elements(calls))
    /\ \A i \in DOMAIN calls : UserCall(calls[i], server.users)

\* The rows and their number are right for the query, or will be.
TotalOf(t)   == UP!Cardinality(UP!Matching(t))
UserLists(s) == {i \in DOMAIN s : s[i].op = "list"}
FreshUsers(s, q, rows, total) ==
    {i \in UserLists(s) : /\ s[i].query = q
                          /\ \/ s[i].answer = None
                             \/ s[i].answer.rows = rows /\ s[i].answer.total = total}
UserChange(c) ==
    \/ c.op = "create" /\ c.answer \notin {None, 0}
    \/ c.op = "setActive" /\ c.answer # None
UserWrites == {"create", "setActive"}
UsersTruth(s, v, rows, total) ==
    Truth(UserLists(s), FreshUsers(s, v.query, rows, total),
          \E i \in DOMAIN s : UserChange(s[i]), v.rows = rows /\ v.total = total)

UsersTruthOk ==
    hist.calm =>
      /\ \A i \in DOMAIN calls : calls[i].op \in UserWrites => calls[i].query = view.query
      /\ UsersTruth(calls, view, UP!RowsOf(view.query), TotalOf(view.query.search))

\* A password in force that was drawn is in an answer under way for its user, was
\* seen under the user's name, or was lost.
UsersKeptOk ==
    \A u \in Users :
      server.users[u] # None /\ server.users[u].password # 0 =>
        \/ \E i \in DOMAIN calls : /\ Holds(calls[i], server.users[u].password)
                                   /\ calls[i].user = u
        \/ [of |-> u, value |-> server.users[u].password] \in hist.seen
        \/ server.users[u].password \in hist.lost

\* n was drawn before now, unless it is 0, and is the password of nobody but u.
Claim(u, n, s) ==
    /\ n \in Nat /\ n <= s.drawn
    /\ \A v \in Users : s.users[v] # None /\ n # 0 /\ s.users[v].password = n => v = u

\* What is in an answer, or was seen, is nobody else's; every number drawn is new.
UsersNamedOk ==
    /\ \A u \in Users : server.users[u] # None => server.users[u].password <= server.drawn
    /\ \A i \in DOMAIN calls :
         calls[i].op \in Draws /\ calls[i].answer # None => Claim(calls[i].user, calls[i].answer, server)
    /\ \A secret \in hist.seen : Claim(secret.of, secret.value, server)

UsersSecretsOk == UsersKeptOk /\ UsersNamedOk

UsersTruthInv == UsersInv /\ UsersShape /\ UsersTruthOk /\ UsersSecretsOk

\* The display is as before, but for flags, the search field and a confirmation.
UsersSameShown ==
    /\ UsersView(view', server.users)
    /\ view'.rows = view.rows /\ view'.total = view.total /\ view'.query = view.query

LEMMA UsersSameTables ==
    ASSUME server' = server
    PROVE  (\A q : UP!RowsOf(q)' = UP!RowsOf(q)) /\ \A t : TotalOf(t)' = TotalOf(t)
BY DEF UP!RowsOf, UP!OnPage, UP!Matching, TotalOf, UP!Newer

LEMMA UsersClickKeeps ==
    ASSUME UsersTruthInv, UsersSameShown, UNCHANGED <<calls, server, hist>>
    PROVE  UsersShape' /\ UsersTruthOk' /\ UsersSecretsOk'
<1>1. UsersShape' /\ UsersSecretsOk'
  <2>1. UsersShape' /\ UsersKeptOk'
    BY DEF UsersTruthInv, UsersShape, UsersSecretsOk, UsersKeptOk, UsersSameShown
  <2>2. UsersNamedOk'
    BY DEF UsersTruthInv, UsersSecretsOk, UsersNamedOk, Claim
  <2>3. QED
    BY <2>1, <2>2 DEF UsersSecretsOk
<1>2. UsersTruthOk'
  <2>1. /\ UP!RowsOf(view.query)' = UP!RowsOf(view.query)
        /\ TotalOf(view.query.search)' = TotalOf(view.query.search)
    BY DEF UP!RowsOf, UP!OnPage, UP!Matching, TotalOf, UP!Newer, UsersSameShown
  <2>2. QED
    BY <2>1 DEF UsersTruthInv, UsersTruthOk, UsersTruth, UsersSameShown
<1>3. QED
  BY <1>1, <1>2

\* Another request is under way, and the tables are as before.
LEMMA UsersSecretsStay ==
    ASSUME UsersSecretsOk, server' = server, hist'.seen = hist.seen, hist'.lost = hist.lost,
           DOMAIN calls \subseteq DOMAIN calls', \A j \in DOMAIN calls : calls'[j] = calls[j],
           \A j \in DOMAIN calls' : calls'[j].answer # None => j \in DOMAIN calls /\ calls'[j] = calls[j]
    PROVE  UsersSecretsOk'
<1>1. UsersKeptOk'
  BY DEF UsersSecretsOk, UsersKeptOk
<1>2. UsersNamedOk'
  BY DEF UsersSecretsOk, UsersNamedOk, Claim
<1>3. QED
  BY <1>1, <1>2 DEF UsersSecretsOk

\* The page sends a request that changes something.
LEMMA UsersWriteKeeps ==
    ASSUME UsersTruthInv, UsersSameShown, UNCHANGED <<server, hist>>, NEW e,
           calls' = Append(calls, e), UserCall(e, server.users), e.op # "list",
           e.answer = None, e.query = view.query
    PROVE  UsersShape' /\ UsersTruthOk' /\ UsersSecretsOk'
<1>1. calls' \in Seq(Elements(calls')) /\ IsSent(calls, calls', e)
  BY Sending DEF UsersTruthInv, UsersShape
<1>2. /\ DOMAIN calls \subseteq DOMAIN calls' /\ \A j \in DOMAIN calls : calls'[j] = calls[j]
      /\ \A j \in DOMAIN calls' : j \in DOMAIN calls \/ calls'[j] = e
  BY <1>1 DEF IsSent
<1>3. UsersShape'
  BY <1>1, <1>2 DEF UsersTruthInv, UsersShape, UsersSameShown
<1>4. UsersSecretsOk'
  <2>1. \A j \in DOMAIN calls' : calls'[j].answer # None => j \in DOMAIN calls /\ calls'[j] = calls[j]
    BY <1>2
  <2>2. QED
    BY <1>2, <2>1, UsersSecretsStay DEF UsersTruthInv
<1>5. UsersTruthOk'
  <2>1. /\ UP!RowsOf(view.query)' = UP!RowsOf(view.query)
        /\ TotalOf(view.query.search)' = TotalOf(view.query.search)
    BY DEF UP!RowsOf, UP!OnPage, UP!Matching, TotalOf, UP!Newer, UsersSameShown
  <2>2. /\ UserLists(calls') = UserLists(calls)
        /\ \A q, rows, total : FreshUsers(calls', q, rows, total) = FreshUsers(calls, q, rows, total)
        /\ (\E j \in DOMAIN calls' : UserChange(calls'[j])) <=>
             \E j \in DOMAIN calls : UserChange(calls[j])
    BY <1>2 DEF UserLists, FreshUsers, UserChange
  <2>3. ASSUME NEW rows, NEW total, UsersTruth(calls, view, rows, total)
        PROVE  UsersTruth(calls', view', rows, total)
    <3>1. FreshUsers(calls', view'.query, rows, total) = FreshUsers(calls, view.query, rows, total)
      BY <2>2 DEF UsersSameShown
    <3>2. QED
      BY <2>2, <2>3, <3>1 DEF UsersTruth, Truth, UsersSameShown
  <2>4. ASSUME hist.calm
        PROVE  /\ \A j \in DOMAIN calls' : calls'[j].op \in UserWrites => calls'[j].query = view.query
               /\ UsersTruth(calls', view', UP!RowsOf(view.query), TotalOf(view.query.search))
    BY <1>2, <2>3, <2>4 DEF UsersTruthInv, UsersTruthOk
  <2>5. QED
    BY <2>1, <2>4 DEF UsersTruthOk, UsersSameShown
<1>6. QED
  BY <1>3, <1>4, <1>5

\* The page shows another query: the newest request is the one for its rows.
LEMMA UsersAskKeeps ==
    ASSUME UsersTruthInv, NEW q, NEW e, UNCHANGED server, calls' = Append(calls, e),
           UsersView(view', server.users), view'.query = q, q.search \in Terms,
           {"op", "query", "answer"} \subseteq DOMAIN e,
           e.op = "list", e.query = q, e.answer = None,
           hist' = IF UP!Pending(UP!Writes) THEN UP!Disturbed ELSE UP!Asked(calls, TRUE)
    PROVE  UsersShape' /\ UsersTruthOk' /\ UsersSecretsOk'
<1>1. calls' \in Seq(Elements(calls')) /\ IsSent(calls, calls', e)
  BY Sending DEF UsersTruthInv, UsersShape
<1>2. /\ DOMAIN calls \subseteq DOMAIN calls' /\ \A j \in DOMAIN calls : calls'[j] = calls[j]
      /\ \A j \in DOMAIN calls' : j \in DOMAIN calls \/ calls'[j] = e
      /\ Len(calls) + 1 \in DOMAIN calls' /\ calls'[Len(calls) + 1] = e
  BY <1>1 DEF IsSent
<1>3. /\ {"calm", "seen", "lost"} \subseteq DOMAIN hist' /\ hist'.seen = hist.seen
      /\ hist'.lost = hist.lost
      /\ hist'.calm => \A j \in DOMAIN calls : calls[j].op \notin UserWrites
  BY DEF UsersTruthInv, UsersShape, UP!Disturbed, UP!Asked, UP!Pending, UP!Writes, UserWrites
<1>4. UserCall(e, server.users)
  BY DEF UserCall, UsersOps, RowOps
<1>5. UsersShape'
  BY <1>1, <1>2, <1>3, <1>4 DEF UsersTruthInv, UsersShape
<1>6. UsersSecretsOk'
  <2>1. \A j \in DOMAIN calls' : calls'[j].answer # None => j \in DOMAIN calls /\ calls'[j] = calls[j]
    BY <1>2
  <2>2. QED
    BY <1>2, <1>3, <2>1, UsersSecretsStay DEF UsersTruthInv
<1>7. ASSUME NEW rows, NEW total PROVE UsersTruth(calls', view', rows, total)
  <2> DEFINE L == UserLists(calls')
             F == FreshUsers(calls', q, rows, total)
             dirty == \E j \in DOMAIN calls' : UserChange(calls'[j])
             shown == view'.rows = rows /\ view'.total = total
  <2>1. L \in SUBSET DOMAIN calls' /\ Len(calls) + 1 \in F
    BY <1>2 DEF UserLists, FreshUsers
  <2> HIDE DEF L, F, dirty, shown
  <2>2. Truth(L, F, dirty, shown)
    BY <1>1, <2>1, TruthAsked
  <2>3. QED
    BY <2>2 DEF UsersTruth, L, F, dirty, shown
<1>8. UsersTruthOk'
  <2>1. ASSUME hist'.calm, NEW j \in DOMAIN calls', calls'[j].op \in UserWrites PROVE FALSE
    BY <1>2, <1>3, <2>1 DEF UserWrites
  <2>2. UsersTruth(calls, view, UP!RowsOf(view.query), TotalOf(view.query.search))'
    BY <1>7
  <2>3. QED
    BY <2>1, <2>2 DEF UsersTruthOk
<1>9. QED
  BY <1>5, <1>6, <1>8

\* What the answer a to request i, and the tables with it, may be.
UsersServed(i, a) ==
    LET c == calls[i] IN
      /\ UsersTable(server')
      /\ \A u \in Users : server.users[u] # None => server'.users[u] # None
      /\ \/ UserChange([op |-> c.op, answer |-> a])
         \/ \A q : q.search \in Terms => UP!RowsOf(q)' = UP!RowsOf(q) /\ TotalOf(q.search)' = TotalOf(q.search)
      /\ c.op = "list" => a.rows = UP!RowsOf(c.query) /\ a.total = TotalOf(c.query.search)
      /\ server.drawn <= server'.drawn
      /\ c.op \in Draws => a \in {0, server.drawn + 1} /\ a <= server'.drawn
      /\ \A u \in Users : server'.users[u] # None =>
           \/ server.users[u] # None /\ server'.users[u].password = server.users[u].password
           \/ /\ c.op \in Draws /\ u = c.user /\ server'.users[u].password = a
              /\ a = server.drawn + 1

LEMMA RowsAreKnown ==
    ASSUME TermsFindUsers, NEW q, q.search \in Terms
    PROVE  \A row \in UP!RowsOf(q) : Known(row.id, server.users)
<1> DEFINE S == UP!Matching(q.search)
<1>1. \A u \in S : Known(u, server.users)
  BY DEF TermsFindUsers, UP!Matching, Known
<1> HIDE DEF S
<1>2. UP!OnPage(q, S) \subseteq S
  BY DEF UP!OnPage
<1>3. QED
  BY <1>1, <1>2 DEF UP!RowsOf, S

LEMMA UsersSameRows ==
    ASSUME TermsFindUsers, NEW q, q.search \in Terms,
           \A u \in Users : /\ server'.users[u] = None <=> server.users[u] = None
                            /\ server.users[u] # None =>
                                 server'.users[u].active = server.users[u].active
    PROVE  UP!RowsOf(q)' = UP!RowsOf(q) /\ TotalOf(q.search)' = TotalOf(q.search)
<1> DEFINE S == UP!Matching(q.search)
<1>1. S \subseteq Users /\ UP!Matching(q.search)' = S /\ \A u \in S : server.users[u] # None
  BY DEF TermsFindUsers, UP!Matching
<1>2. TotalOf(q.search)' = TotalOf(q.search)
  BY <1>1 DEF TotalOf
<1> HIDE DEF S
<1>3. UP!OnPage(q, UP!Matching(q.search))' = UP!OnPage(q, S) /\ UP!OnPage(q, S) \subseteq S
  BY <1>1 DEF UP!OnPage, UP!Newer
<1>4. UP!RowsOf(q)' = UP!RowsOf(q)
  BY <1>1, <1>3 DEF UP!RowsOf, S
<1>5. QED
  BY <1>2, <1>4

\* None, a value like no other for TLC, is neither a number nor a record.
NoneIsNoUser == None \notin Nat /\ "password" \notin DOMAIN None

LEMMA UsersServeIs ==
    ASSUME UsersTruthInv, TermsFindUsers, NoneIsNoUser, NEW i \in DOMAIN calls, UP!Serve(i)
    PROVE  /\ calls[i].answer = None /\ UNCHANGED <<view, hist>>
           /\ \E a : calls' = [calls EXCEPT ![i].answer = a] /\ UsersServed(i, a)
<1> DEFINE c == calls[i]
           table == server.users
           n == server.drawn + 1
<1>1. UsersTable(server) /\ UserCall(c, table) /\ None \notin Nat
  BY DEF UsersTruthInv, UsersShape, NoneIsNoUser
<1>2. server.drawn \in Nat /\ n \in Nat /\ n \notin {None, 0}
  BY <1>1 DEF UsersTable
<1>3. ASSUME NEW u \in Users, NEW r, {"active", "password"} \subseteq DOMAIN r, r.password \in Nat,
             server'.users = [table EXCEPT ![u] = r], server'.drawn \in Nat,
             {"users", "drawn"} \subseteq DOMAIN server'
      PROVE  /\ UsersTable(server') /\ \A v \in Users : table[v] # None => server'.users[v] # None
             /\ server'.users[u] = r /\ r # None
             /\ \A v \in Users : v # u => server'.users[v] = table[v]
  BY <1>1, <1>3 DEF UsersTable, NoneIsNoUser
<1>4. CASE UP!ServeList(i)
  <2> DEFINE q == c.query
             a == [rows |-> UP!RowsOf(q), total |-> TotalOf(q.search),
                   pages |-> UP!PagesOf(TotalOf(q.search), q.limit)]
  <2>1. /\ c.op = "list" /\ c.answer = None /\ UNCHANGED <<view, server, hist>>
        /\ calls' = [calls EXCEPT ![i].answer = a]
    BY <1>4 DEF UP!ServeList, UP!Answered, TotalOf
  <2>2. a.rows = UP!RowsOf(q) /\ a.total = TotalOf(q.search)
    OBVIOUS
  <2> HIDE DEF a
  <2>3. UsersServed(i, a)
    BY <1>1, <1>2, <2>1, <2>2, UsersSameTables DEF UsersServed, Draws
  <2>4. QED
    BY <2>1, <2>3
\* A password is drawn.
<1>5. ASSUME NEW r, c.op \in {"create", "reset"}, {"active", "password"} \subseteq DOMAIN r,
             UP!DrawFor(i, r),
             \/ c.op = "create"
             \/ c.op = "reset" /\ r = table[c.user]
      PROVE  \E a : calls' = [calls EXCEPT ![i].answer = a] /\ UsersServed(i, a)
  <2> DEFINE x == [r EXCEPT !.password = n]
             u == c.user
  <2>1. /\ server' = [users |-> [table EXCEPT ![u] = x], drawn |-> n]
        /\ calls' = [calls EXCEPT ![i].answer = n]
    BY <1>5 DEF UP!DrawFor, UP!Answered
  <2>2. {"active", "password"} \subseteq DOMAIN x /\ x.password = n /\ x.active = r.active
    BY <1>5
  <2>3. u \in Users
    BY <1>1, <1>5 DEF UserCall, RowOps, Known
  <2> HIDE DEF x, u
  <2>4. server'.users = [table EXCEPT ![u] = x] /\ server'.drawn = n /\ DOMAIN server' = {"users", "drawn"}
    BY <2>1
  <2> HIDE DEF n, table
  <2>a. x.password \in Nat /\ server'.drawn \in Nat /\ {"users", "drawn"} \subseteq DOMAIN server'
    BY <1>2, <2>2, <2>4
  <2>5. /\ UsersTable(server') /\ \A v \in Users : table[v] # None => server'.users[v] # None
        /\ server'.users[u] = x /\ x # None
        /\ \A v \in Users : v # u => server'.users[v] = table[v]
    BY <1>3, <2>2, <2>3, <2>4, <2>a
  <2>6. \/ UserChange([op |-> c.op, answer |-> n])
        \/ \A q : q.search \in Terms => UP!RowsOf(q)' = UP!RowsOf(q) /\ TotalOf(q.search)' = TotalOf(q.search)
    <3>1. CASE c.op = "create"
      BY <1>2, <3>1 DEF UserChange
    <3>2. CASE c.op = "reset" /\ r = table[u]
      <4>1. table[u] # None
        BY <1>1, <3>2 DEF UserCall, RowOps, Known, u, table
      <4>2. \A v \in Users : /\ server'.users[v] = None <=> table[v] = None
                             /\ table[v] # None => server'.users[v].active = table[v].active
        BY <2>2, <2>5, <3>2, <4>1
      <4>3. QED
        BY <4>2, UsersSameRows DEF table
    <3>3. QED
      BY <1>5, <3>1, <3>2 DEF u
  <2>7. \A v \in Users : server'.users[v] # None =>
           \/ table[v] # None /\ server'.users[v].password = table[v].password
           \/ c.op \in Draws /\ v = c.user /\ server'.users[v].password = n
    BY <1>5, <2>2, <2>5 DEF Draws, u
  <2>8. c.op # "list"
    BY <1>5
  <2>b. n = server.drawn + 1 /\ n \in Nat /\ server.drawn <= n
    BY <1>2 DEF n
  <2>9. UsersServed(i, n)
    BY <2>4, <2>5, <2>6, <2>7, <2>8, <2>b DEF UsersServed, table
  <2>10. QED
    BY <2>1, <2>9
<1>6. CASE UP!ServeCreate(i)
  <2>1. c.op = "create" /\ c.answer = None /\ UNCHANGED <<view, hist>> /\ c.user \in Users
    BY <1>1, <1>6 DEF UP!ServeCreate, UserCall
  <2>2. CASE table[c.user] = None
    <3> DEFINE r == [active |-> TRUE, password |-> 0]
    <3>1. UP!DrawFor(i, r) /\ {"active", "password"} \subseteq DOMAIN r
      BY <1>6, <2>2 DEF UP!ServeCreate
    <3>2. QED
      BY <1>5, <2>1, <3>1
  <2>3. CASE table[c.user] # None
    <3>1. server' = server /\ calls' = [calls EXCEPT ![i].answer = 0]
      BY <1>6, <2>3 DEF UP!ServeCreate, UP!Answered
    <3>2. UsersServed(i, 0)
      BY <1>1, <1>2, <2>1, <3>1, UsersSameTables DEF UsersServed
    <3>3. QED
      BY <2>1, <3>1, <3>2
  <2>4. QED
    BY <2>2, <2>3
<1>7. CASE UP!ServeReset(i)
  <2>1. /\ c.op = "reset" /\ c.answer = None /\ UNCHANGED <<view, hist>>
        /\ UP!DrawFor(i, table[c.user])
    BY <1>7 DEF UP!ServeReset
  <2>2. {"active", "password"} \subseteq DOMAIN table[c.user]
    BY <1>1, <2>1 DEF UserCall, RowOps, Known, UsersTable
  <2>3. QED
    BY <1>5, <2>1, <2>2
<1>8. CASE UP!ServeSetActive(i)
  <2> DEFINE u == c.user
             x == [table[u] EXCEPT !.active = c.active]
  <2>1. /\ c.op = "setActive" /\ c.answer = None /\ UNCHANGED <<view, hist>>
        /\ server' = [server EXCEPT !.users[u].active = c.active]
        /\ calls' = [calls EXCEPT ![i].answer = 0]
    BY <1>8 DEF UP!ServeSetActive, UP!Answered
  <2>2. u \in Users /\ table[u] # None /\ {"active", "password"} \subseteq DOMAIN table[u]
        /\ table[u].password \in Nat
    BY <1>1, <2>1 DEF UserCall, RowOps, Known, UsersTable
  <2>3. {"active", "password"} \subseteq DOMAIN x /\ x.password = table[u].password
    BY <2>2
  <2>4. /\ DOMAIN server' = DOMAIN server /\ server'.users = [table EXCEPT ![u] = x]
        /\ server'.drawn = server.drawn
    BY <1>1, <2>1 DEF UsersTable
  <2> HIDE DEF x, u
  <2>5. {"users", "drawn"} \subseteq DOMAIN server' /\ server'.drawn \in Nat
    BY <1>1, <2>4 DEF UsersTable
  <2> HIDE DEF table
  <2>6. /\ UsersTable(server') /\ \A v \in Users : table[v] # None => server'.users[v] # None
        /\ server'.users[u] = x
        /\ \A v \in Users : v # u => server'.users[v] = table[v]
    BY <1>3, <2>2, <2>3, <2>4, <2>5
  <2>7. UserChange([op |-> c.op, answer |-> 0]) /\ c.op # "list"
    BY <1>1, <2>1 DEF UserChange
  <2>8. UsersServed(i, 0)
    BY <1>2, <2>1, <2>2, <2>3, <2>4, <2>6, <2>7 DEF UsersServed, table, Draws
  <2>9. QED
    BY <2>1, <2>8
<1>9. calls[i].answer = None /\ UNCHANGED <<view, hist>>
  BY DEF UP!Serve, UP!ServeList, UP!ServeCreate, UP!ServeSetActive, UP!ServeReset
<1>10. QED
  BY <1>4, <1>6, <1>7, <1>8, <1>9 DEF UP!Serve

LEMMA UsersServeKeeps ==
    ASSUME UsersTruthInv, TermsFindUsers, NoneIsNoUser, NEW i \in DOMAIN calls, UP!Serve(i)
    PROVE  UsersShape' /\ UsersTruthOk' /\ UsersSecretsOk'
<1>1. PICK a : /\ calls[i].answer = None /\ UNCHANGED <<view, hist>>
               /\ calls' = [calls EXCEPT ![i].answer = a] /\ UsersServed(i, a)
  BY UsersServeIs
<1>2. calls \in Seq(Elements(calls)) /\ \A j \in DOMAIN calls : UserCall(calls[j], server.users)
  BY DEF UsersTruthInv, UsersShape
<1>3. /\ calls' \in Seq(Elements(calls')) /\ DOMAIN calls' = DOMAIN calls
      /\ \A j \in DOMAIN calls : j # i => calls'[j] = calls[j]
      /\ DOMAIN calls'[i] = DOMAIN calls[i]
      /\ \A y \in DOMAIN calls[i] : calls'[i][y] = IF y = "answer" THEN a ELSE calls[i][y]
  BY <1>1, <1>2, Answering
<1>4. /\ calls'[i].answer = a /\ calls'[i].op = calls[i].op /\ calls'[i].query = calls[i].query
      /\ "user" \in DOMAIN calls[i] => calls'[i].user = calls[i].user
  BY <1>2, <1>3 DEF UserCall
<1>5. \A u : Known(u, server.users) => Known(u, server'.users)
  BY <1>1 DEF Known, UsersServed
<1>6. \A j \in DOMAIN calls : j # i => UserCall(calls[j], server'.users)
  BY <1>2, <1>5 DEF UserCall
<1>7. UserCall(calls'[i], server'.users)
  <2>1. calls[i].op = "list" => \A row \in a.rows : Known(row.id, server.users)
    BY <1>1, <1>2, RowsAreKnown DEF UsersServed, UserCall
  <2>2. QED
    BY <1>2, <1>3, <1>4, <1>5, <2>1 DEF UserCall
<1>8. UsersShape'
  <2>1. UsersView(view', server'.users)
    BY <1>1, <1>5 DEF UsersTruthInv, UsersShape, UsersView
  <2>2. \A j \in DOMAIN calls' : UserCall(calls'[j], server'.users)
    BY <1>3, <1>6, <1>7
  <2>3. QED
    BY <1>1, <1>3, <2>1, <2>2 DEF UsersTruthInv, UsersShape, UsersServed
<1>9. UsersSecretsOk'
  <2> DEFINE n == server.drawn
  <2>1. /\ n \in Nat /\ server'.drawn \in Nat /\ n <= server'.drawn
        /\ \A u \in Users : server.users[u] # None => server.users[u].password \in Nat
        /\ \A u \in Users : server.users[u] # None => server.users[u].password <= n
    BY <1>1 DEF UsersTruthInv, UsersShape, UsersTable, UsersServed, UsersSecretsOk, UsersNamedOk
  <2>2. \A u \in Users : server'.users[u] # None =>
           \/ server.users[u] # None /\ server'.users[u].password = server.users[u].password
           \/ /\ calls[i].op \in Draws /\ u = calls[i].user /\ server'.users[u].password = a
              /\ a = n + 1
    BY <1>1 DEF UsersServed
  <2>3. calls[i].op \in Draws => "user" \in DOMAIN calls[i] /\ calls'[i].user = calls[i].user
    <3>1. calls[i].op \in Draws => calls[i].op \in {"create"} \cup RowOps
      BY <1>2 DEF UserCall, Draws, UsersOps
    <3>2. QED
      BY <1>2, <1>4, <3>1 DEF UserCall
  <2>4. calls[i].op \in Draws => a \in {0, n + 1} /\ a \in Nat /\ a <= server'.drawn
    BY <1>1, <2>1 DEF UsersServed
  <2> HIDE DEF n
\* What nobody else had is nobody else's now: a password that is new is larger.
  <2>5. ASSUME NEW u, NEW x, Claim(u, x, server) PROVE Claim(u, x, server')
    <3>1. x \in Nat /\ x <= n /\ x <= server'.drawn
      BY <2>1, <2>5 DEF Claim, n
    <3>2. ASSUME NEW v \in Users, server'.users[v] # None, x # 0, server'.users[v].password = x
          PROVE  v = u
      <4>1. x # n + 1
        BY <2>1, <3>1
      <4>2. server.users[v] # None /\ server.users[v].password = x
        BY <2>2, <3>2, <4>1
      <4>3. QED
        BY <2>5, <3>2, <4>2 DEF Claim
    <3>3. QED
      BY <3>1, <3>2 DEF Claim
  <2>6. ASSUME calls[i].op \in Draws PROVE Claim(calls[i].user, a, server')
    <3>1. ASSUME NEW v \in Users, server'.users[v] # None, a # 0, server'.users[v].password = a
          PROVE  v = calls[i].user
      <4>1. a = n + 1 /\ ~(server.users[v] # None /\ server.users[v].password = a)
        BY <2>1, <2>4, <2>6, <3>1
      <4>2. QED
        BY <2>2, <3>1, <4>1
    <3>2. QED
      BY <1>3, <1>4, <2>3, <2>4, <2>6, <3>1 DEF Claim
  <2>7. UsersNamedOk'
    <3>1. \A u \in Users : server'.users[u] # None => server'.users[u].password <= server'.drawn
      BY <2>1, <2>2, <2>4
    <3>2. \A j \in DOMAIN calls' : calls'[j].op \in Draws /\ calls'[j].answer # None =>
                                   Claim(calls'[j].user, calls'[j].answer, server')
      <4>1. ASSUME NEW j \in DOMAIN calls, j # i, calls[j].op \in Draws, calls[j].answer # None
            PROVE  Claim(calls[j].user, calls[j].answer, server')
        BY <1>3, <2>5, <4>1 DEF UsersTruthInv, UsersSecretsOk, UsersNamedOk
      <4>2. QED
        BY <1>3, <1>4, <2>3, <2>6, <4>1
    <3>3. \A secret \in hist.seen : Claim(secret.of, secret.value, server')
      BY <2>5 DEF UsersTruthInv, UsersSecretsOk, UsersNamedOk
    <3>4. QED
      BY <1>1, <3>1, <3>2, <3>3 DEF UsersNamedOk
  <2>8. ASSUME NEW u \in Users, server'.users[u] # None, server'.users[u].password # 0
        PROVE  \/ \E j \in DOMAIN calls' : /\ Holds(calls'[j], server'.users[u].password)
                                         /\ calls'[j].user = u
               \/ [of |-> u, value |-> server'.users[u].password] \in hist.seen
               \/ server'.users[u].password \in hist.lost
    <3>1. CASE calls[i].op \in Draws /\ u = calls[i].user /\ server'.users[u].password = a
      BY <1>3, <1>4, <2>3, <3>1 DEF Holds
    <3>2. CASE server.users[u] # None /\ server'.users[u].password = server.users[u].password
      <4>1. server.users[u].password # None
        BY <3>2 DEF UsersTruthInv, UsersShape, UsersTable, NoneIsNoUser
      <4>2. \A j \in DOMAIN calls : Holds(calls[j], server.users[u].password) => j # i
        BY <1>1, <4>1 DEF Holds
      <4>3. QED
        BY <1>3, <2>8, <3>2, <4>2 DEF UsersTruthInv, UsersSecretsOk, UsersKeptOk
    <3>3. QED
      BY <2>2, <2>8, <3>1, <3>2
  <2>9. UsersKeptOk'
    BY <1>1, <2>8 DEF UsersKeptOk
  <2>10. QED
    BY <2>7, <2>9 DEF UsersSecretsOk
<1>10. ASSUME hist'.calm
       PROVE  /\ \A j \in DOMAIN calls' : calls'[j].op \in UserWrites => calls'[j].query = view.query
              /\ UsersTruth(calls', view', UP!RowsOf(view.query)', TotalOf(view.query.search)')
  <2>0. PICK q : q = view.query
    OBVIOUS
  <2> DEFINE rows == UP!RowsOf(q)
             total == TotalOf(q.search)
             dirty == \E j \in DOMAIN calls : UserChange(calls[j])
             dirtyNow == \E j \in DOMAIN calls' : UserChange(calls'[j])
             shown == view.rows = rows /\ view.total = total
             L == UserLists(calls)
             F == FreshUsers(calls, q, rows, total)
  <2>1. /\ \A j \in DOMAIN calls : calls[j].op \in UserWrites => calls[j].query = q
        /\ Truth(L, F, dirty, shown) /\ q.search \in Terms
    BY <1>1, <1>10, <2>0 DEF UsersTruthInv, UsersTruthOk, UsersTruth, UsersShape, UsersView
  <2>2. \A j \in DOMAIN calls' : calls'[j].op \in UserWrites => calls'[j].query = q
    BY <1>3, <1>4, <2>1
  <2>3. CASE UserChange([op |-> calls[i].op, answer |-> a])
    <3>1. UserChange(calls'[i])
      BY <1>4, <2>3 DEF UserChange
    <3>2. dirtyNow
      BY <1>3, <3>1
    <3>3. QED
      BY <2>0, <2>2, <3>2 DEF UsersTruth, Truth
  <2>4. CASE \A p : p.search \in Terms => UP!RowsOf(p)' = UP!RowsOf(p) /\ TotalOf(p.search)' = TotalOf(p.search)
    <3>1. UP!RowsOf(q)' = rows /\ TotalOf(q.search)' = total
      BY <2>1, <2>4
    <3>2. UserLists(calls') = L
      BY <1>3, <1>4 DEF UserLists
    <3>3. F \subseteq FreshUsers(calls', q, rows, total)
      <4>1. calls[i].op = "list" => a.rows = UP!RowsOf(calls[i].query) /\ a.total = TotalOf(calls[i].query.search)
        BY <1>1 DEF UsersServed
      <4>2. QED
        BY <1>3, <1>4, <4>1 DEF FreshUsers, UserLists
    <3>4. dirty => dirtyNow
      BY <1>1, <1>3, <1>4 DEF UserChange
    <3>5. ASSUME NEW G, F \subseteq G PROVE Truth(L, G, dirtyNow, shown)
      <4> HIDE DEF L, F, dirty, dirtyNow, shown
      <4> QED  BY <2>1, <3>4, <3>5, TruthKept
    <3>6. Truth(UserLists(calls'), FreshUsers(calls', q, rows, total), dirtyNow, shown)
      BY <3>2, <3>3, <3>5
    <3>7. UsersTruth(calls', view, rows, total)
      BY <2>0, <3>6 DEF UsersTruth
    <3>8. UP!RowsOf(view.query)' = UP!RowsOf(q)' /\ TotalOf(view.query.search)' = TotalOf(q.search)'
      BY <1>1, <2>0 DEF UP!RowsOf, UP!OnPage, UP!Matching, TotalOf, UP!Newer
    <3>9. UsersTruth(calls', view', UP!RowsOf(view.query)', TotalOf(view.query.search)')
      BY <1>1, <3>1, <3>7, <3>8
    <3>10. QED
      BY <2>0, <2>2, <3>9
  <2>5. QED
    BY <1>1, <2>3, <2>4 DEF UsersServed
<1>11. UsersTruthOk'
  BY <1>1, <1>10 DEF UsersTruthOk
<1>12. QED
  BY <1>8, <1>9, <1>11

\* The request at i has an answer, or is given up; what it drew is seen, or lost; and
\* the page may ask again.
LEMMA UsersLeaveKeeps ==
    ASSUME UsersTruthInv, NoneIsNoUser, NEW i \in DOMAIN calls, NEW e, server' = server,
           \/ calls' = Rest(calls, i)
           \/ /\ calls' = Append(Rest(calls, i), e) /\ e.op = "list" /\ e.answer = None
              /\ {"op", "query", "answer"} \subseteq DOMAIN e /\ e.query.search \in Terms,
           UsersView(view', server.users),
           {"calm", "seen", "lost"} \subseteq DOMAIN hist',
           hist.seen \subseteq hist'.seen, hist.lost \subseteq hist'.lost,
           \A secret \in hist'.seen :
             \/ secret \in hist.seen
             \/ calls[i].op \in Draws /\ calls[i].answer # None /\ secret = UP!Reveal(i),
           calls[i].op \in Draws /\ calls[i].answer \notin {None, 0} =>
             UP!Reveal(i) \in hist'.seen \/ calls[i].answer \in hist'.lost
    PROVE  UsersShape' /\ UsersSecretsOk'
<1>1. calls' = Rest(calls, i) \/ calls' = Append(Rest(calls, i), e)
  OBVIOUS
<1>2. calls \in Seq(Elements(calls))
  BY DEF UsersTruthInv, UsersShape
<1>3. /\ calls' \in Seq(Elements(calls'))
      /\ \A j \in DOMAIN calls' : calls'[j] = e \/ \E k \in DOMAIN calls : k # i /\ calls'[j] = calls[k]
      /\ \A k \in DOMAIN calls : k # i => \E j \in DOMAIN calls' : calls'[j] = calls[k]
  <2>1. IsFollowed(calls, calls', i, e)
    BY <1>1, <1>2, GoingOn
  <2>2. QED
    BY <2>1 DEF IsFollowed
<1>4. \A j \in DOMAIN calls' : UserCall(calls'[j], server.users)
  <2>1. CASE calls' = Rest(calls, i)
    <3>1. \A j \in DOMAIN calls' : \E k \in DOMAIN calls : calls'[j] = calls[k]
      BY <1>2, <2>1, Going DEF IsGone
    <3>2. QED
      BY <3>1 DEF UsersTruthInv, UsersShape
  <2>2. CASE /\ e.op = "list" /\ e.answer = None /\ e.query.search \in Terms
             /\ {"op", "query", "answer"} \subseteq DOMAIN e
    <3>1. UserCall(e, server.users)
      BY <2>2 DEF UserCall, UsersOps, RowOps
    <3>2. QED
      BY <1>3, <3>1 DEF UsersTruthInv, UsersShape
  <2>3. QED
    BY <2>1, <2>2
<1>5. UsersShape'
  BY <1>3, <1>4 DEF UsersTruthInv, UsersShape
<1>6. UsersKeptOk'
  <2>1. ASSUME NEW u \in Users, server.users[u] # None, server.users[u].password # 0
        PROVE  \/ \E j \in DOMAIN calls' : /\ Holds(calls'[j], server.users[u].password)
                                         /\ calls'[j].user = u
               \/ [of |-> u, value |-> server.users[u].password] \in hist'.seen
               \/ server.users[u].password \in hist'.lost
    <3> DEFINE n == server.users[u].password
               shown == [of |-> u, value |-> n]
    <3>1. n # None
      BY <2>1 DEF UsersTruthInv, UsersShape, UsersTable, NoneIsNoUser
    <3>2. \/ \E j \in DOMAIN calls : Holds(calls[j], n) /\ calls[j].user = u
          \/ shown \in hist.seen
          \/ n \in hist.lost
      BY <2>1 DEF UsersTruthInv, UsersSecretsOk, UsersKeptOk
    <3>3. ASSUME Holds(calls[i], n), calls[i].user = u
          PROVE  calls[i].op \in Draws /\ calls[i].answer = n /\ UP!Reveal(i) = shown
      BY <3>3 DEF Holds, UP!Reveal
    <3> HIDE DEF n, shown
    <3>4. ASSUME NEW j \in DOMAIN calls, Holds(calls[j], n), calls[j].user = u, j # i
          PROVE  \E k \in DOMAIN calls' : Holds(calls'[k], n) /\ calls'[k].user = u
      BY <1>3, <3>4
    <3>5. ASSUME Holds(calls[i], n), calls[i].user = u PROVE shown \in hist'.seen \/ n \in hist'.lost
      BY <2>1, <3>1, <3>3, <3>5 DEF n
    <3>6. QED
      BY <3>2, <3>4, <3>5 DEF n, shown
  <2>2. QED
    BY <2>1 DEF UsersKeptOk
<1>a. UsersNamedOk'
  <2>1. \A j \in DOMAIN calls :
          calls[j].op \in Draws /\ calls[j].answer # None => Claim(calls[j].user, calls[j].answer, server)
    BY DEF UsersTruthInv, UsersSecretsOk, UsersNamedOk
  <2>2. \A j \in DOMAIN calls' :
          calls'[j].op \in Draws /\ calls'[j].answer # None => Claim(calls'[j].user, calls'[j].answer, server)
    <3>1. ASSUME calls' = Rest(calls, i), NEW j \in DOMAIN calls'
          PROVE  \E k \in DOMAIN calls : calls'[j] = calls[k]
      BY <1>2, <3>1, Going DEF IsGone
    <3>2. CASE calls' = Rest(calls, i)
      BY <2>1, <3>1, <3>2
    <3>3. CASE e.op = "list"
      BY <1>3, <2>1, <3>3 DEF Draws
    <3>4. QED
      BY <3>2, <3>3
  <2>3. \A secret \in hist'.seen : Claim(secret.of, secret.value, server)
    <3>1. UP!Reveal(i).of = calls[i].user /\ UP!Reveal(i).value = calls[i].answer
      BY DEF UP!Reveal
    <3>2. QED
      BY <2>1, <3>1 DEF UsersTruthInv, UsersSecretsOk, UsersNamedOk
  <2>4. \A u \in Users : server'.users[u] # None => server'.users[u].password <= server'.drawn
    BY DEF UsersTruthInv, UsersSecretsOk, UsersNamedOk
  <2>5. QED
    BY <2>2, <2>3, <2>4 DEF UsersNamedOk, Claim
<1>7. QED
  BY <1>5, <1>6, <1>a DEF UsersSecretsOk

\* The rows, when a request has gone that was no change, or another one is sent.
LEMMA UsersTruthGone ==
    ASSUME NEW s, s \in Seq(Elements(s)), NEW i \in DOMAIN s, NEW v, NEW w, NEW rows, NEW total,
           UsersTruth(s, v, rows, total), ~UserChange(s[i]), w.query = v.query,
           \/ s[i].op # "list" /\ w.rows = v.rows /\ w.total = v.total
           \/ /\ s[i].op = "list" /\ s[i].answer # None
              /\ w.rows = s[i].answer.rows /\ w.total = s[i].answer.total
              /\ \A j \in 1..(i - 1) : s[j].op # "list"
    PROVE  UsersTruth(Rest(s, i), w, rows, total)
<1> DEFINE t == Rest(s, i)
           q == v.query
           L == UserLists(s)
           F == FreshUsers(s, q, rows, total)
           M == UserLists(t)
           G == FreshUsers(t, q, rows, total)
           dirty == \E j \in DOMAIN s : UserChange(s[j])
           dirtyNow == \E j \in DOMAIN t : UserChange(t[j])
           shown == v.rows = rows /\ v.total = total
           shownNow == w.rows = rows /\ w.total = total
<1>1. IsGone(s, t, i)
  BY Going
<1> HIDE DEF t
<1>2. \A j \in DOMAIN t : t[j] = s[Before(i, j)] /\ Before(i, j) \in DOMAIN s
  BY <1>1 DEF IsGone
<1>3. \A j \in DOMAIN s : j # i => Now(i, j) \in DOMAIN t /\ t[Now(i, j)] = s[j]
  BY <1>1 DEF IsGone
<1>4. /\ L \in SUBSET DOMAIN s /\ F \in SUBSET L /\ M \in SUBSET DOMAIN t
      /\ \A j \in M : Before(i, j) \in L
      /\ \A k \in F : k # i => Now(i, k) \in G
  BY <1>2, <1>3 DEF UserLists, FreshUsers
<1>5. dirty => dirtyNow
  BY <1>3
<1>6. Truth(L, F, dirty, shown)
  BY DEF UsersTruth
<1>7. \/ i \notin L /\ (shown => shownNow)
      \/ i \in L /\ (\A j \in L : ~(j < i)) /\ (i \in F => shownNow)
  <2>1. CASE s[i].op # "list" /\ w.rows = v.rows /\ w.total = v.total
    BY <2>1 DEF UserLists
  <2>2. CASE /\ s[i].op = "list" /\ s[i].answer # None
             /\ w.rows = s[i].answer.rows /\ w.total = s[i].answer.total
             /\ \A j \in 1..(i - 1) : s[j].op # "list"
    <3>1. DOMAIN s = 1..Len(s) /\ Len(s) \in Nat
      BY <1>1 DEF IsGone
    <3>2. \A j \in L : ~(j < i)
      BY <2>2, <3>1 DEF UserLists
    <3>3. QED
      BY <2>2, <3>2 DEF UserLists, FreshUsers
  <2>3. QED
    BY <2>1, <2>2
<1> HIDE DEF L, F, M, G, dirty, dirtyNow, shown, shownNow
<1>8. Truth(M, G, dirtyNow, shownNow)
  BY <1>1, <1>4, <1>5, <1>6, <1>7, TruthGone
<1>9. QED
  BY <1>8 DEF UsersTruth, M, G, dirtyNow, shownNow, t, q

LEMMA UsersTruthAsked ==
    ASSUME NEW s, s \in Seq(Elements(s)), NEW e, NEW v, NEW rows, NEW total,
           e.op = "list", e.answer = None, e.query = v.query
    PROVE  UsersTruth(Append(s, e), v, rows, total)
<1> DEFINE t == Append(s, e)
           L == UserLists(t)
           F == FreshUsers(t, v.query, rows, total)
           dirty == \E j \in DOMAIN t : UserChange(t[j])
           shown == v.rows = rows /\ v.total = total
<1>1. IsSent(s, t, e)
  BY Sending
<1> HIDE DEF t
<1>2. Len(s) + 1 \in DOMAIN t /\ t[Len(s) + 1] = e
  BY <1>1 DEF IsSent
<1>3. L \in SUBSET DOMAIN t /\ Len(s) + 1 \in F
  BY <1>2 DEF UserLists, FreshUsers
<1> HIDE DEF L, F, dirty, shown
<1>4. Truth(L, F, dirty, shown)
  BY <1>1, <1>3, TruthAsked
<1>5. QED
  BY <1>4 DEF UsersTruth, L, F, dirty, shown, t

LEMMA UsersSettleKeeps ==
    ASSUME UsersTruthInv, NoneIsNoUser, NEW i \in DOMAIN calls, UP!Settle(i)
    PROVE  UsersShape' /\ UsersTruthOk' /\ UsersSecretsOk'
<1> DEFINE c == calls[i]
           rest == Rest(calls, i)
           rows == UP!RowsOf(view.query)
           total == TotalOf(view.query.search)
           table == server.users
           asks == \A j \in DOMAIN calls : calls[j].op \in UserWrites => calls[j].query = view.query
           truth == UsersTruth(calls, view, rows, total)
<1>1. /\ UP!Without(i) = rest /\ UserCall(c, table) /\ calls \in Seq(Elements(calls))
      /\ {"calm", "seen", "lost"} \subseteq DOMAIN hist
      /\ UsersShown \cup UsersFields \subseteq DOMAIN view /\ UsersView(view, table)
      /\ hist.calm => asks /\ truth
  BY DEF UP!Without, Rest, UsersTruthInv, UsersShape, UsersView, UsersInv, UsersTruthOk
<1>2. /\ rest \in Seq(Elements(rest))
      /\ \A j \in DOMAIN rest : \E k \in DOMAIN calls : k # i /\ rest[j] = calls[k]
  BY <1>1, Going DEF IsGone
<1> DEFINE e == UP!ListCall(c.query)
<1>3. /\ e.op = "list" /\ e.query = c.query /\ e.answer = None /\ c.query.search \in Terms
      /\ {"op", "query", "answer"} \subseteq DOMAIN e
  BY <1>1 DEF UP!ListCall, UserCall
<1>4. server' = server
  BY DEF UP!Settle, UP!ShowList, UP!Created, UP!NotCreated, UP!Toggled, UP!PasswordReset, UP!Lost
<1> HIDE DEF e, rest
<1>5. ASSUME view'.query = view.query
      PROVE  UP!RowsOf(view.query)' = rows /\ TotalOf(view.query.search)' = total
  BY <1>4, <1>5 DEF UP!RowsOf, UP!OnPage, UP!Matching, TotalOf, UP!Newer
<1> HIDE DEF rows, total
<1>6. ASSUME view'.query = view.query,
             hist'.calm => /\ \A j \in DOMAIN calls' : calls'[j].op \in UserWrites => calls'[j].query = view.query
                           /\ UsersTruth(calls', view', rows, total)
      PROVE  UsersTruthOk'
  BY <1>5, <1>6 DEF UsersTruthOk
\* Without a request that changes nothing, and after one that is answered by asking again.
<1>7. ASSUME asks, calls' = rest
      PROVE  \A j \in DOMAIN calls' : calls'[j].op \in UserWrites => calls'[j].query = view.query
  BY <1>2, <1>7
<1>8. ASSUME calls' = Append(rest, e), hist' = UP!Asked(rest, c.query = view.query)
                \/ \E x : hist' = [UP!Asked(rest, c.query = view.query) EXCEPT !.seen = @ \cup {x}],
             c.op \in UserWrites, hist'.calm, view'.query = view.query
      PROVE  /\ \A j \in DOMAIN calls' : calls'[j].op \in UserWrites => calls'[j].query = view.query
             /\ UsersTruth(calls', view', rows, total)
  <2> DEFINE idle == \A j \in DOMAIN rest : rest[j].op \notin UP!Reads \cup UP!Writes
  <2>1. hist.calm \/ (c.query = view.query /\ idle)
    BY <1>1, <1>8 DEF UP!Asked
  <2>2. c.query = view.query /\ \A j \in DOMAIN rest : rest[j].op \in UserWrites => rest[j].query = view.query
    <3>1. CASE hist.calm
      BY <1>1, <1>2, <1>8, <3>1
    <3>2. CASE c.query = view.query /\ idle
      BY <3>2 DEF UP!Writes, UserWrites
    <3>3. QED
      BY <2>1, <3>1, <3>2
  <2>3. e.query = view'.query
    BY <1>3, <1>8, <2>2
  <2>4. UsersTruth(calls', view', rows, total)
    BY <1>2, <1>3, <1>8, <2>3, UsersTruthAsked
  <2>5. IsSent(rest, calls', e)
    BY <1>2, <1>8, Sending
  <2>6. \A j \in DOMAIN calls' : calls'[j] = e \/ (j \in DOMAIN rest /\ calls'[j] = rest[j])
    BY <2>5 DEF IsSent
  <2>7. QED
    BY <1>3, <2>2, <2>4, <2>6 DEF UserWrites
<1>9. CASE UP!ShowList(i)
  <2>1. /\ c.op = "list" /\ c.answer # None /\ calls' = rest /\ hist' = UP!Displayed(i)
        /\ view'.rows = c.answer.rows /\ view'.total = c.answer.total /\ view'.query = view.query
        /\ view'.typed = view.typed /\ view'.confirm = view.confirm /\ UsersShown \subseteq DOMAIN view'
    BY <1>1, <1>9 DEF UP!ShowList, UsersShown, UsersFields
  <2>2. /\ {"calm", "seen", "lost"} \subseteq DOMAIN hist' /\ hist'.seen = hist.seen
        /\ hist'.lost = hist.lost /\ (hist'.calm => hist.calm /\ ~UP!Overtakes(i))
    BY <1>1, <2>1 DEF UP!Displayed
  <2>3. UsersView(view', table)
    BY <1>1, <2>1 DEF UsersView, UserCall
  <2>4. c.op \notin Draws /\ ~UserChange(c)
    BY <2>1 DEF Draws, UserChange
  <2>5. UsersShape' /\ UsersSecretsOk'
    BY <1>4, <2>1, <2>2, <2>3, <2>4, UsersLeaveKeeps DEF rest
  <2>6. ASSUME hist'.calm
        PROVE  /\ \A j \in DOMAIN calls' : calls'[j].op \in UserWrites => calls'[j].query = view.query
               /\ UsersTruth(calls', view', rows, total)
    <3>1. \A j \in 1..(i - 1) : calls[j].op # "list"
      BY <2>1, <2>2, <2>6 DEF UP!Overtakes
    <3>2. UsersTruth(rest, view', rows, total)
      BY <1>1, <2>1, <2>2, <2>4, <2>6, <3>1, UsersTruthGone DEF rest
    <3>3. QED
      BY <1>1, <1>7, <2>1, <2>2, <2>6, <3>2
  <2>7. QED
    BY <1>6, <2>1, <2>5, <2>6
\* A password is seen.
<1>10. CASE UP!Created(i)
  <2>1. /\ c.op = "create" /\ c.answer \notin {None, 0} /\ calls' = Append(rest, e)
        /\ hist' = [UP!Asked(rest, c.query = view.query) EXCEPT !.seen = @ \cup {UP!Reveal(i)}]
        /\ view'.rows = view.rows /\ view'.total = view.total /\ view'.query = view.query
        /\ view'.typed = view.typed /\ view'.confirm = view.confirm /\ UsersShown \subseteq DOMAIN view'
    BY <1>1, <1>10 DEF UP!Created, UP!Fetch, UsersShown, UsersFields, e
  <2>2. /\ {"calm", "seen", "lost"} \subseteq DOMAIN hist' /\ hist'.seen = hist.seen \cup {UP!Reveal(i)}
        /\ hist'.lost = hist.lost
    BY <1>1, <2>1 DEF UP!Asked
  <2>3. UsersView(view', table)
    BY <1>1, <2>1 DEF UsersView
  <2>4. UsersShape' /\ UsersSecretsOk'
    BY <1>3, <1>4, <2>1, <2>2, <2>3, UsersLeaveKeeps DEF rest, Draws
  <2>5. QED
    BY <1>6, <1>8, <2>1, <2>4 DEF UserWrites
<1>11. CASE UP!NotCreated(i)
  <2>1. /\ c.op = "create" /\ c.answer = 0 /\ calls' = rest /\ hist' = hist
        /\ view'.rows = view.rows /\ view'.total = view.total /\ view'.query = view.query
        /\ view'.typed = view.typed /\ view'.confirm = view.confirm /\ UsersShown \subseteq DOMAIN view'
    BY <1>1, <1>11 DEF UP!NotCreated, UsersShown, UsersFields
  <2>2. UsersView(view', table)
    BY <1>1, <2>1 DEF UsersView
  <2>3. UsersShape' /\ UsersSecretsOk'
    BY <1>1, <1>4, <2>1, <2>2, UsersLeaveKeeps DEF rest
  <2>4. ~UserChange(c)
    BY <2>1 DEF UserChange
  <2>5. ASSUME hist'.calm
        PROVE  /\ \A j \in DOMAIN calls' : calls'[j].op \in UserWrites => calls'[j].query = view.query
               /\ UsersTruth(calls', view', rows, total)
    <3>1. UsersTruth(rest, view', rows, total)
      BY <1>1, <2>1, <2>4, <2>5, UsersTruthGone DEF rest
    <3>2. QED
      BY <1>1, <1>7, <2>1, <2>5, <3>1
  <2>6. QED
    BY <1>6, <2>1, <2>3, <2>5
<1>12. CASE UP!Toggled(i)
  <2>1. /\ c.op = "setActive" /\ c.answer # None /\ calls' = Append(rest, e)
        /\ hist' = UP!Asked(rest, c.query = view.query)
        /\ view'.rows = view.rows /\ view'.total = view.total /\ view'.query = view.query
        /\ view'.typed = view.typed /\ view'.confirm = None /\ UsersShown \subseteq DOMAIN view'
    BY <1>1, <1>12 DEF UP!Toggled, UP!Fetch, UsersShown, UsersFields, e
  <2>2. /\ {"calm", "seen", "lost"} \subseteq DOMAIN hist' /\ hist'.seen = hist.seen
        /\ hist'.lost = hist.lost
    BY <1>1, <2>1 DEF UP!Asked
  <2>3. UsersView(view', table) /\ c.op \notin Draws
    BY <1>1, <2>1 DEF UsersView, Draws
  <2>4. UsersShape' /\ UsersSecretsOk'
    BY <1>3, <1>4, <2>1, <2>2, <2>3, UsersLeaveKeeps DEF rest
  <2>5. QED
    BY <1>6, <1>8, <2>1, <2>4 DEF UserWrites
<1>13. CASE UP!PasswordReset(i)
  <2>1. /\ c.op = "reset" /\ c.answer # None /\ calls' = rest
        /\ hist' = [hist EXCEPT !.seen = @ \cup {UP!Reveal(i)}]
        /\ view'.rows = view.rows /\ view'.total = view.total /\ view'.query = view.query
        /\ view'.typed = view.typed /\ view'.confirm = view.confirm /\ UsersShown \subseteq DOMAIN view'
    BY <1>1, <1>13 DEF UP!PasswordReset, UsersShown, UsersFields
  <2>2. /\ {"calm", "seen", "lost"} \subseteq DOMAIN hist' /\ hist'.seen = hist.seen \cup {UP!Reveal(i)}
        /\ hist'.lost = hist.lost /\ hist'.calm = hist.calm
    BY <1>1, <2>1
  <2>3. UsersView(view', table) /\ ~UserChange(c)
    BY <1>1, <2>1 DEF UsersView, UserChange
  <2>4. UsersShape' /\ UsersSecretsOk'
    BY <1>4, <2>1, <2>2, <2>3, UsersLeaveKeeps DEF rest, Draws
  <2>5. ASSUME hist'.calm
        PROVE  /\ \A j \in DOMAIN calls' : calls'[j].op \in UserWrites => calls'[j].query = view.query
               /\ UsersTruth(calls', view', rows, total)
    <3>1. UsersTruth(rest, view', rows, total)
      BY <1>1, <2>1, <2>2, <2>3, <2>5, UsersTruthGone DEF rest
    <3>2. QED
      BY <1>1, <1>7, <2>1, <2>2, <2>5, <3>1
  <2>6. QED
    BY <1>6, <2>1, <2>4, <2>5
<1>14. CASE UP!Lost(i)
  <2>1. calls' = rest /\ hist' = [UP!Disturbed EXCEPT !.lost = @ \cup UP!SecretOf(i)]
    BY <1>1, <1>14 DEF UP!Lost
  <2>2. /\ view'.rows = view.rows /\ view'.total = view.total /\ view'.query = view.query
        /\ view'.typed = view.typed /\ view'.confirm = view.confirm /\ UsersShown \subseteq DOMAIN view'
    BY <1>1, <1>14 DEF UP!Lost, UsersShown, UsersFields
  <2>3. /\ {"calm", "seen", "lost"} \subseteq DOMAIN hist' /\ hist'.seen = hist.seen
        /\ hist'.lost = hist.lost \cup UP!SecretOf(i) /\ ~hist'.calm
    BY <1>1, <2>1 DEF UP!Disturbed
  <2>4. UsersView(view', table)
    BY <1>1, <2>2 DEF UsersView
  <2>5. c.op \in Draws /\ c.answer \notin {None, 0} => c.answer \in hist'.lost
    BY <2>3 DEF UP!SecretOf, UP!Draws, Draws
  <2>6. UsersShape' /\ UsersSecretsOk'
    BY <1>4, <2>1, <2>3, <2>4, <2>5, UsersLeaveKeeps DEF rest
  <2>7. QED
    BY <2>3, <2>6 DEF UsersTruthOk
<1>15. QED
  BY <1>9, <1>10, <1>11, <1>12, <1>13, <1>14 DEF UP!Settle

LEMMA UsersTruthStep ==
    ASSUME UsersTruthInv, TermsFindUsers, NoneIsNoUser, UP!Next
    PROVE  UsersTruthInv'
<1> DEFINE Kept == UsersShape' /\ UsersTruthOk' /\ UsersSecretsOk'
           table == server.users
<1>1. UsersInv'
  BY UsersMoves, UsersMoveKeeps DEF UsersTruthInv
<1>2. /\ UsersShown \cup UsersFields \subseteq DOMAIN view /\ UsersView(view, table)
      /\ UsersTable(server)
  BY DEF UsersTruthInv, UsersShape, UsersView, UsersInv
<1>3. ASSUME NEW i \in DOMAIN calls, UP!Serve(i) PROVE Kept
  BY <1>3, UsersServeKeeps
<1>4. ASSUME NEW i \in DOMAIN calls, UP!Settle(i) PROVE Kept
  BY <1>4, UsersSettleKeeps
<1>5. ASSUME NEW q, NEW v, UP!ShowQuery(q, v), UNCHANGED server, UsersView(v, table),
             v.rows = view.rows, v.total = view.total, v.query = view.query, q.search \in Terms,
             "search" \in DOMAIN q, UsersFields \subseteq DOMAIN v
      PROVE  Kept
  <2>1. CASE q = view.query
    <3>1. view' = v /\ UNCHANGED <<calls, hist>>
      BY <1>5, <2>1 DEF UP!ShowQuery
    <3>2. UsersSameShown
      BY <1>5, <3>1 DEF UsersSameShown
    <3>3. QED
      BY <1>5, <3>1, <3>2, UsersClickKeeps
  <2>2. CASE q # view.query
    <3> DEFINE e == UP!ListCall(q)
    <3>1. /\ view' = [[v EXCEPT !.query = q] EXCEPT !.loading = TRUE] /\ calls' = Append(calls, e)
          /\ hist' = IF UP!Pending(UP!Writes) THEN UP!Disturbed ELSE UP!Asked(calls, TRUE)
      BY <1>5, <2>2 DEF UP!ShowQuery, UP!Fetch
    <3>2. /\ e.op = "list" /\ e.query = q /\ e.answer = None
          /\ {"op", "query", "answer"} \subseteq DOMAIN e
      BY DEF UP!ListCall
    <3>3. UsersView(view', table) /\ view'.query = q
      BY <1>5, <3>1 DEF UsersView, UsersShown, UsersFields
    <3> HIDE DEF e
    <3>4. QED
      BY <1>5, <3>1, <3>2, <3>3, UsersAskKeeps
  <2>3. QED
    BY <2>1, <2>2
\* A query that is made of the one before.
<1>6. ASSUME NEW t \in Terms
      PROVE  LET q == UP!Searched(t) IN q.search \in Terms /\ "search" \in DOMAIN q
  BY <1>2 DEF UP!Searched, UsersView
<1>7. ASSUME UP!SearchFires PROVE Kept
  <2> DEFINE v == [view EXCEPT !.timer = FALSE]
  <2>1. /\ UsersView(v, table) /\ v.rows = view.rows /\ v.total = view.total /\ v.query = view.query
        /\ UsersFields \subseteq DOMAIN v
    BY <1>2 DEF UsersView, UsersShown, UsersFields
  <2>2. view.typed \in Terms /\ UP!ShowQuery(UP!Searched(view.typed), v) /\ UNCHANGED server
    BY <1>2, <1>7 DEF UP!SearchFires, UsersView
  <2> HIDE DEF v
  <2>3. QED
    BY <1>5, <1>6, <2>1, <2>2
<1>8. ASSUME UP!ClearSearch PROVE Kept
  <2> DEFINE v == [view EXCEPT !.typed = NoTerm, !.timer = FALSE]
  <2>1. NoTerm \in Terms /\ UP!ShowQuery(UP!Searched(NoTerm), v) /\ UNCHANGED server
    BY <1>8 DEF UP!ClearSearch, TermsFindUsers
  <2>2. /\ UsersView(v, table) /\ v.rows = view.rows /\ v.total = view.total /\ v.query = view.query
        /\ UsersFields \subseteq DOMAIN v
    BY <1>2, <2>1 DEF UsersView, UsersShown, UsersFields
  <2> HIDE DEF v
  <2>3. QED
    BY <1>5, <1>6, <2>1, <2>2
<1>9. ASSUME NEW p, UP!GoToPage(p) PROVE Kept
  <2> DEFINE q == [view.query EXCEPT !.page = p]
  <2>1. q.search \in Terms /\ "search" \in DOMAIN q
    BY <1>2 DEF UsersView
  <2>2. UP!ShowQuery(q, view) /\ UNCHANGED server
    BY <1>9 DEF UP!GoToPage
  <2> HIDE DEF q
  <2>3. QED
    BY <1>2, <1>5, <2>1, <2>2
<1>10. ASSUME NEW l, UP!SetLimit(l) PROVE Kept
  <2> DEFINE q == [view.query EXCEPT !.limit = l, !.page = 1]
  <2>1. q.search \in Terms /\ "search" \in DOMAIN q
    BY <1>2 DEF UsersView
  <2>2. UP!ShowQuery(q, view) /\ UNCHANGED server
    BY <1>10 DEF UP!SetLimit
  <2> HIDE DEF q
  <2>3. QED
    BY <1>2, <1>5, <2>1, <2>2
<1>11. ASSUME UsersSameShown, UNCHANGED <<calls, server, hist>> PROVE Kept
  BY <1>11, UsersClickKeeps
<1>12. ASSUME \/ UP!OpenForm \/ UP!CancelForm \/ UP!CancelDeactivate \/ UP!CloseReveal
              \/ \E t \in Terms : UP!Type(t)
       PROVE  Kept
  <2>1. UsersSameShown /\ UNCHANGED <<calls, server, hist>>
    BY <1>2, <1>12 DEF UP!OpenForm, UP!CancelForm, UP!CancelDeactivate, UP!CloseReveal, UP!Type,
       UsersSameShown, UsersView, UsersShown, UsersFields
  <2>2. QED
    BY <1>11, <2>1
<1>13. ASSUME NEW op, NEW u, NEW x
       PROVE  LET e == UP!Write(op, u, x)
              IN  /\ {"op", "user", "query", "answer"} \subseteq DOMAIN e /\ e.op = op /\ e.user = u
                  /\ e.query = view.query /\ e.answer = None
  BY DEF UP!Write
<1>14. ASSUME NEW op, NEW u, NEW x, UsersSameShown, UNCHANGED <<server, hist>>,
              calls' = Append(calls, UP!Write(op, u, x)),
              \/ op = "create" /\ u \in Users
              \/ op \in RowOps /\ Known(u, table)
       PROVE  Kept
  <2> DEFINE e == UP!Write(op, u, x)
  <2>1. /\ {"op", "user", "query", "answer"} \subseteq DOMAIN e /\ e.op = op /\ e.user = u
        /\ e.query = view.query /\ e.answer = None
    BY <1>13
  <2> HIDE DEF e
  <2>2. UserCall(e, table) /\ e.op # "list"
    BY <1>2, <1>14, <2>1 DEF UserCall, UsersOps, RowOps, UsersView
  <2>3. QED
    BY <1>14, <2>1, <2>2, UsersWriteKeeps DEF e
<1>15. ASSUME NEW u \in Users, UP!SubmitForm(u) PROVE Kept
  <2>1. UsersSameShown
    BY <1>2, <1>15 DEF UP!SubmitForm, UsersSameShown, UsersView, UsersShown, UsersFields
  <2>2. QED
    BY <1>14, <1>15, <2>1 DEF UP!SubmitForm
<1>16. ASSUME NEW row, Known(row.id, table), UP!SetActive(row) \/ UP!ResetPassword(row) PROVE Kept
  <2>1. UsersSameShown /\ UNCHANGED <<server, hist>>
    BY <1>2, <1>16 DEF UP!SetActive, UP!ResetPassword, UsersSameShown, UsersView, UsersShown,
       UsersFields
  <2>2. PICK op, x : op \in RowOps /\ calls' = Append(calls, UP!Write(op, row.id, x))
    BY <1>16 DEF UP!SetActive, UP!ResetPassword, RowOps
  <2>3. QED
    BY <1>14, <1>16, <2>1, <2>2
<1>17. ASSUME NEW row \in view.rows, UP!Toggle(row) \/ UP!ResetPassword(row) PROVE Kept
  <2>1. Known(row.id, table)
    BY <1>2 DEF UsersView
  <2>2. CASE UP!Toggle(row) /\ row.active
    <3>1. view' = [view EXCEPT !.confirm = row] /\ UNCHANGED <<calls, server, hist>>
      BY <2>2 DEF UP!Toggle
    <3>2. UsersSameShown
      BY <1>2, <2>1, <3>1 DEF UsersSameShown, UsersView, UsersShown, UsersFields
    <3>3. QED
      BY <1>11, <3>1, <3>2
  <2>3. CASE UP!Toggle(row) /\ ~row.active
    BY <1>16, <2>1, <2>3 DEF UP!Toggle
  <2>4. CASE UP!ResetPassword(row)
    BY <1>16, <2>1, <2>4
  <2>5. QED
    BY <1>17, <2>2, <2>3, <2>4
<1>18. ASSUME UP!ConfirmDeactivate PROVE Kept
  BY <1>2, <1>16, <1>18 DEF UP!ConfirmDeactivate, UsersView
<1>19. Kept
  <2> HIDE DEF Kept
  <2> QED
    BY <1>3, <1>4, <1>7, <1>8, <1>9, <1>10, <1>12, <1>15, <1>17, <1>18, Zenon DEF UP!Next, UP!Click
<1>20. QED
  BY <1>1, <1>19 DEF UsersTruthInv

LEMMA UsersTruthStays ==
    ASSUME UsersTruthInv, UNCHANGED pageVars
    PROVE  UsersTruthInv'
<1>1. UNCHANGED <<view, calls, server, hist>>
  BY DEF pageVars
<1>2. UsersShape' /\ UsersTruthOk' /\ UsersSecretsOk'
  BY <1>1, UsersClickKeeps DEF UsersSameShown, UsersTruthInv, UsersShape
<1>3. QED
  BY <1>1, <1>2 DEF UsersTruthInv, UsersInv

\* It holds when the page is opened, whatever the table holds.
LEMMA UsersTruthMounts ==
    ASSUME TermsFindUsers, NoneIsNoUser, NEW m \in UP!Mounts,
           view' = m.view, calls' = m.calls, server' = m.server, hist' = m.hist
    PROVE  UsersTruthInv'
<1> DEFINE e == UP!ListCall(UP!FirstQuery)
<1>1. /\ m.view = UP!Mounted /\ m.calls = <<e>> /\ m.hist = [calm |-> TRUE, seen |-> {}, lost |-> {}]
      /\ m.server.users \in [Users -> [active : BOOLEAN, password : {0}] \cup {None}]
      /\ m.server.drawn = 0 /\ DOMAIN m.server = {"users", "drawn"}
  BY DEF UP!Mounts
<1>2. /\ e.op = "list" /\ e.answer = None /\ {"op", "query", "answer"} \subseteq DOMAIN e
      /\ e.query = UP!FirstQuery
  BY DEF UP!ListCall
<1>3. /\ view'.rows = {} /\ view'.confirm = None /\ view'.query = UP!FirstQuery /\ view'.typed = NoTerm
      /\ UsersShown \cup UsersFields \subseteq DOMAIN view' /\ ~view'.creating /\ view'.rowAction = None
  BY <1>1 DEF UP!Mounted, UsersShown, UsersFields
<1>4. UP!FirstQuery.search \in Terms /\ "search" \in DOMAIN UP!FirstQuery
  BY DEF UP!FirstQuery, TermsFindUsers
<1> HIDE DEF e
<1>5. DOMAIN <<e>> = {1} /\ <<e>>[1] = e /\ <<e>> \in Seq({e})
  OBVIOUS
<1>6. calls' = <<e>> /\ calls' \in Seq(Elements(calls'))
  BY <1>1, <1>5, OwnElements
<1>7. UsersInv'
  <2>1. Calls(calls', {"user"})
    BY <1>2, <1>5, <1>6 DEF Calls, Says
  <2>2. QED
    BY <1>2, <1>3, <1>5, <1>6, <2>1 DEF UsersInv, UsersFlags
<1>8. UsersShape'
  <2>1. UsersTable(server')
    BY <1>1 DEF UsersTable
  <2>2. UserCall(e, server'.users)
    BY <1>2, <1>4 DEF UserCall, UsersOps, RowOps
  <2>3. UsersView(view', server'.users)
    BY <1>3, <1>4, TermsFindUsers DEF UsersView, TermsFindUsers
  <2>4. QED
    BY <1>1, <1>5, <1>6, <2>1, <2>2, <2>3 DEF UsersShape
<1>9. UsersSecretsOk'
  <2>1. \A u \in Users : server'.users[u] # None => server'.users[u].password = 0
    BY <1>1
  <2>2. UsersKeptOk'
    BY <2>1 DEF UsersKeptOk
  <2>3. \A j \in DOMAIN calls' : calls'[j].answer = None
    BY <1>2, <1>5, <1>6
  <2>4. hist'.seen = {} /\ server'.drawn = 0
    BY <1>1
  <2>5. UsersNamedOk'
    BY <2>1, <2>3, <2>4 DEF UsersNamedOk
  <2>6. QED
    BY <2>2, <2>5 DEF UsersSecretsOk
<1>10. ASSUME NEW rows, NEW total PROVE UsersTruth(calls', view', rows, total)
  <2> DEFINE L == UserLists(calls')
             F == FreshUsers(calls', view'.query, rows, total)
  <2>1. L = {1} /\ F = {1}
    BY <1>2, <1>3, <1>5, <1>6 DEF UserLists, FreshUsers
  <2>2. Newest(L, F)
    BY <2>1 DEF Newest
  <2>3. QED
    BY <2>2 DEF UsersTruth, Truth
<1>11. UsersTruthOk'
  BY <1>2, <1>5, <1>6, <1>10 DEF UsersTruthOk, UserWrites
<1>12. QED
  BY <1>7, <1>8, <1>9, <1>11 DEF UsersTruthInv

\* What the runs check of the page.
LEMMA UsersTruths ==
    ASSUME UsersTruthInv
    PROVE  UP!FlagsHaveCalls /\ UP!ShowsTheTable /\ UP!SecretsShown
<1>1. UP!FlagsHaveCalls
  BY DEF UsersTruthInv, UsersInv, UsersFlags, UP!FlagsHaveCalls, UP!Pending, RowOps
<1>2. ASSUME calls = <<>>, hist.calm
      PROVE  /\ view.rows = UP!RowsOf(view.query)
             /\ view.total = TotalOf(view.query.search)
  <2>1. DOMAIN calls = {}
    BY <1>2
  <2>2. UsersTruth(calls, view, UP!RowsOf(view.query), TotalOf(view.query.search))
    BY <1>2 DEF UsersTruthInv, UsersTruthOk
  <2>3. QED
    BY <2>1, <2>2 DEF UsersTruth, Truth, Newest, UserLists, FreshUsers
<1>3. UP!ShowsTheTable
  BY <1>2 DEF UP!ShowsTheTable, UP!AtRest, TotalOf
<1>4. UP!SecretsShown
  <2>1. ASSUME NEW u \in Users, server.users[u] # None, server.users[u].password # 0,
               NEW secret \in hist.seen, secret.value = server.users[u].password
        PROVE  secret.of = u
    BY <2>1 DEF UsersTruthInv, UsersSecretsOk, UsersNamedOk, Claim
  <2>2. UsersKeptOk
    BY DEF UsersTruthInv, UsersSecretsOk
  <2>3. QED
    BY <2>1, <2>2 DEF UsersKeptOk, UP!SecretsShown, Holds, UP!Draws, Draws
<1>5. QED
  BY <1>1, <1>3, <1>4
==============================================================================
