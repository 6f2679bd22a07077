-------------------------- MODULE UserPanelProofs ---------------------------
(***************************************************************************)
(* Proofs about UserPanel, for any users, names and quotas and any number  *)
(* of requests.                                                            *)
(***************************************************************************)
EXTENDS UserPanel, TLAPS

Item == [name : Known, id : Ids]
Form == [name : Known \cup {None}, quota : Quota]
CallType == [op : {"add", "change", "remove", "read", "list"}, id : Ids \cup {None}, row : Form,
             reply : {"none", "ok", "error"}, data : Quota \cup (SUBSET Item) \cup {<<>>}]

\* A call is about a user where it needs one, and its answer is of the kind the
\* callback expects.
WellFormed(c) ==
  /\ c.op \in {"change", "remove", "read"} => c.id \in Ids
  /\ c.op \in {"change", "add"} => c.row \in Row
  /\ c.op = "read" /\ c.reply = "ok" => c.data \in Quota
  /\ c.op = "list" /\ c.reply = "ok" => c.data \subseteq Item

Good(q)  == q \in Seq(CallType) /\ \A k \in 1 .. Len(q) : WellFormed(q[k])
NoErr(q) == \A k \in 1 .. Len(q) : q[k].reply # "error"

Types  == TypeOK /\ Good(calls)
Errors == ~failed => NoErr(calls)

\* q are the calls under way, t is the table, s the user selected.  The calls
\* are answered in order, ...
Fifo(q) == \A k, l \in 1 .. Len(q) : k < l /\ q[k].reply = "none" => q[l].reply = "none"

IsRead(c, s) == c.op = "read" /\ c.id = s.id

\* ... behind a removal to come the list is asked for and, if the user has been
\* selected again, its quota, ...
Relisted(q) ==
  \A k \in 1 .. Len(q) : q[k].op = "remove" /\ q[k].reply = "none" =>
    \E l \in k + 1 .. Len(q) : q[l].op = "list"

Reread(q, s) ==
  \A k \in 1 .. Len(q) : q[k].op = "remove" /\ q[k].reply = "none" /\ q[k].id = s.id =>
    \E l \in k + 1 .. Len(q) : IsRead(q[l], s)

\* ... the list is right, or one will be asked for, or one that was asked for is
\* to come, from which on every answer is right, ...
Right(c, t) == c.reply = "none" \/ c.data = Listed(t)

ListFresh(q, t, list) ==
  \/ \E l \in 1 .. Len(q) : q[l].op \in {"add", "change"}
  \/ \E l \in 1 .. Len(q) : /\ q[l].op = "list"
                            /\ \A m \in l .. Len(q) : q[m].op = "list" => Right(q[m], t)
  \/ list = Listed(t) /\ \A l \in 1 .. Len(q) : q[l].op # "list"

\* ... and the same goes for the quota in the form.
RightQuota(c, t, s) == c.reply = "none" \/ (s.id \in DOMAIN t /\ c.data = t[s.id].quota)

QuotaFresh(q, t, s, quota, typedIn) ==
  \/ s = Nobody
  \/ \E l \in 1 .. Len(q) : q[l].op = "change"
  \/ \E l \in 1 .. Len(q) : /\ IsRead(q[l], s)
                            /\ \A m \in l .. Len(q) : IsRead(q[m], s) => RightQuota(q[m], t, s)
  \/ /\ typedIn \/ (s.id \in DOMAIN t /\ quota = t[s.id].quota)
     /\ \A l \in 1 .. Len(q) : ~IsRead(q[l], s)

Untouched == sent = 0 => users = {} /\ selected = Nobody

Fresh == ~failed /\ ~overtaken =>
           /\ Fifo(calls) /\ Relisted(calls) /\ Reread(calls, selected)
           /\ sent > 0 => ListFresh(calls, table, users)
           /\ QuotaFresh(calls, table, selected, form.quota, edited)

Basic == Types /\ Errors /\ Untouched /\ ForeignOnlyMeanwhile
IInv  == Basic /\ Fresh

-----------------------------------------------------------------------------
\* Calls that are begun and calls that end.
HasRead(q, i) == \E k \in 1 .. Len(q) : q[k].op = "read" /\ q[k].id = i

LEMMA Joined ==
  ASSUME NEW a \in Seq(CallType), NEW b \in Seq(CallType)
  PROVE  /\ a \o b \in Seq(CallType) /\ Len(a \o b) = Len(a) + Len(b)
         /\ \A i \in 1 .. Len(a) : (a \o b)[i] = a[i]
         /\ \A i \in 1 .. Len(b) : (a \o b)[Len(a) + i] = b[i]
OBVIOUS

LEMMA Pushed ==
  ASSUME NEW q, Good(q), NEW cs, Good(cs)
  PROVE  /\ Good(q \o cs) /\ Len(q \o cs) = Len(q) + Len(cs)
         /\ NoErr(q) /\ NoErr(cs) => NoErr(q \o cs)
         /\ \A i : HasRead(q \o cs, i) <=> HasRead(q, i) \/ HasRead(cs, i)
<1> DEFINE r == q \o cs
<1>1. q \in Seq(CallType) /\ cs \in Seq(CallType) /\ Len(q) \in Nat /\ Len(cs) \in Nat
  BY DEF Good
<1>2. /\ r \in Seq(CallType) /\ Len(r) = Len(q) + Len(cs)
      /\ \A k \in 1 .. Len(q) : r[k] = q[k]
      /\ \A k \in 1 .. Len(cs) : r[Len(q) + k] = cs[k]
  BY <1>1
<1> HIDE DEF r
<1>3. ASSUME NEW k \in 1 .. Len(r)
      PROVE  \/ k \in 1 .. Len(q) /\ r[k] = q[k]
             \/ k - Len(q) \in 1 .. Len(cs) /\ r[k] = cs[k - Len(q)]
  <2>1. CASE k <= Len(q)
    BY <1>1, <1>2, <2>1
  <2>2. CASE k > Len(q)
    <3>1. k - Len(q) \in 1 .. Len(cs) /\ k = Len(q) + (k - Len(q))
      BY <1>1, <1>2, <2>2
    <3> QED BY <1>2, <3>1
  <2> QED BY <1>1, <1>2, <2>1, <2>2
<1>4. /\ \A k \in 1 .. Len(q) : k \in 1 .. Len(r)
      /\ \A k \in 1 .. Len(cs) : Len(q) + k \in 1 .. Len(r)
  BY <1>1, <1>2
<1>5. Good(r)
  BY <1>2, <1>3 DEF Good
<1>6. NoErr(q) /\ NoErr(cs) => NoErr(r)
  BY <1>3 DEF NoErr
<1>7. \A i : HasRead(r, i) <=> HasRead(q, i) \/ HasRead(cs, i)
  <2>1. ASSUME NEW i, HasRead(r, i) PROVE HasRead(q, i) \/ HasRead(cs, i)
    BY <1>3, <2>1 DEF HasRead
  <2>2. ASSUME NEW i, HasRead(q, i) \/ HasRead(cs, i) PROVE HasRead(r, i)
    BY <1>2, <1>4, <2>2 DEF HasRead
  <2> QED BY <2>1, <2>2
<1> QED BY <1>2, <1>5, <1>6, <1>7 DEF r

LEMMA Dropped ==
  ASSUME NEW q, Good(q), NEW k \in 1 .. Len(q)
  PROVE  /\ Good(RemoveAt(q, k)) /\ Len(RemoveAt(q, k)) = Len(q) - 1
         /\ NoErr(q) => NoErr(RemoveAt(q, k))
         /\ \A i : HasRead(q, i) /\ ~(q[k].op = "read" /\ q[k].id = i) => HasRead(RemoveAt(q, k), i)
         /\ k = 1 => RemoveAt(q, k) = Tail(q)
<1> DEFINE r == RemoveAt(q, k)
<1>1. q \in Seq(CallType) /\ Len(q) \in Nat
  BY DEF Good
<1>2. /\ r \in Seq(CallType) /\ Len(r) = Len(q) - 1
      /\ \A i \in 1 .. k - 1 : r[i] = q[i]
      /\ \A i \in k .. Len(q) - 1 : r[i] = q[i + 1]
  <2> DEFINE a == SubSeq(q, 1, k - 1)
             b == SubSeq(q, k + 1, Len(q))
  <2>1. a \in Seq(CallType) /\ Len(a) = k - 1 /\ \A i \in 1 .. k - 1 : a[i] = q[i]
    BY <1>1
  <2>2. /\ b \in Seq(CallType) /\ Len(b) = Len(q) - k
        /\ \A i \in 1 .. Len(q) - k : b[i] = q[k + i]
    BY <1>1
  <2>3. r = a \o b
    BY DEF RemoveAt
  <2> HIDE DEF a, b, r
  <2>4. /\ r \in Seq(CallType) /\ Len(r) = Len(a) + Len(b)
        /\ \A i \in 1 .. Len(a) : r[i] = a[i]
        /\ \A i \in 1 .. Len(b) : r[Len(a) + i] = b[i]
    BY <2>1, <2>2, <2>3, Joined
  <2>5. Len(r) = Len(q) - 1 /\ \A i \in 1 .. k - 1 : r[i] = q[i]
    BY <1>1, <2>1, <2>2, <2>4
  <2>6. ASSUME NEW i \in k .. Len(q) - 1 PROVE r[i] = q[i + 1]
    <3> DEFINE n == i - (k - 1)
    <3>1. Len(a) = k - 1 /\ Len(b) = Len(q) - k
      BY <2>1, <2>2
    <3>2. k \in Int /\ Len(q) \in Int /\ i \in Int /\ k <= i /\ i <= Len(q) - 1
      BY <1>1
    <3>3. n \in Int /\ 1 <= n /\ n <= Len(q) - k /\ i = (k - 1) + n /\ i + 1 = k + n
      BY <3>2
    <3>4. n \in 1 .. Len(b) /\ i = Len(a) + n /\ i + 1 = k + n
      BY <3>1, <3>2, <3>3
    <3> HIDE DEF n
    <3>5. r[i] = b[n]
      BY <2>4, <3>4
    <3>6. b[n] = q[k + n]
      BY <2>2, <3>4, <3>1
    <3> QED BY <3>4, <3>5, <3>6
  <2> QED BY <2>4, <2>5, <2>6
<1>3. k = 1 => r = Tail(q)
  BY <1>1 DEF RemoveAt
<1> HIDE DEF r
<1>4. \A i \in 1 .. Len(r) : \E l \in 1 .. Len(q) : r[i] = q[l]
  <2> SUFFICES ASSUME NEW i \in 1 .. Len(r) PROVE \E l \in 1 .. Len(q) : r[i] = q[l]
    OBVIOUS
  <2>1. CASE i < k
    BY <1>1, <1>2, <2>1
  <2>2. CASE i >= k
    BY <1>1, <1>2, <2>2
  <2> QED BY <1>1, <1>2, <2>1, <2>2
<1>5. \A l \in 1 .. Len(q) : l # k => \E i \in 1 .. Len(r) : r[i] = q[l]
  <2> SUFFICES ASSUME NEW l \in 1 .. Len(q), l # k PROVE \E i \in 1 .. Len(r) : r[i] = q[l]
    OBVIOUS
  <2>1. CASE l < k
    BY <1>1, <1>2, <2>1
  <2>2. CASE l > k
    <3>1. l - 1 \in k .. Len(q) - 1 /\ l = (l - 1) + 1 /\ l - 1 \in 1 .. Len(r)
      BY <1>1, <1>2, <2>2
    <3> QED BY <1>2, <3>1
  <2> QED BY <1>1, <2>1, <2>2
<1>6. Good(r) /\ (NoErr(q) => NoErr(r))
  BY <1>2, <1>4 DEF Good, NoErr
<1>7. ASSUME NEW i, HasRead(q, i), ~(q[k].op = "read" /\ q[k].id = i) PROVE HasRead(r, i)
  BY <1>5, <1>7 DEF HasRead
<1> QED BY <1>2, <1>3, <1>6, <1>7 DEF r

\* A call that was just begun.
New(c) == c \in CallType /\ WellFormed(c) /\ c.reply = "none"

LEMMA NewCalls ==
  /\ New(Call("list", None, Empty))
  /\ New(Call("add", None, [name |-> NewUser, quota |-> Zero]))
  /\ \A i \in Ids : New(Call("read", i, Empty)) /\ New(Call("remove", i, Empty))
  /\ \A i \in Ids, row \in Row : New(Call("change", i, row))
<1>1. Zero \in Quota
  BY PanelAssumption DEF Zero, Quota
<1>2. /\ Empty \in Form /\ [name |-> NewUser, quota |-> Zero] \in Row /\ Row \subseteq Form
  BY <1>1 DEF Empty, Form, Known, Row
<1>3. ASSUME NEW op \in {"add", "change", "remove", "read", "list"}, NEW i \in Ids \cup {None},
             NEW row \in Form
      PROVE  /\ Call(op, i, row) \in CallType /\ Call(op, i, row).reply = "none"
             /\ Call(op, i, row).op = op /\ Call(op, i, row).id = i /\ Call(op, i, row).row = row
  <2>1. Call(op, i, row) \in CallType
    BY DEF Call, CallType
  <2>2. /\ Call(op, i, row).reply = "none" /\ Call(op, i, row).op = op
        /\ Call(op, i, row).id = i /\ Call(op, i, row).row = row
    BY DEF Call
  <2> QED BY <2>1, <2>2
<1> QED BY <1>2, <1>3 DEF New, WellFormed

LEMMA OneCall ==
  ASSUME NEW c, New(c)
  PROVE  /\ Good(<<c>>) /\ Len(<<c>>) = 1 /\ NoErr(<<c>>) /\ <<c>>[1] = c
         /\ c.op = "read" => HasRead(<<c>>, c.id)
<1>1. <<c>> \in Seq(CallType) /\ Len(<<c>>) = 1 /\ <<c>>[1] = c
  BY DEF New
<1>2. \A k \in 1 .. Len(<<c>>) : <<c>>[k] = c
  BY <1>1
<1>3. Good(<<c>>) /\ NoErr(<<c>>)
  BY <1>1, <1>2 DEF New, Good, NoErr
<1>4. c.op = "read" => HasRead(<<c>>, c.id)
  BY <1>1 DEF HasRead
<1> QED BY <1>1, <1>3, <1>4

LEMMA NoCalls == Good(<<>>) /\ Len(<<>>) = 0 /\ NoErr(<<>>)
<1>1. <<>> \in Seq(CallType) /\ Len(<<>>) = 0
  OBVIOUS
<1> QED BY <1>1 DEF Good, NoErr

\* What Begin does to the queue.
LEMMA Begun ==
  ASSUME Types, NEW q, Good(q), Len(q) <= Len(calls), NEW cs, Good(cs), NoErr(cs), Begin(q, cs)
  PROVE  /\ Good(calls') /\ calls' = q \o cs
         /\ sent' \in 0 .. MaxCalls /\ Len(calls') <= sent' /\ sent <= sent'
         /\ Len(cs) > 0 => sent' > 0
         /\ NoErr(q) => NoErr(calls')
         /\ \A i : HasRead(q, i) \/ HasRead(cs, i) => HasRead(calls', i)
<1>1. /\ calls' = q \o cs /\ sent' = sent + Len(cs) /\ sent + Len(cs) <= MaxCalls
  BY DEF Begin
<1>2. /\ sent \in Nat /\ MaxCalls \in Nat /\ Len(calls) <= sent
      /\ Len(cs) \in Nat /\ Len(q) \in Nat /\ Len(calls) \in Nat
  BY PanelAssumption DEF Types, TypeOK, Good
<1>3. /\ Good(q \o cs) /\ Len(q \o cs) = Len(q) + Len(cs)
      /\ NoErr(q) => NoErr(q \o cs)
      /\ \A i : HasRead(q \o cs, i) <=> HasRead(q, i) \/ HasRead(cs, i)
  BY Pushed
<1>4. sent' \in 0 .. MaxCalls /\ Len(calls') <= sent' /\ sent <= sent' /\ (Len(cs) > 0 => sent' > 0)
  BY <1>1, <1>2, <1>3
<1> QED BY <1>1, <1>3, <1>4

-----------------------------------------------------------------------------
\* The types, the errors and whose quota the field holds: whatever order the
\* exchanges end in.
TableOK(t)   == DOMAIN t \subseteq Ids /\ \A i \in DOMAIN t : t[i] \in Row
PageOK(s, f) == /\ s \in Item \cup {Nobody} /\ f \in Form
                /\ f.name = None <=> s = Nobody
FlagsOK      == edited \in BOOLEAN /\ failed \in BOOLEAN /\ overtaken \in BOOLEAN

LEMMA TypeParts ==
  TypeOK <=> /\ TableOK(table) /\ PageOK(selected, form) /\ users \subseteq Item
             /\ sent \in 0 .. MaxCalls /\ Len(calls) <= sent /\ typed \in 0 .. MaxTyped
             /\ owner \in Ids \cup {None} /\ FlagsOK
BY DEF TypeOK, TableOK, PageOK, FlagsOK, Item, Form

\* The user who is selected, and what Shown makes of the form.
LEMMA Names1 ==
  /\ Nobody \notin Item /\ Nobody.id = None
  /\ \A s \in Item : s.id \in Ids /\ s.id # None /\ s.name \in Known /\ s.name # None
  /\ \A n \in Known : n # None
BY PanelAssumption DEF Item, Nobody, Known

LEMMA ShownOK ==
  ASSUME PageOK(selected, form), NEW s \in Item \cup {Nobody}
  PROVE  PageOK(s, Shown(s)) /\ (s # Nobody => Shown(s).quota = form.quota)
<1>1. CASE s = Nobody
  <2>1. Empty \in Form /\ Empty.name = None
    BY PanelAssumption DEF Empty, Form, Zero, Quota
  <2> QED BY <1>1, <2>1 DEF PageOK, Shown
<1>2. CASE s # Nobody
  <2>1. /\ s \in Item /\ s.name \in Known /\ s.name # None
    BY <1>2, Names1
  <2>2. Shown(s) = [form EXCEPT !.name = s.name] /\ form \in Form
    BY <1>2 DEF Shown, PageOK
  <2>3. Shown(s) \in Form /\ Shown(s).name = s.name /\ Shown(s).quota = form.quota
    BY <2>1, <2>2 DEF Form
  <2> QED BY <1>2, <2>1, <2>3 DEF PageOK
<1> QED BY <1>1, <1>2

\* The calls of the panel.
LEMMA PanelCalls ==
  /\ Good(updateList) /\ NoErr(updateList) /\ Len(updateList) = 1
  /\ \A s \in Item \cup {Nobody} :
       /\ Good(Reads(s)) /\ NoErr(Reads(s)) /\ Len(Reads(s)) \in 0 .. 1
       /\ s # Nobody => HasRead(Reads(s), s.id)
  /\ \A s \in Item \cup {Nobody} :
       /\ Good(updateList \o Reads(s)) /\ NoErr(updateList \o Reads(s))
       /\ Len(updateList \o Reads(s)) > 0
       /\ s # Nobody => HasRead(updateList \o Reads(s), s.id)
<1>1. Good(updateList) /\ NoErr(updateList) /\ Len(updateList) = 1
  BY NewCalls, OneCall DEF updateList
<1>2. ASSUME NEW s \in Item \cup {Nobody}
      PROVE  /\ Good(Reads(s)) /\ NoErr(Reads(s)) /\ Len(Reads(s)) \in 0 .. 1
             /\ s # Nobody => HasRead(Reads(s), s.id)
  <2>1. CASE s = Nobody
    BY <2>1, NoCalls DEF Reads
  <2>2. CASE s # Nobody
    <3>1. s.id \in Ids /\ Reads(s) = <<Call("read", s.id, Empty)>>
      BY <2>2, Names1 DEF Reads
    <3>2. /\ New(Call("read", s.id, Empty)) /\ Call("read", s.id, Empty).op = "read"
          /\ Call("read", s.id, Empty).id = s.id
      BY <3>1, NewCalls DEF Call
    <3> QED BY <3>1, <3>2, OneCall
  <2> QED BY <2>1, <2>2
<1>3. ASSUME NEW s \in Item \cup {Nobody}
      PROVE  /\ Good(updateList \o Reads(s)) /\ NoErr(updateList \o Reads(s))
             /\ Len(updateList \o Reads(s)) > 0
             /\ s # Nobody => HasRead(updateList \o Reads(s), s.id)
  <2>1. /\ Good(Reads(s)) /\ NoErr(Reads(s)) /\ Len(Reads(s)) \in 0 .. 1
        /\ s # Nobody => HasRead(Reads(s), s.id)
    BY <1>2
  <2>2. /\ Good(updateList \o Reads(s)) /\ NoErr(updateList \o Reads(s))
        /\ Len(updateList \o Reads(s)) = 1 + Len(Reads(s))
        /\ \A i : HasRead(updateList \o Reads(s), i) <=>
                    HasRead(updateList, i) \/ HasRead(Reads(s), i)
    BY <1>1, <2>1, Pushed
  <2> QED BY <2>1, <2>2
<1> QED BY <1>1, <1>2, <1>3

\* A step of the panel that begins calls and leaves the table and the flags of
\* the network alone.
LEMMA PanelStep ==
  ASSUME Basic, NEW q, Good(q), Len(q) <= Len(calls), NoErr(calls) => NoErr(q),
         NEW cs, Good(cs), NoErr(cs), Begin(q, cs), table' = table, failed' = failed,
         overtaken' \in BOOLEAN, edited' \in BOOLEAN,
         PageOK(selected, form)', users' \subseteq Item, typed' \in 0 .. MaxTyped,
         owner' \in Ids \cup {None},
         sent' = 0 => users' = {} /\ selected' = Nobody,
         \/ selected' = Nobody \/ owner' = selected'.id \/ failed
         \/ HasRead(q, selected'.id) \/ HasRead(cs, selected'.id)
  PROVE  Basic' /\ calls' = q \o cs /\ (Len(cs) > 0 => sent' > 0)
<1>1. /\ Good(calls') /\ calls' = q \o cs
      /\ sent' \in 0 .. MaxCalls /\ Len(calls') <= sent'
      /\ Len(cs) > 0 => sent' > 0
      /\ NoErr(q) => NoErr(calls')
      /\ \A i : HasRead(q, i) \/ HasRead(cs, i) => HasRead(calls', i)
  BY Begun DEF Basic
<1>2. TableOK(table)' /\ FlagsOK'
  BY TypeParts DEF Basic, Types, TableOK, FlagsOK
<1>3. TypeOK'
  BY <1>1, <1>2 DEF TypeOK, TableOK, PageOK, FlagsOK, Item, Form
<1>4. Types' /\ Errors' /\ Untouched'
  BY <1>1, <1>3 DEF Basic, Types, Errors, Untouched, Good, NoErr
<1>5. ForeignOnlyMeanwhile'
  BY <1>1 DEF ForeignOnlyMeanwhile, HasRead
<1> QED BY <1>1, <1>4, <1>5 DEF Basic

\* What the invariant says of the page.
LEMMA BasicFacts ==
  ASSUME Basic
  PROVE  /\ TableOK(table) /\ PageOK(selected, form) /\ users \subseteq Item
         /\ sent \in Nat /\ typed \in 0 .. MaxTyped /\ owner \in Ids \cup {None} /\ FlagsOK
         /\ Good(calls) /\ Len(calls) <= Len(calls) /\ Len(calls) \in Nat
         /\ sent = 0 => users = {} /\ selected = Nobody /\ calls = <<>>
         /\ \/ selected = Nobody \/ owner = selected.id \/ failed
            \/ HasRead(calls, selected.id)
<1>1. calls \in Seq(CallType) /\ Len(calls) \in Nat /\ (Len(calls) = 0 => calls = <<>>)
  BY DEF Basic, Types, Good
<1>2. /\ TableOK(table) /\ PageOK(selected, form) /\ users \subseteq Item
      /\ sent \in 0 .. MaxCalls /\ Len(calls) <= sent /\ typed \in 0 .. MaxTyped
      /\ owner \in Ids \cup {None} /\ FlagsOK
  BY TypeParts DEF Basic, Types
<1>3. \/ selected = Nobody \/ owner = selected.id \/ failed \/ HasRead(calls, selected.id)
  BY DEF Basic, ForeignOnlyMeanwhile, HasRead
<1> QED BY <1>1, <1>2, <1>3, PanelAssumption DEF Basic, Types, Untouched

\* The clicks that begin calls, and what they begin.
LEMMA ShowBasic ==
  ASSUME Basic, showUsers
  PROVE  Basic' /\ sent' > 0 /\ calls' = calls \o updateList
<1>1. Begin(calls, updateList)
  BY DEF showUsers
<1>2. UNCHANGED <<table, selected, form, users, typed, owner, edited, failed, overtaken>>
  BY DEF showUsers, history
<1>3. sent' # 0
  BY <1>1, BasicFacts, PanelCalls DEF Begin
<1> QED BY <1>1, <1>2, <1>3, BasicFacts, PanelCalls, PanelStep DEF FlagsOK, PageOK

LEMMA AddBasic ==
  ASSUME Basic, addNewUser
  PROVE  /\ Basic' /\ sent' > 0
         /\ calls' = calls \o <<Call("add", None, [name |-> NewUser, quota |-> Zero])>>
<1> DEFINE cs == <<Call("add", None, [name |-> NewUser, quota |-> Zero])>>
<1>1. Begin(calls, cs)
  BY DEF addNewUser
<1>2. UNCHANGED <<table, selected, form, users, typed, owner, edited, failed, overtaken>>
  BY DEF addNewUser, history
<1>3. Good(cs) /\ NoErr(cs) /\ Len(cs) = 1
  BY NewCalls, OneCall
<1> HIDE DEF cs
<1>4. sent' \in Nat /\ sent' > 0
  BY <1>1, <1>3, BasicFacts DEF Begin
<1>5. PageOK(selected, form)'
  BY <1>2, BasicFacts DEF PageOK
<1>6. edited' \in BOOLEAN /\ overtaken' \in BOOLEAN
  BY <1>2, BasicFacts DEF FlagsOK
<1>7. /\ Good(calls) /\ Len(calls) <= Len(calls) /\ users' \subseteq Item
      /\ typed' \in 0 .. MaxTyped /\ owner' \in Ids \cup {None} /\ sent' # 0
      /\ table' = table /\ failed' = failed
  BY <1>2, <1>4, BasicFacts
<1>8. \/ selected' = Nobody \/ owner' = selected'.id \/ failed \/ HasRead(calls, selected'.id)
  BY <1>2, BasicFacts
<1>9. Basic' /\ calls' = calls \o cs
  BY <1>1, <1>3, <1>5, <1>6, <1>7, <1>8, PanelStep
<1> QED BY <1>4, <1>9 DEF cs

\* The form of a user who is selected is a row.
LEMMA FormRow ==
  ASSUME PageOK(selected, form), selected # Nobody
  PROVE  form \in Row /\ selected \in Item /\ selected.id \in Ids /\ selected.id # None
<1>1. selected \in Item /\ form \in Form /\ form.name # None
  BY DEF PageOK
<1>2. form \in Row
  BY <1>1 DEF Form, Row, Known
<1> QED BY <1>1, <1>2, Names1

LEMMA SaveBasic ==
  ASSUME Basic, saveSelectedUser
  PROVE  Basic' /\ sent' > 0 /\ calls' = calls \o <<Call("change", selected.id, form)>>
<1> DEFINE cs == <<Call("change", selected.id, form)>>
<1>1. Begin(calls, cs) /\ selected # Nobody
  BY DEF saveSelectedUser
<1>2. UNCHANGED <<table, selected, form, users, typed, owner, edited, failed, overtaken>>
  BY DEF saveSelectedUser, history
<1>3. Good(cs) /\ NoErr(cs) /\ Len(cs) = 1
  BY <1>1, BasicFacts, FormRow, NewCalls, OneCall
<1> HIDE DEF cs
<1>4. sent' \in Nat /\ sent' > 0
  BY <1>1, <1>3, BasicFacts DEF Begin
<1>5. PageOK(selected, form)'
  BY <1>2, BasicFacts DEF PageOK
<1>6. edited' \in BOOLEAN /\ overtaken' \in BOOLEAN
  BY <1>2, BasicFacts DEF FlagsOK
<1>7. /\ Good(calls) /\ Len(calls) <= Len(calls) /\ users' \subseteq Item
      /\ typed' \in 0 .. MaxTyped /\ owner' \in Ids \cup {None} /\ sent' # 0
      /\ table' = table /\ failed' = failed
  BY <1>2, <1>4, BasicFacts
<1>8. \/ selected' = Nobody \/ owner' = selected'.id \/ failed \/ HasRead(calls, selected'.id)
  BY <1>2, BasicFacts
<1>9. Basic' /\ calls' = calls \o cs
  BY <1>1, <1>3, <1>5, <1>6, <1>7, <1>8, PanelStep
<1> QED BY <1>4, <1>9 DEF cs

LEMMA DeleteBasic ==
  ASSUME Basic, deleteSelectedUser
  PROVE  /\ Basic' /\ sent' > 0
         /\ calls' = calls \o (<<Call("remove", selected.id, Empty)>> \o updateList)
<1> DEFINE c == <<Call("remove", selected.id, Empty)>>
           cs == c \o updateList
<1>1. Begin(calls, cs) /\ selected # Nobody
  BY DEF deleteSelectedUser
<1>2. /\ UNCHANGED <<table, users, typed, failed, overtaken>>
      /\ selected' = Nobody /\ form' = Shown(Nobody) /\ owner' = None
  BY DEF deleteSelectedUser
<1>3. Good(c) /\ NoErr(c) /\ Len(c) = 1
  BY <1>1, BasicFacts, FormRow, NewCalls, OneCall
<1> HIDE DEF c
<1>4. Good(cs) /\ NoErr(cs) /\ Len(cs) = 2
  <2>1. /\ Good(c \o updateList) /\ Len(c \o updateList) = Len(c) + Len(updateList)
        /\ NoErr(c) /\ NoErr(updateList) => NoErr(c \o updateList)
    BY <1>3, PanelCalls, Pushed
  <2> QED BY <1>3, <2>1, PanelCalls
<1> HIDE DEF cs
<1>5. sent' \in Nat /\ sent' > 0
  BY <1>1, <1>4, BasicFacts DEF Begin
<1>6. PageOK(selected, form)'
  BY <1>2, ShownOK, BasicFacts DEF PageOK
<1>7. edited' \in BOOLEAN /\ overtaken' \in BOOLEAN
  BY BasicFacts DEF FlagsOK, deleteSelectedUser
<1>8. /\ Good(calls) /\ Len(calls) <= Len(calls) /\ users' \subseteq Item
      /\ typed' \in 0 .. MaxTyped /\ owner' \in Ids \cup {None} /\ sent' # 0
  BY <1>2, <1>5, BasicFacts
<1>9. Basic' /\ calls' = calls \o cs
  BY <1>1, <1>2, <1>4, <1>6, <1>7, <1>8, PanelStep
<1> QED BY <1>5, <1>9 DEF c, cs

LEMMA SelectBasic ==
  ASSUME Basic, NEW s \in users, selectUser(s)
  PROVE  Basic' /\ sent' > 0 /\ calls' = calls \o Reads(s) /\ s \in Item /\ s # Nobody
<1>1. /\ s \in Item /\ s # Nobody /\ s.id \in Ids /\ sent # 0
  BY BasicFacts, Names1
<1>2. /\ Begin(calls, Reads(s)) /\ selected' = s /\ form' = Shown(s)
  BY DEF selectUser
<1>3. UNCHANGED <<table, users, typed, owner, edited, failed, overtaken>>
  BY DEF selectUser, history
<1>4. Good(Reads(s)) /\ NoErr(Reads(s)) /\ HasRead(Reads(s), s.id) /\ Len(Reads(s)) \in 0 .. 1
  BY <1>1, PanelCalls
<1>5. sent' \in Nat /\ sent' > 0
  BY <1>1, <1>2, <1>4, BasicFacts DEF Begin
<1>6. PageOK(selected, form)'
  BY <1>1, <1>2, ShownOK, BasicFacts DEF PageOK
<1>7. edited' \in BOOLEAN /\ overtaken' \in BOOLEAN
  BY <1>3, BasicFacts DEF FlagsOK
<1>8. /\ Good(calls) /\ Len(calls) <= Len(calls) /\ users' \subseteq Item
      /\ typed' \in 0 .. MaxTyped /\ owner' \in Ids \cup {None} /\ sent' # 0
  BY <1>3, <1>5, BasicFacts
<1>9. table' = table /\ failed' = failed /\ HasRead(Reads(s), selected'.id)
  BY <1>2, <1>3, <1>4
<1>10. Basic' /\ calls' = calls \o Reads(s)
  BY <1>2, <1>4, <1>6, <1>7, <1>8, <1>9, PanelStep
<1> QED BY <1>1, <1>5, <1>10

LEMMA TypeBasic ==
  ASSUME Basic, \/ \E n \in Numbers : TypeQuota(n)
                \/ \E n \in Names : TypeName(n)
  PROVE  /\ Basic' /\ UNCHANGED <<table, selected, users, calls, sent, failed, overtaken>>
         /\ \/ edited'
            \/ edited' = edited /\ form'.quota = form.quota
<1>1. /\ selected # Nobody /\ UNCHANGED <<table, selected, users, calls, sent, failed, overtaken>>
      /\ typed' \in 0 .. MaxTyped
  BY BasicFacts, PanelAssumption DEF TypeQuota, TypeName
<1>2. form \in Form /\ form.name # None /\ selected \in Item /\ selected.id \in Ids
  BY <1>1, BasicFacts, Names1 DEF PageOK
<1>3. /\ form' \in Form /\ form'.name # None
      /\ \/ edited' = TRUE /\ owner' = selected.id
         \/ UNCHANGED <<owner, edited>> /\ form'.quota = form.quota
  <2>1. ASSUME NEW n \in Numbers, TypeQuota(n)
        PROVE  form' \in Form /\ form'.name # None /\ edited' = TRUE /\ owner' = selected.id
    <3>1. [number |-> n, large |-> FALSE] \in Quota
      BY DEF Quota
    <3> QED BY <1>2, <2>1, <3>1 DEF TypeQuota, Form
  <2>2. ASSUME NEW n \in Names, TypeName(n)
        PROVE  /\ form' \in Form /\ form'.name # None /\ UNCHANGED <<owner, edited>>
               /\ form'.quota = form.quota
    <3>1. n \in Known /\ n # None
      BY Names1 DEF Known
    <3> QED BY <1>2, <2>2, <3>1 DEF TypeName, Form, history
  <2> QED BY <2>1, <2>2
<1>4. TypeOK'
  <2>1. PageOK(selected, form)'
    BY <1>1, <1>2, <1>3 DEF PageOK
  <2>2. owner' \in Ids \cup {None} /\ edited' \in BOOLEAN
    BY <1>2, <1>3, BasicFacts DEF FlagsOK
  <2>3. TypeOK
    BY DEF Basic, Types
  <2> QED BY <1>1, <2>1, <2>2, <2>3 DEF TypeOK, PageOK, Item, Form
<1>5. Types' /\ Errors' /\ Untouched'
  BY <1>1, <1>4 DEF Basic, Types, Errors, Untouched
<1>6. ForeignOnlyMeanwhile'
  BY <1>1, <1>3 DEF Basic, ForeignOnlyMeanwhile
<1> QED BY <1>1, <1>3, <1>5, <1>6 DEF Basic

\* The k-th call is replaced by an answered one.
LEMMA Replaced ==
  ASSUME NEW q, Good(q), NEW k \in 1 .. Len(q), NEW c \in CallType, WellFormed(c),
         c.op = q[k].op, c.id = q[k].id
  PROVE  /\ Good([q EXCEPT ![k] = c]) /\ Len([q EXCEPT ![k] = c]) = Len(q)
         /\ [q EXCEPT ![k] = c][k] = c
         /\ \A l \in 1 .. Len(q) : l # k => [q EXCEPT ![k] = c][l] = q[l]
         /\ NoErr(q) /\ c.reply # "error" => NoErr([q EXCEPT ![k] = c])
         /\ \A i : HasRead(q, i) => HasRead([q EXCEPT ![k] = c], i)
<1> DEFINE r == [q EXCEPT ![k] = c]
<1>1. q \in Seq(CallType) /\ Len(q) \in Nat
  BY DEF Good
<1>2. /\ r \in Seq(CallType) /\ Len(r) = Len(q) /\ r[k] = c
      /\ \A l \in 1 .. Len(q) : l # k => r[l] = q[l]
  BY <1>1
<1> HIDE DEF r
<1>3. Good(r)
  BY <1>2 DEF Good
<1>4. NoErr(q) /\ c.reply # "error" => NoErr(r)
  BY <1>2 DEF NoErr
<1>5. ASSUME NEW i, HasRead(q, i) PROVE HasRead(r, i)
  BY <1>2, <1>5 DEF HasRead
<1> QED BY <1>2, <1>3, <1>4, <1>5 DEF r

\* What the backend does to its table.
Answered(c) == [c EXCEPT !.reply = "ok", !.data = Data(c)]

LEMMA EffectOK ==
  ASSUME TableOK(table), NEW c \in CallType, WellFormed(c), Needs(c) \subseteq DOMAIN table,
         NEW t \in Effect(c)
  PROVE  /\ TableOK(t)
         /\ c.op \in {"read", "list"} => t = table
         /\ \A i \in DOMAIN table : /\ (c.op = "remove" /\ i = c.id) \/ i \in DOMAIN t
                                    /\ i \in DOMAIN t /\ c.op # "change" => t[i] = table[i]
<1>1. CASE c.op = "add"
  <2>1. PICK n \in Ids \ DOMAIN table :
          t = [i \in DOMAIN table \cup {n} |-> IF i = n THEN c.row ELSE table[i]]
    BY <1>1 DEF Effect
  <2>2. c.row \in Row
    BY <1>1 DEF WellFormed
  <2> QED BY <1>1, <2>1, <2>2 DEF TableOK
<1>2. CASE c.op = "change"
  <2>1. t = [table EXCEPT ![c.id] = [c.row EXCEPT !.quota = Stored(@)]]
    BY <1>2 DEF Effect
  <2>2. c.row \in Row /\ Stored(c.row.quota) \in Quota
    BY <1>2 DEF WellFormed, Row, Stored, Quota
  <2>3. [c.row EXCEPT !.quota = Stored(@)] \in Row
    BY <2>2 DEF Row
  <2>4. DOMAIN t = DOMAIN table /\ \A i \in DOMAIN t : t[i] \in Row
    BY <2>1, <2>3 DEF TableOK
  <2> QED BY <1>2, <2>4 DEF TableOK
<1>3. CASE c.op = "remove"
  <2>1. t = [i \in DOMAIN table \ {c.id} |-> table[i]]
    BY <1>3 DEF Effect
  <2> QED BY <1>3, <2>1 DEF TableOK
<1>4. CASE c.op \in {"read", "list"}
  <2>1. t = table
    BY <1>4 DEF Effect
  <2> QED BY <1>4, <2>1
<1> QED BY <1>1, <1>2, <1>3, <1>4 DEF CallType

LEMMA AnswerOK ==
  ASSUME TableOK(table), NEW c \in CallType, WellFormed(c), Needs(c) \subseteq DOMAIN table
  PROVE  /\ Answered(c) \in CallType /\ WellFormed(Answered(c)) /\ Answered(c).reply = "ok"
         /\ Answered(c).op = c.op /\ Answered(c).id = c.id
         /\ c.op = "list" => Answered(c).data = Listed(table)
         /\ c.op = "read" => c.id \in DOMAIN table /\ Answered(c).data = table[c.id].quota
<1>1. Listed(table) \subseteq Item
  BY DEF Listed, TableOK, Row, Item, Known
<1>2. c.op = "read" => c.id \in DOMAIN table /\ table[c.id].quota \in Quota
  BY DEF Needs, TableOK, Row
<1>3. /\ Data(c) \in Quota \cup (SUBSET Item) \cup {<<>>}
      /\ c.op = "list" => Data(c) = Listed(table)
      /\ c.op = "read" => Data(c) = table[c.id].quota
  BY <1>1, <1>2 DEF Data
<1> HIDE DEF Quota, Item
<1>4. /\ Answered(c) \in CallType /\ Answered(c).reply = "ok" /\ Answered(c).data = Data(c)
      /\ Answered(c).op = c.op /\ Answered(c).id = c.id /\ Answered(c).row = c.row
  BY <1>3 DEF Answered, CallType
<1> QED BY <1>1, <1>2, <1>3, <1>4 DEF WellFormed

LEMMA ServeBasic ==
  ASSUME Basic, NEW k \in 1 .. Len(calls), Serve(k)
  PROVE  /\ Basic' /\ calls' = [calls EXCEPT ![k] = Answered(calls[k])]
         /\ calls[k] \in CallType /\ WellFormed(calls[k]) /\ Needs(calls[k]) \subseteq DOMAIN table
         /\ TableOK(table) /\ table' \in Effect(calls[k])
<1>1. /\ calls[k] \in CallType /\ WellFormed(calls[k]) /\ TableOK(table) /\ Good(calls)
  BY BasicFacts DEF Good
<1>2. /\ Needs(calls[k]) \subseteq DOMAIN table /\ table' \in Effect(calls[k])
      /\ UNCHANGED <<selected, form, users, sent, typed, owner, edited, failed>>
  BY DEF Serve, history
<1>3. calls' = [calls EXCEPT ![k] = Answered(calls[k])]
  BY <1>1 DEF Serve, Answered, CallType, Good
<1>4. TableOK(table')
  BY <1>1, <1>2, EffectOK
<1>5. /\ Answered(calls[k]) \in CallType /\ WellFormed(Answered(calls[k]))
      /\ Answered(calls[k]).reply = "ok" /\ Answered(calls[k]).op = calls[k].op
      /\ Answered(calls[k]).id = calls[k].id
  BY <1>1, <1>2, AnswerOK
<1>6. /\ Good(calls') /\ Len(calls') = Len(calls) /\ (NoErr(calls) => NoErr(calls'))
      /\ \A i : HasRead(calls, i) => HasRead(calls', i)
  BY <1>1, <1>3, <1>5, Replaced
<1>7. overtaken' \in BOOLEAN
  BY DEF Serve
<1>8. TypeOK'
  <2>1. TypeOK
    BY DEF Basic, Types
  <2> QED BY <1>2, <1>4, <1>6, <1>7, <2>1 DEF TypeOK, TableOK
<1>9. Types' /\ Errors' /\ Untouched'
  BY <1>2, <1>6, <1>8 DEF Basic, Types, Errors, Untouched, Good, NoErr
<1>10. ForeignOnlyMeanwhile'
  BY <1>2, <1>6 DEF Basic, ForeignOnlyMeanwhile, HasRead
<1> QED BY <1>1, <1>2, <1>3, <1>9, <1>10 DEF Basic

LEMMA BreakBasic ==
  ASSUME Basic, NEW k \in 1 .. Len(calls), Break(k)
  PROVE  Basic' /\ failed'
<1>1. /\ failed' = TRUE
      /\ UNCHANGED <<table, selected, form, users, sent, typed, owner, edited, overtaken>>
  BY DEF Break, history
<1>2. Good(calls') /\ Len(calls') <= Len(calls)
  <2>1. calls[k] \in CallType /\ WellFormed(calls[k]) /\ Good(calls) /\ Len(calls) \in Nat
    BY BasicFacts DEF Good
  <2>2. CASE calls' = [calls EXCEPT ![k].reply = "error"]
    <3> DEFINE c == [calls[k] EXCEPT !.reply = "error"]
    <3>1. /\ c \in CallType /\ c.op = calls[k].op /\ c.id = calls[k].id /\ c.reply = "error"
          /\ c.row = calls[k].row
      BY <2>1 DEF CallType
    <3>2. calls' = [calls EXCEPT ![k] = c]
      BY <2>1, <2>2 DEF Good
    <3> HIDE DEF c
    <3>3. WellFormed(c)
      BY <2>1, <3>1 DEF WellFormed
    <3>4. Good(calls') /\ Len(calls') = Len(calls)
      BY <2>1, <3>1, <3>2, <3>3, Replaced
    <3> QED BY <2>1, <3>4
  <2>3. CASE calls' = RemoveAt(calls, k)
    BY <2>1, <2>3, Dropped
  <2> QED BY <2>2, <2>3 DEF Break
<1>3. TypeOK'
  <2>1. TypeOK /\ Len(calls) \in Nat /\ Len(calls') \in Nat /\ sent \in Nat
    BY <1>2, BasicFacts DEF Basic, Types, Good
  <2>2. Len(calls') <= sent'
    BY <1>1, <1>2, <2>1 DEF TypeOK
  <2>3. FlagsOK'
    BY <1>1, BasicFacts DEF FlagsOK
  <2> QED BY <1>1, <2>1, <2>2, <2>3 DEF TypeOK, FlagsOK
<1>4. Types' /\ Untouched'
  BY <1>1, <1>2, <1>3 DEF Basic, Types, Untouched, Good
<1>5. Errors' /\ ForeignOnlyMeanwhile'
  BY <1>1 DEF Errors, ForeignOnlyMeanwhile
<1> QED BY <1>1, <1>4, <1>5 DEF Basic

\* The answers.  q is what is left of the calls under way.
LEMMA ReplyFacts ==
  ASSUME Basic, NEW k \in 1 .. Len(calls)
  PROVE  /\ Good(RemoveAt(calls, k)) /\ Len(RemoveAt(calls, k)) <= Len(calls)
         /\ NoErr(calls) => NoErr(RemoveAt(calls, k))
         /\ calls[k] \in CallType /\ WellFormed(calls[k])
         /\ sent # 0 /\ RemoveAt(calls, k) \o <<>> = RemoveAt(calls, k)
         /\ \/ selected = Nobody \/ owner = selected.id \/ failed
            \/ calls[k].op = "read" /\ calls[k].id = selected.id
            \/ HasRead(RemoveAt(calls, k), selected.id)
         /\ failed \/ calls[k].reply # "error"
<1>1. /\ Good(calls) /\ Len(calls) \in Nat /\ calls[k] \in CallType /\ WellFormed(calls[k])
  BY BasicFacts DEF Good
<1>2. /\ Good(RemoveAt(calls, k)) /\ Len(RemoveAt(calls, k)) = Len(calls) - 1
      /\ NoErr(calls) => NoErr(RemoveAt(calls, k))
      /\ \A i : HasRead(calls, i) /\ ~(calls[k].op = "read" /\ calls[k].id = i)
                  => HasRead(RemoveAt(calls, k), i)
  BY <1>1, Dropped
<1>3. RemoveAt(calls, k) \o <<>> = RemoveAt(calls, k)
  <2>1. RemoveAt(calls, k) \in Seq(CallType)
    BY <1>2 DEF Good
  <2> QED BY <2>1
<1>4. sent # 0
  <2>1. Len(calls) <= sent /\ sent \in Nat
    BY BasicFacts DEF Basic, Types, TypeOK
  <2> QED BY <1>1, <2>1
<1>5. failed \/ calls[k].reply # "error"
  BY DEF Basic, Errors, NoErr
<1>6. Len(RemoveAt(calls, k)) <= Len(calls)
  BY <1>1, <1>2
<1> QED BY <1>1, <1>2, <1>3, <1>4, <1>5, <1>6, BasicFacts

\* A callback that leaves the selection alone and begins the calls cs.
LEMMA ReplyStep ==
  ASSUME Basic, NEW k \in 1 .. Len(calls), NEW op, Reply(k, op),
         NEW cs, Good(cs), NoErr(cs), Begin(RemoveAt(calls, k), cs),
         selected' = selected, PageOK(selected', form'), users' \subseteq Item,
         owner' \in Ids \cup {None}, edited' \in BOOLEAN,
         \/ owner' = owner /\ (op # "read" \/ ~SettingsOf(calls[k]))
         \/ selected = Nobody \/ owner' = selected.id
  PROVE  Basic' /\ sent' > 0 /\ calls' = RemoveAt(calls, k) \o cs
<1> DEFINE q == RemoveAt(calls, k)
<1>1. /\ Good(q) /\ Len(q) <= Len(calls) /\ (NoErr(calls) => NoErr(q))
      /\ \/ selected = Nobody \/ owner = selected.id \/ failed
         \/ calls[k].op = "read" /\ calls[k].id = selected.id
         \/ HasRead(q, selected.id)
      /\ failed \/ calls[k].reply # "error"
      /\ sent # 0 /\ calls[k] \in CallType
  BY ReplyFacts
<1> HIDE DEF q
<1>2. /\ calls[k].op = op /\ calls[k].reply # "none" /\ table' = table /\ failed' = failed
      /\ typed' = typed
  BY DEF Reply, Unanswered
<1>3. overtaken' \in BOOLEAN
  BY DEF Reply
<1>4. sent' \in Nat /\ sent' > 0
  <2>1. Len(cs) \in Nat /\ sent \in Nat
    BY BasicFacts DEF Good
  <2> QED BY <1>1, <2>1 DEF Begin
<1>5. \/ selected' = Nobody \/ owner' = selected'.id \/ failed
      \/ HasRead(q, selected'.id) \/ HasRead(cs, selected'.id)
  BY <1>1, <1>2 DEF SettingsOf, CallType
<1>6. typed' \in 0 .. MaxTyped /\ sent' # 0 /\ PageOK(selected, form)'
  BY <1>2, <1>4, BasicFacts DEF PageOK
<1>7. Begin(q, cs)
  BY DEF q
<1>8. Basic' /\ calls' = q \o cs
  BY <1>1, <1>2, <1>3, <1>5, <1>6, <1>7, PanelStep
<1> QED BY <1>4, <1>8 DEF q

LEMMA ListReplyBasic ==
  ASSUME Basic, NEW k \in 1 .. Len(calls), cb1(k)
  PROVE  Basic' /\ sent' > 0 /\ calls' = RemoveAt(calls, k)
<1>1. /\ Reply(k, "list") /\ Begin(RemoveAt(calls, k), <<>>)
      /\ UNCHANGED <<selected, form, owner, edited>>
  BY DEF cb1, history
<1>2. users' \subseteq Item
  <2>1. WellFormed(calls[k]) /\ calls[k].op = "list"
    BY <1>1, ReplyFacts DEF Reply
  <2> QED BY <2>1 DEF cb1, WellFormed
<1>3. PageOK(selected', form') /\ owner' \in Ids \cup {None} /\ edited' \in BOOLEAN
  BY <1>1, BasicFacts DEF FlagsOK
<1> DEFINE cs == <<>>
<1>4. Good(cs) /\ NoErr(cs) /\ Begin(RemoveAt(calls, k), cs)
  BY <1>1, NoCalls
<1> HIDE DEF cs
<1>5. Basic' /\ sent' > 0 /\ calls' = RemoveAt(calls, k) \o cs
  BY <1>1, <1>2, <1>3, <1>4, ReplyStep
<1> QED BY <1>5, ReplyFacts DEF cs

LEMMA AddReplyBasic ==
  ASSUME Basic, NEW k \in 1 .. Len(calls), cb4(k)
  PROVE  Basic' /\ sent' > 0 /\ calls' = RemoveAt(calls, k) \o updateList
<1>1. /\ Reply(k, "add") /\ Begin(RemoveAt(calls, k), updateList)
      /\ UNCHANGED <<selected, form, users, owner, edited>>
  BY DEF cb4, history
<1>2. /\ PageOK(selected', form') /\ users' \subseteq Item /\ owner' \in Ids \cup {None}
      /\ edited' \in BOOLEAN
  BY <1>1, BasicFacts DEF FlagsOK
<1> QED BY <1>1, <1>2, PanelCalls, ReplyStep

LEMMA IgnoredBasic ==
  ASSUME Basic, NEW k \in 1 .. Len(calls), Ignored(k)
  PROVE  Basic' /\ sent' > 0 /\ calls' = RemoveAt(calls, k)
<1>1. /\ Reply(k, "remove") /\ Begin(RemoveAt(calls, k), <<>>)
      /\ UNCHANGED <<selected, form, users, owner, edited>>
  BY DEF Ignored, history
<1>2. /\ PageOK(selected', form') /\ users' \subseteq Item /\ owner' \in Ids \cup {None}
      /\ edited' \in BOOLEAN
  BY <1>1, BasicFacts DEF FlagsOK
<1> DEFINE cs == <<>>
<1>3. Good(cs) /\ NoErr(cs) /\ Begin(RemoveAt(calls, k), cs)
  BY <1>1, NoCalls
<1> HIDE DEF cs
<1>4. Basic' /\ sent' > 0 /\ calls' = RemoveAt(calls, k) \o cs
  BY <1>1, <1>2, <1>3, ReplyStep
<1> QED BY <1>4, ReplyFacts DEF cs

LEMMA ReadReplyBasic ==
  ASSUME Basic, NEW k \in 1 .. Len(calls), cb5(k)
  PROVE  Basic' /\ sent' > 0 /\ calls' = RemoveAt(calls, k)
<1>1. /\ Reply(k, "read") /\ Begin(RemoveAt(calls, k), <<>>) /\ UNCHANGED <<selected, users>>
  BY DEF cb5
<1>2. calls[k].op = "read" /\ WellFormed(calls[k]) /\ PageOK(selected, form)
  BY <1>1, ReplyFacts, BasicFacts DEF Reply
<1>3. CASE SettingsOf(calls[k])
  <2>1. /\ form' = [form EXCEPT !.quota = calls[k].data] /\ owner' = calls[k].id
        /\ edited' = FALSE
    BY <1>3 DEF cb5
  <2>2. calls[k].data \in Quota /\ calls[k].id \in Ids /\ calls[k].id = selected.id
    BY <1>2, <1>3 DEF SettingsOf, WellFormed
  <2>3. form' \in Form /\ form'.name = form.name
    BY <1>2, <2>1, <2>2 DEF PageOK, Form
  <2>4. PageOK(selected', form') /\ users' \subseteq Item
    BY <1>1, <1>2, <2>3, BasicFacts DEF PageOK
  <2>5. edited' \in BOOLEAN
    BY <2>1
  <2>6. owner' \in Ids \cup {None} /\ owner' = selected.id
    BY <2>1, <2>2
  <2>7. Basic' /\ sent' > 0 /\ calls' = RemoveAt(calls, k) \o <<>>
    BY <1>1, <2>4, <2>5, <2>6, NoCalls, ReplyStep
  <2> QED BY <2>7, ReplyFacts
<1>4. CASE ~SettingsOf(calls[k])
  <2>1. UNCHANGED <<form, owner, edited>>
    BY <1>4 DEF cb5
  <2>2. /\ PageOK(selected', form') /\ users' \subseteq Item /\ owner' \in Ids \cup {None}
        /\ edited' \in BOOLEAN
    BY <1>1, <2>1, BasicFacts DEF FlagsOK
  <2>3. Basic' /\ sent' > 0 /\ calls' = RemoveAt(calls, k) \o <<>>
    BY <1>1, <1>4, <2>1, <2>2, NoCalls, ReplyStep
  <2> QED BY <2>3, ReplyFacts
<1> QED BY <1>3, <1>4

LEMMA SaveReplyBasic ==
  ASSUME Basic, NEW k \in 1 .. Len(calls), cb6(k)
  PROVE  Basic' /\ sent' > 0 /\ calls' = RemoveAt(calls, k) \o (updateList \o Reads(selected))
<1>1. /\ Reply(k, "change") /\ Begin(RemoveAt(calls, k), updateList \o Reads(selected))
      /\ UNCHANGED <<selected, users>> /\ form' = Shown(selected)
      /\ \/ selected = Nobody /\ owner' = None
         \/ selected # Nobody /\ owner' = owner
  BY DEF cb6
<1>2. edited' \in BOOLEAN
  <2>1. CASE selected = Nobody
    BY <2>1 DEF cb6
  <2>2. CASE selected # Nobody
    BY <2>2, BasicFacts DEF cb6, FlagsOK
  <2> QED BY <2>1, <2>2
<1>3. PageOK(selected, form) /\ selected \in Item \cup {Nobody}
  BY BasicFacts DEF PageOK
<1>4. PageOK(selected', form')
  BY <1>1, <1>3, ShownOK
<1>5. users' \subseteq Item /\ owner' \in Ids \cup {None}
  BY <1>1, BasicFacts
<1>6. Good(updateList \o Reads(selected)) /\ NoErr(updateList \o Reads(selected))
  BY <1>3, PanelCalls
<1> DEFINE cs == updateList \o Reads(selected)
<1> HIDE DEF cs
<1>7. Good(cs) /\ NoErr(cs) /\ Begin(RemoveAt(calls, k), cs)
  BY <1>1, <1>6 DEF cs
<1>8. Basic' /\ sent' > 0 /\ calls' = RemoveAt(calls, k) \o cs
  BY <1>1, <1>2, <1>4, <1>5, <1>7, ReplyStep
<1> QED BY <1>8 DEF cs

-----------------------------------------------------------------------------
\* What the page shows while the exchanges end in order.  First the queue: calls
\* are begun behind it, ...
AllNew(q)     == \A k \in 1 .. Len(q) : q[k].reply = "none"
HasOp(q, ops) == \E k \in 1 .. Len(q) : q[k].op \in ops

LEMMA PushedAt ==
  ASSUME NEW q, Good(q), NEW cs, Good(cs)
  PROVE  /\ Len(q) \in Nat /\ Len(cs) \in Nat /\ Len(q \o cs) = Len(q) + Len(cs)
         /\ \A k \in 1 .. Len(q) : (q \o cs)[k] = q[k]
         /\ \A k \in 1 .. Len(cs) : (q \o cs)[Len(q) + k] = cs[k]
BY Joined DEF Good

LEMMA PushOrder ==
  ASSUME NEW q, Good(q), NEW cs, Good(cs), AllNew(cs)
  PROVE  /\ Fifo(q) => Fifo(q \o cs)
         /\ Relisted(q) /\ Relisted(cs) => Relisted(q \o cs)
         /\ \A s : Reread(q, s) /\ Reread(cs, s) => Reread(q \o cs, s)
         /\ \A s : HasRead(cs, s.id) /\ ~HasOp(cs, {"remove"}) => Reread(q \o cs, s)
<1> DEFINE r == q \o cs
<1>1. /\ Len(q) \in Nat /\ Len(cs) \in Nat /\ Len(r) = Len(q) + Len(cs)
      /\ \A k \in 1 .. Len(q) : r[k] = q[k]
      /\ \A k \in 1 .. Len(cs) : r[Len(q) + k] = cs[k]
  BY PushedAt
<1> HIDE DEF r
<1>2. \A k \in 1 .. Len(r) :
        \/ k \in 1 .. Len(q) /\ r[k] = q[k]
        \/ k - Len(q) \in 1 .. Len(cs) /\ r[k] = cs[k - Len(q)] /\ k > Len(q)
  <2> SUFFICES ASSUME NEW k \in 1 .. Len(r), k > Len(q)
               PROVE  k - Len(q) \in 1 .. Len(cs) /\ r[k] = cs[k - Len(q)]
    BY <1>1
  <2>1. k - Len(q) \in 1 .. Len(cs) /\ k = Len(q) + (k - Len(q))
    BY <1>1
  <2> QED BY <1>1, <2>1
<1>3. \A k \in 1 .. Len(cs) : \A j \in 1 .. Len(q) : Len(q) + k \in j + 1 .. Len(r)
  BY <1>1
<1>4. ASSUME Fifo(q) PROVE Fifo(r)
  <2> SUFFICES ASSUME NEW k \in 1 .. Len(r), NEW l \in 1 .. Len(r), k < l, r[k].reply = "none"
               PROVE  r[l].reply = "none"
    BY DEF Fifo
  <2>1. CASE l \in 1 .. Len(q) /\ r[l] = q[l]
    <3>1. k \in 1 .. Len(q)
      BY <1>1, <2>1
    <3> QED BY <1>1, <1>4, <2>1, <3>1 DEF Fifo
  <2>2. CASE l - Len(q) \in 1 .. Len(cs) /\ r[l] = cs[l - Len(q)]
    BY <2>2 DEF AllNew
  <2> QED BY <1>2, <2>1, <2>2
<1>5. ASSUME Relisted(q), Relisted(cs) PROVE Relisted(r)
  <2> SUFFICES ASSUME NEW k \in 1 .. Len(r), r[k].op = "remove", r[k].reply = "none"
               PROVE  \E l \in k + 1 .. Len(r) : r[l].op = "list"
    BY DEF Relisted
  <2>1. CASE k \in 1 .. Len(q) /\ r[k] = q[k]
    <3>1. PICK l \in k + 1 .. Len(q) : q[l].op = "list"
      BY <1>5, <2>1 DEF Relisted
    <3>2. l \in 1 .. Len(q) /\ l \in k + 1 .. Len(r)
      BY <1>1, <2>1
    <3> QED BY <1>1, <3>1, <3>2
  <2>2. CASE k - Len(q) \in 1 .. Len(cs) /\ r[k] = cs[k - Len(q)] /\ k > Len(q)
    <3>1. PICK l \in (k - Len(q)) + 1 .. Len(cs) : cs[l].op = "list"
      BY <1>5, <2>2 DEF Relisted
    <3>2. l \in 1 .. Len(cs) /\ Len(q) + l \in k + 1 .. Len(r)
      BY <1>1, <2>2
    <3> QED BY <1>1, <3>1, <3>2
  <2> QED BY <1>2, <2>1, <2>2
<1>6. ASSUME NEW s, Reread(q, s), Reread(cs, s) PROVE Reread(r, s)
  <2> SUFFICES ASSUME NEW k \in 1 .. Len(r), r[k].op = "remove", r[k].reply = "none",
                      r[k].id = s.id
               PROVE  \E l \in k + 1 .. Len(r) : IsRead(r[l], s)
    BY DEF Reread
  <2>1. CASE k \in 1 .. Len(q) /\ r[k] = q[k]
    <3>1. PICK l \in k + 1 .. Len(q) : IsRead(q[l], s)
      BY <1>6, <2>1 DEF Reread
    <3>2. l \in 1 .. Len(q) /\ l \in k + 1 .. Len(r)
      BY <1>1, <2>1
    <3> QED BY <1>1, <3>1, <3>2
  <2>2. CASE k - Len(q) \in 1 .. Len(cs) /\ r[k] = cs[k - Len(q)] /\ k > Len(q)
    <3>1. PICK l \in (k - Len(q)) + 1 .. Len(cs) : IsRead(cs[l], s)
      BY <1>6, <2>2 DEF Reread
    <3>2. l \in 1 .. Len(cs) /\ Len(q) + l \in k + 1 .. Len(r)
      BY <1>1, <2>2
    <3> QED BY <1>1, <3>1, <3>2
  <2> QED BY <1>2, <2>1, <2>2
<1>7. ASSUME NEW s, HasRead(cs, s.id), ~HasOp(cs, {"remove"}) PROVE Reread(r, s)
  <2> SUFFICES ASSUME NEW k \in 1 .. Len(r), r[k].op = "remove"
               PROVE  \E l \in k + 1 .. Len(r) : IsRead(r[l], s)
    BY DEF Reread
  <2>1. k \in 1 .. Len(q)
    BY <1>2, <1>7 DEF HasOp
  <2>2. PICK l \in 1 .. Len(cs) : IsRead(cs[l], s)
    BY <1>7 DEF HasRead, IsRead
  <2> QED BY <1>1, <1>3, <2>1, <2>2
<1> QED BY <1>4, <1>5, <1>6, <1>7 DEF r

\* The page will be right if one of the new calls asks, and is as it was if
\* none does.
LEMMA PushList ==
  ASSUME NEW q, Good(q), NEW cs, Good(cs), AllNew(cs), NEW t, NEW list
  PROVE  /\ HasOp(cs, {"list", "add", "change"}) => ListFresh(q \o cs, t, list)
         /\ ListFresh(q, t, list) => ListFresh(q \o cs, t, list)
<1> DEFINE r == q \o cs
<1>1. /\ Len(q) \in Nat /\ Len(cs) \in Nat /\ Len(r) = Len(q) + Len(cs)
      /\ \A k \in 1 .. Len(q) : r[k] = q[k]
      /\ \A k \in 1 .. Len(cs) : r[Len(q) + k] = cs[k]
  BY PushedAt
<1> HIDE DEF r
<1>2. \A k \in Len(q) + 1 .. Len(r) : r[k].reply = "none" /\ r[k] = cs[k - Len(q)]
  <2> SUFFICES ASSUME NEW k \in Len(q) + 1 .. Len(r)
               PROVE  r[k].reply = "none" /\ r[k] = cs[k - Len(q)]
    OBVIOUS
  <2>1. k - Len(q) \in 1 .. Len(cs) /\ k = Len(q) + (k - Len(q))
    BY <1>1
  <2> QED BY <1>1, <2>1 DEF AllNew
<1>3. ASSUME HasOp(cs, {"list", "add", "change"}) PROVE ListFresh(r, t, list)
  <2>1. PICK l \in 1 .. Len(cs) : cs[l].op \in {"list", "add", "change"}
    BY <1>3 DEF HasOp
  <2>2. Len(q) + l \in 1 .. Len(r) /\ r[Len(q) + l] = cs[l]
    BY <1>1
  <2>3. \A m \in Len(q) + l .. Len(r) : m \in Len(q) + 1 .. Len(r)
    BY <1>1
  <2>4. \A m \in Len(q) + l .. Len(r) : Right(r[m], t)
    BY <1>2, <2>3 DEF Right
  <2> QED BY <2>1, <2>2, <2>4 DEF ListFresh
<1>4. ASSUME ListFresh(q, t, list), ~HasOp(cs, {"list", "add", "change"})
      PROVE  ListFresh(r, t, list)
  <2>1. \A k \in 1 .. Len(q) : k \in 1 .. Len(r)
    BY <1>1
  <2>2. ASSUME NEW k \in 1 .. Len(r), r[k].op = "list" PROVE k \in 1 .. Len(q) /\ r[k] = q[k]
    <3>1. CASE k > Len(q)
      <4>1. k - Len(q) \in 1 .. Len(cs) /\ k \in Len(q) + 1 .. Len(r)
        BY <1>1, <3>1
      <4> QED BY <1>2, <1>4, <2>2, <4>1 DEF HasOp
    <3> QED BY <1>1, <3>1
  <2>3. CASE \E l \in 1 .. Len(q) : q[l].op \in {"add", "change"}
    BY <1>1, <2>1, <2>3 DEF ListFresh
  <2>4. CASE \E l \in 1 .. Len(q) :
               /\ q[l].op = "list"
               /\ \A m \in l .. Len(q) : q[m].op = "list" => Right(q[m], t)
    <3>1. PICK l \in 1 .. Len(q) :
                 /\ q[l].op = "list"
                 /\ \A m \in l .. Len(q) : q[m].op = "list" => Right(q[m], t)
      BY <2>4
    <3>2. ASSUME NEW m \in l .. Len(r), r[m].op = "list" PROVE Right(r[m], t)
      <4>1. m \in 1 .. Len(r)
        BY <1>1
      <4>2. m \in 1 .. Len(q) /\ r[m] = q[m]
        BY <2>2, <3>2, <4>1
      <4>3. m \in l .. Len(q)
        BY <1>1, <4>2
      <4> QED BY <3>1, <3>2, <4>2, <4>3
    <3> QED BY <1>1, <2>1, <3>1, <3>2 DEF ListFresh
  <2>5. CASE list = Listed(t) /\ \A l \in 1 .. Len(q) : q[l].op # "list"
    BY <2>2, <2>5 DEF ListFresh
  <2> QED BY <1>4, <2>3, <2>4, <2>5 DEF ListFresh
<1> QED BY <1>3, <1>4 DEF r

LEMMA PushQuota ==
  ASSUME NEW q, Good(q), NEW cs, Good(cs), AllNew(cs), NEW t, NEW s, NEW quota, NEW typedIn
  PROVE  /\ HasOp(cs, {"change"}) \/ HasRead(cs, s.id) => QuotaFresh(q \o cs, t, s, quota, typedIn)
         /\ QuotaFresh(q, t, s, quota, typedIn) => QuotaFresh(q \o cs, t, s, quota, typedIn)
<1> DEFINE r == q \o cs
<1>1. /\ Len(q) \in Nat /\ Len(cs) \in Nat /\ Len(r) = Len(q) + Len(cs)
      /\ \A k \in 1 .. Len(q) : r[k] = q[k]
      /\ \A k \in 1 .. Len(cs) : r[Len(q) + k] = cs[k]
  BY PushedAt
<1> HIDE DEF r
<1>2. \A k \in Len(q) + 1 .. Len(r) : r[k].reply = "none" /\ r[k] = cs[k - Len(q)]
  <2> SUFFICES ASSUME NEW k \in Len(q) + 1 .. Len(r)
               PROVE  r[k].reply = "none" /\ r[k] = cs[k - Len(q)]
    OBVIOUS
  <2>1. k - Len(q) \in 1 .. Len(cs) /\ k = Len(q) + (k - Len(q))
    BY <1>1
  <2> QED BY <1>1, <2>1 DEF AllNew
<1>3. ASSUME HasOp(cs, {"change"}) \/ HasRead(cs, s.id)
      PROVE  QuotaFresh(r, t, s, quota, typedIn)
  <2>1. PICK l \in 1 .. Len(cs) : cs[l].op = "change" \/ IsRead(cs[l], s)
    BY <1>3 DEF HasOp, HasRead, IsRead
  <2>2. Len(q) + l \in 1 .. Len(r) /\ r[Len(q) + l] = cs[l]
    BY <1>1
  <2>3. \A m \in Len(q) + l .. Len(r) : m \in Len(q) + 1 .. Len(r)
    BY <1>1
  <2>4. \A m \in Len(q) + l .. Len(r) : RightQuota(r[m], t, s)
    BY <1>2, <2>3 DEF RightQuota
  <2> QED BY <2>1, <2>2, <2>4 DEF QuotaFresh
<1>4. ASSUME QuotaFresh(q, t, s, quota, typedIn), ~HasRead(cs, s.id)
      PROVE  QuotaFresh(r, t, s, quota, typedIn)
  <2>1. \A k \in 1 .. Len(q) : k \in 1 .. Len(r)
    BY <1>1
  <2>2. ASSUME NEW k \in 1 .. Len(r), IsRead(r[k], s) PROVE k \in 1 .. Len(q) /\ r[k] = q[k]
    <3>1. CASE k > Len(q)
      <4>1. k - Len(q) \in 1 .. Len(cs) /\ k \in Len(q) + 1 .. Len(r)
        BY <1>1, <3>1
      <4> QED BY <1>2, <1>4, <2>2, <4>1 DEF HasRead, IsRead
    <3> QED BY <1>1, <3>1
  <2>3. CASE \E l \in 1 .. Len(q) : q[l].op = "change"
    BY <1>1, <2>1, <2>3 DEF QuotaFresh
  <2>4. CASE \E l \in 1 .. Len(q) :
               /\ IsRead(q[l], s)
               /\ \A m \in l .. Len(q) : IsRead(q[m], s) => RightQuota(q[m], t, s)
    <3>1. PICK l \in 1 .. Len(q) :
                 /\ IsRead(q[l], s)
                 /\ \A m \in l .. Len(q) : IsRead(q[m], s) => RightQuota(q[m], t, s)
      BY <2>4
    <3>2. ASSUME NEW m \in l .. Len(r), IsRead(r[m], s) PROVE RightQuota(r[m], t, s)
      <4>1. m \in 1 .. Len(r)
        BY <1>1
      <4>2. m \in 1 .. Len(q) /\ r[m] = q[m]
        BY <2>2, <3>2, <4>1
      <4>3. m \in l .. Len(q)
        BY <1>1, <4>2
      <4> QED BY <3>1, <3>2, <4>2, <4>3
    <3> QED BY <1>1, <2>1, <3>1, <3>2 DEF QuotaFresh
  <2>5. CASE /\ typedIn \/ (s.id \in DOMAIN t /\ quota = t[s.id].quota)
             /\ \A l \in 1 .. Len(q) : ~IsRead(q[l], s)
    BY <2>2, <2>5 DEF QuotaFresh
  <2> QED BY <1>4, <2>3, <2>4, <2>5 DEF QuotaFresh
<1> QED BY <1>3, <1>4 DEF r

\* ... the first call ends, ...
LEMMA PoppedAt ==
  ASSUME NEW q, Good(q), 1 \in 1 .. Len(q)
  PROVE  /\ Good(Tail(q)) /\ Len(q) \in Nat /\ Len(Tail(q)) = Len(q) - 1
         /\ \A k \in 1 .. Len(Tail(q)) : k + 1 \in 2 .. Len(q) /\ Tail(q)[k] = q[k + 1]
         /\ \A k \in 2 .. Len(q) : k - 1 \in 1 .. Len(Tail(q)) /\ q[k] = Tail(q)[k - 1]
<1>1. q \in Seq(CallType) /\ Len(q) \in Nat /\ Len(q) # 0
  BY DEF Good
<1>2. /\ Tail(q) \in Seq(CallType) /\ Len(Tail(q)) = Len(q) - 1
      /\ \A k \in 1 .. Len(q) - 1 : Tail(q)[k] = q[k + 1]
  BY <1>1
<1>3. \A k \in 1 .. Len(Tail(q)) : k + 1 \in 2 .. Len(q) /\ Tail(q)[k] = q[k + 1]
  BY <1>1, <1>2
<1>4. \A k \in 2 .. Len(q) : k - 1 \in 1 .. Len(Tail(q)) /\ q[k] = Tail(q)[k - 1]
  <2> SUFFICES ASSUME NEW k \in 2 .. Len(q)
               PROVE  k - 1 \in 1 .. Len(Tail(q)) /\ q[k] = Tail(q)[k - 1]
    OBVIOUS
  <2>1. k - 1 \in 1 .. Len(q) - 1 /\ (k - 1) + 1 = k
    BY <1>1
  <2> QED BY <1>2, <2>1
<1>5. Good(Tail(q))
  <2>1. \A k \in 2 .. Len(q) : k \in 1 .. Len(q)
    BY <1>1
  <2> QED BY <1>2, <1>3, <2>1 DEF Good
<1> QED BY <1>1, <1>2, <1>3, <1>4, <1>5

LEMMA PopOrder ==
  ASSUME NEW q, Good(q), 1 \in 1 .. Len(q)
  PROVE  /\ Fifo(q) => Fifo(Tail(q))
         /\ Relisted(q) => Relisted(Tail(q))
         /\ \A s : Reread(q, s) => Reread(Tail(q), s)
<1> DEFINE r == Tail(q)
<1>1. /\ Len(q) \in Nat /\ Len(r) = Len(q) - 1
      /\ \A k \in 1 .. Len(r) : k + 1 \in 2 .. Len(q) /\ r[k] = q[k + 1]
      /\ \A k \in 2 .. Len(q) : k - 1 \in 1 .. Len(r) /\ q[k] = r[k - 1]
  BY PoppedAt
<1> HIDE DEF r
<1>2. \A k \in 1 .. Len(r) : k + 1 \in 1 .. Len(q) /\ r[k] = q[k + 1]
  BY <1>1
<1>3. \A k \in 1 .. Len(r) : \A l \in (k + 1) + 1 .. Len(q) : l - 1 \in k + 1 .. Len(r) /\ q[l] = r[l - 1]
  <2> SUFFICES ASSUME NEW k \in 1 .. Len(r), NEW l \in (k + 1) + 1 .. Len(q)
               PROVE  l - 1 \in k + 1 .. Len(r) /\ q[l] = r[l - 1]
    OBVIOUS
  <2>1. l \in 2 .. Len(q) /\ l - 1 \in k + 1 .. Len(r)
    BY <1>1
  <2> QED BY <1>1, <2>1
<1>4. ASSUME Fifo(q) PROVE Fifo(r)
  <2> SUFFICES ASSUME NEW k \in 1 .. Len(r), NEW l \in 1 .. Len(r), k < l, r[k].reply = "none"
               PROVE  r[l].reply = "none"
    BY DEF Fifo
  <2>1. k + 1 < l + 1
    BY <1>1
  <2> QED BY <1>2, <1>4, <2>1 DEF Fifo
<1>5. Relisted(q) => Relisted(r)
  BY <1>2, <1>3 DEF Relisted
<1>6. ASSUME NEW s, Reread(q, s) PROVE Reread(r, s)
  BY <1>2, <1>3, <1>6 DEF Reread
<1> QED BY <1>4, <1>5, <1>6 DEF r

LEMMA PopList ==
  ASSUME NEW q, Good(q), 1 \in 1 .. Len(q), q[1].reply # "none", NEW t, NEW list,
         ListFresh(q, t, list)
  PROVE  /\ q[1].op \notin {"list", "add", "change"} => ListFresh(Tail(q), t, list)
         /\ q[1].op = "list" => ListFresh(Tail(q), t, q[1].data)
<1> DEFINE r == Tail(q)
<1>1. /\ Len(q) \in Nat /\ Len(r) = Len(q) - 1
      /\ \A k \in 1 .. Len(r) : k + 1 \in 2 .. Len(q) /\ r[k] = q[k + 1]
      /\ \A k \in 2 .. Len(q) : k - 1 \in 1 .. Len(r) /\ q[k] = r[k - 1]
  BY PoppedAt
<1> HIDE DEF r
<1>2. \A k \in 1 .. Len(r) : k + 1 \in 1 .. Len(q) /\ r[k] = q[k + 1]
  BY <1>1
<1>3. SUFFICES ASSUME NEW d, q[1].op \notin {"add", "change"},
                      d = IF q[1].op = "list" THEN q[1].data ELSE list
               PROVE  ListFresh(r, t, d)
  BY DEF r
<1>4. CASE \E l \in 1 .. Len(q) : q[l].op \in {"add", "change"}
  <2>1. PICK l \in 1 .. Len(q) : q[l].op \in {"add", "change"}
    BY <1>4
  <2>2. l \in 2 .. Len(q)
    BY <1>1, <1>3, <2>1
  <2> QED BY <1>1, <2>1, <2>2 DEF ListFresh
<1>5. CASE \E l \in 1 .. Len(q) :
             /\ q[l].op = "list"
             /\ \A m \in l .. Len(q) : q[m].op = "list" => Right(q[m], t)
  <2>1. PICK l \in 1 .. Len(q) :
               /\ q[l].op = "list"
               /\ \A m \in l .. Len(q) : q[m].op = "list" => Right(q[m], t)
    BY <1>5
  <2>2. ASSUME NEW m \in 1 .. Len(r), l <= m + 1, r[m].op = "list" PROVE Right(r[m], t)
    <3>1. m + 1 \in l .. Len(q) /\ r[m] = q[m + 1]
      BY <1>1, <2>2
    <3> QED BY <2>1, <2>2, <3>1
  <2>3. ASSUME NEW n \in 1 .. Len(r), r[n].op = "list", l <= n + 1 PROVE ListFresh(r, t, d)
    <3>1. \A m \in n .. Len(r) : m \in 1 .. Len(r) /\ l <= m + 1
      BY <1>1, <2>3
    <3> QED BY <2>2, <2>3, <3>1 DEF ListFresh
  <2>4. CASE l = 1
    <3>1. \A n \in 1 .. Len(r) : l <= n + 1
      BY <1>1, <2>4
    <3>2. d = Listed(t)
      <4>1. l \in l .. Len(q)
        BY <1>1
      <4> QED BY <1>3, <2>1, <2>4, <4>1 DEF Right
    <3>3. CASE \E n \in 1 .. Len(r) : r[n].op = "list"
      BY <2>3, <3>1, <3>3
    <3> QED BY <3>2, <3>3 DEF ListFresh
  <2>5. CASE l # 1
    <3>1. l \in 2 .. Len(q) /\ l <= (l - 1) + 1
      BY <1>1, <2>5
    <3>2. l - 1 \in 1 .. Len(r) /\ r[l - 1].op = "list"
      BY <1>1, <2>1, <3>1
    <3> QED BY <2>3, <3>1, <3>2
  <2> QED BY <2>4, <2>5
<1>6. CASE list = Listed(t) /\ \A l \in 1 .. Len(q) : q[l].op # "list"
  BY <1>2, <1>3, <1>6 DEF ListFresh
<1> QED BY <1>4, <1>5, <1>6 DEF ListFresh

LEMMA PopQuota ==
  ASSUME NEW q, Good(q), 1 \in 1 .. Len(q), q[1].reply # "none", NEW t, NEW s, NEW quota,
         NEW typedIn, QuotaFresh(q, t, s, quota, typedIn), q[1].op # "change"
  PROVE  /\ ~IsRead(q[1], s) => QuotaFresh(Tail(q), t, s, quota, typedIn)
         /\ IsRead(q[1], s) => QuotaFresh(Tail(q), t, s, q[1].data, FALSE)
<1> DEFINE r == Tail(q)
<1>1. /\ Len(q) \in Nat /\ Len(r) = Len(q) - 1
      /\ \A k \in 1 .. Len(r) : k + 1 \in 2 .. Len(q) /\ r[k] = q[k + 1]
      /\ \A k \in 2 .. Len(q) : k - 1 \in 1 .. Len(r) /\ q[k] = r[k - 1]
  BY PoppedAt
<1> HIDE DEF r
<1>2. \A k \in 1 .. Len(r) : k + 1 \in 1 .. Len(q) /\ r[k] = q[k + 1]
  BY <1>1
<1>3. SUFFICES ASSUME NEW d, NEW e, \/ IsRead(q[1], s) /\ d = q[1].data
                                    \/ ~IsRead(q[1], s) /\ d = quota /\ e = typedIn
               PROVE  QuotaFresh(r, t, s, d, e)
  BY DEF r
<1>4. CASE s = Nobody
  BY <1>4 DEF QuotaFresh
<1>5. CASE \E l \in 1 .. Len(q) : q[l].op = "change"
  <2>1. PICK l \in 1 .. Len(q) : q[l].op = "change"
    BY <1>5
  <2>2. l \in 2 .. Len(q)
    BY <1>1, <2>1
  <2> QED BY <1>1, <2>1, <2>2 DEF QuotaFresh
<1>6. CASE \E l \in 1 .. Len(q) :
             /\ IsRead(q[l], s)
             /\ \A m \in l .. Len(q) : IsRead(q[m], s) => RightQuota(q[m], t, s)
  <2>1. PICK l \in 1 .. Len(q) :
               /\ IsRead(q[l], s)
               /\ \A m \in l .. Len(q) : IsRead(q[m], s) => RightQuota(q[m], t, s)
    BY <1>6
  <2>2. ASSUME NEW m \in 1 .. Len(r), l <= m + 1, IsRead(r[m], s) PROVE RightQuota(r[m], t, s)
    <3>1. m + 1 \in l .. Len(q) /\ r[m] = q[m + 1]
      BY <1>1, <2>2
    <3> QED BY <2>1, <2>2, <3>1
  <2>3. ASSUME NEW n \in 1 .. Len(r), IsRead(r[n], s), l <= n + 1 PROVE QuotaFresh(r, t, s, d, e)
    <3>1. \A m \in n .. Len(r) : m \in 1 .. Len(r) /\ l <= m + 1
      BY <1>1, <2>3
    <3> QED BY <2>2, <2>3, <3>1 DEF QuotaFresh
  <2>4. CASE l = 1
    <3>1. \A n \in 1 .. Len(r) : l <= n + 1
      BY <1>1, <2>4
    <3>2. s.id \in DOMAIN t /\ d = t[s.id].quota
      <4>1. l \in l .. Len(q)
        BY <1>1
      <4> QED BY <1>3, <2>1, <2>4, <4>1 DEF RightQuota
    <3>3. CASE \E n \in 1 .. Len(r) : IsRead(r[n], s)
      BY <2>3, <3>1, <3>3
    <3> QED BY <3>2, <3>3 DEF QuotaFresh
  <2>5. CASE l # 1
    <3>1. l \in 2 .. Len(q) /\ l <= (l - 1) + 1
      BY <1>1, <2>5
    <3>2. l - 1 \in 1 .. Len(r) /\ IsRead(r[l - 1], s)
      BY <1>1, <2>1, <3>1
    <3> QED BY <2>3, <3>1, <3>2
  <2> QED BY <2>4, <2>5
<1>7. CASE /\ typedIn \/ (s.id \in DOMAIN t /\ quota = t[s.id].quota)
           /\ \A l \in 1 .. Len(q) : ~IsRead(q[l], s)
  <2>1. ~IsRead(q[1], s) /\ d = quota /\ e = typedIn
    BY <1>3, <1>7
  <2> QED BY <1>2, <1>7, <2>1 DEF QuotaFresh
<1> QED BY <1>4, <1>5, <1>6, <1>7 DEF QuotaFresh

\* ... and the first call that is not answered yet is.  After a removal what was
\* right is wrong, but the calls behind it have not been answered.
LEMMA ServeFresh ==
  ASSUME Basic, Fresh, NEW k \in 1 .. Len(calls), Serve(k), ~failed, ~overtaken, ~Late(k)
  PROVE  /\ Fifo(calls') /\ Relisted(calls') /\ Reread(calls', selected)
         /\ ListFresh(calls', table', users)
         /\ QuotaFresh(calls', table', selected, form.quota, edited)
<1> DEFINE c == Answered(calls[k])
           r == [calls EXCEPT ![k] = c]
           t == table'
<1>1. /\ calls' = r /\ calls[k] \in CallType /\ WellFormed(calls[k]) /\ TableOK(table)
      /\ Needs(calls[k]) \subseteq DOMAIN table /\ t \in Effect(calls[k])
      /\ Good(calls) /\ Len(calls) \in Nat
  BY ServeBasic, BasicFacts
<1>2. /\ c \in CallType /\ WellFormed(c) /\ c.reply = "ok" /\ c.op = calls[k].op
      /\ c.id = calls[k].id
      /\ c.op = "list" => c.data = Listed(table)
      /\ c.op = "read" => c.id \in DOMAIN table /\ c.data = table[c.id].quota
  BY <1>1, AnswerOK
<1>3. /\ c.op \in {"read", "list"} => t = table
      /\ \A i \in DOMAIN table : /\ (c.op = "remove" /\ i = c.id) \/ i \in DOMAIN t
                                 /\ i \in DOMAIN t /\ c.op # "change" => t[i] = table[i]
  BY <1>1, <1>2, EffectOK
<1>4. /\ Len(r) = Len(calls) /\ r[k] = c
      /\ \A l \in 1 .. Len(calls) : l # k => r[l] = calls[l]
  BY <1>1, <1>2, Replaced
<1>5. /\ Fifo(calls) /\ Relisted(calls) /\ Reread(calls, selected)
      /\ ListFresh(calls, table, users)
      /\ QuotaFresh(calls, table, selected, form.quota, edited)
  <2>1. sent > 0
    <3>1. sent # 0 /\ sent \in Nat
      BY ReplyFacts, BasicFacts
    <3> QED BY <3>1
  <2> QED BY <2>1 DEF Fresh
<1>6. calls[k].reply = "none" /\ \A l \in 1 .. Len(calls) : l < k => calls[l].reply # "none"
  BY <1>1 DEF Serve, Unanswered, Late
<1>7. \A l \in 1 .. Len(calls) : l > k => calls[l].reply = "none"
  BY <1>5, <1>6 DEF Fifo
<1> HIDE DEF c, r, t
<1>8. \A l \in 1 .. Len(calls) : r[l].op = calls[l].op /\ r[l].id = calls[l].id
  BY <1>2, <1>4
<1>9. Fifo(r)
  <2> SUFFICES ASSUME NEW l \in 1 .. Len(r), NEW m \in 1 .. Len(r), l < m, r[l].reply = "none"
               PROVE  r[m].reply = "none"
    BY DEF Fifo
  <2>1. l # k /\ calls[l].reply = "none" /\ l \in 1 .. Len(calls) /\ m \in 1 .. Len(calls)
    BY <1>2, <1>4
  <2>2. l > k
    BY <1>1, <1>6, <2>1
  <2>3. m > k /\ m # k
    BY <1>1, <2>1, <2>2
  <2> QED BY <1>4, <1>7, <2>1, <2>3
<1>10. Relisted(r) /\ Reread(r, selected)
  <2>1. \A j \in 1 .. Len(r) : r[j].reply = "none" => calls[j].reply = "none"
    BY <1>2, <1>4
  <2>2. \A j \in 1 .. Len(r) : \A l \in j + 1 .. Len(r) : l \in 1 .. Len(calls)
    BY <1>1, <1>4
  <2>3. Relisted(r)
    BY <1>4, <1>5, <1>8, <2>1, <2>2 DEF Relisted
  <2>4. Reread(r, selected)
    BY <1>4, <1>5, <1>8, <2>1, <2>2 DEF Reread, IsRead
  <2> QED BY <2>3, <2>4
<1>11. ASSUME NEW l \in 1 .. Len(calls), l > k
       PROVE  \A m \in l .. Len(r) : m \in 1 .. Len(calls) /\ r[m].reply = "none"
  <2> SUFFICES ASSUME NEW m \in l .. Len(r) PROVE m \in 1 .. Len(calls) /\ r[m].reply = "none"
    OBVIOUS
  <2>1. m \in 1 .. Len(calls) /\ m > k /\ m # k
    BY <1>1, <1>4, <1>11
  <2> QED BY <1>4, <1>7, <2>1
<1>12. ListFresh(r, t, users)
  <2>1. CASE \E l \in 1 .. Len(calls) : calls[l].op \in {"add", "change"}
    BY <1>4, <1>8, <2>1 DEF ListFresh
  <2>2. CASE c.op \in {"add", "change"}
    BY <1>2, <1>4, <2>2 DEF ListFresh
  <2>3. CASE c.op = "remove"
    <3>1. PICK l \in k + 1 .. Len(calls) : calls[l].op = "list"
      BY <1>2, <1>5, <1>6, <2>3 DEF Relisted
    <3>2. l \in 1 .. Len(calls) /\ l > k
      BY <1>1
    <3>3. \A m \in l .. Len(r) : Right(r[m], t)
      BY <1>11, <3>2 DEF Right
    <3> QED BY <1>4, <1>8, <3>1, <3>2, <3>3 DEF ListFresh
  <2>4. CASE c.op \in {"read", "list"}
    <3>1. ASSUME NEW m \in 1 .. Len(calls), calls[m].op = "list" => Right(calls[m], table),
                 r[m].op = "list"
          PROVE  Right(r[m], t)
      BY <1>2, <1>3, <1>4, <1>8, <2>4, <3>1 DEF Right
    <3>2. CASE \E l \in 1 .. Len(calls) :
                 /\ calls[l].op = "list"
                 /\ \A m \in l .. Len(calls) : calls[m].op = "list" => Right(calls[m], table)
      <4>1. PICK l \in 1 .. Len(calls) :
                   /\ calls[l].op = "list"
                   /\ \A m \in l .. Len(calls) : calls[m].op = "list" => Right(calls[m], table)
        BY <3>2
      <4>2. \A m \in l .. Len(calls) : m \in 1 .. Len(calls)
        BY <1>1
      <4>3. \A m \in l .. Len(r) : r[m].op = "list" => Right(r[m], t)
        BY <1>4, <3>1, <4>1, <4>2
      <4> QED BY <1>4, <1>8, <4>1, <4>3 DEF ListFresh
    <3>3. CASE users = Listed(table) /\ \A l \in 1 .. Len(calls) : calls[l].op # "list"
      BY <1>3, <1>4, <1>8, <2>4, <3>3 DEF ListFresh
    <3> QED BY <1>5, <2>1, <3>2, <3>3 DEF ListFresh
  <2> QED BY <1>2, <2>2, <2>3, <2>4 DEF CallType
<1>13. QuotaFresh(r, t, selected, form.quota, edited)
  <2>1. CASE selected = Nobody
    BY <2>1 DEF QuotaFresh
  <2>2. CASE \E l \in 1 .. Len(calls) : calls[l].op = "change"
    BY <1>4, <1>8, <2>2 DEF QuotaFresh
  <2>3. CASE c.op = "change"
    BY <1>2, <1>4, <2>3 DEF QuotaFresh
  <2>4. CASE c.op = "remove" /\ c.id = selected.id
    <3>1. PICK l \in k + 1 .. Len(calls) : IsRead(calls[l], selected)
      BY <1>2, <1>5, <1>6, <2>4 DEF Reread
    <3>2. l \in 1 .. Len(calls) /\ l > k
      BY <1>1
    <3>3. \A m \in l .. Len(r) : RightQuota(r[m], t, selected)
      BY <1>11, <3>2 DEF RightQuota
    <3>4. IsRead(r[l], selected)
      BY <1>8, <3>1, <3>2 DEF IsRead
    <3> QED BY <1>4, <3>2, <3>3, <3>4 DEF QuotaFresh
  <2>5. CASE c.op # "change" /\ ~(c.op = "remove" /\ c.id = selected.id)
    <3>1. selected.id \in DOMAIN table =>
            selected.id \in DOMAIN t /\ t[selected.id] = table[selected.id]
      BY <1>3, <2>5
    <3>2. \A m \in 1 .. Len(calls) : IsRead(r[m], selected) <=> IsRead(calls[m], selected)
      BY <1>8 DEF IsRead
    <3>3. ASSUME NEW m \in 1 .. Len(calls),
                 IsRead(calls[m], selected) => RightQuota(calls[m], table, selected),
                 IsRead(r[m], selected)
          PROVE  RightQuota(r[m], t, selected)
      <4>1. CASE m = k
        BY <1>2, <1>4, <3>1, <3>3, <4>1 DEF RightQuota, IsRead
      <4>2. CASE m # k
        BY <1>4, <3>1, <3>2, <3>3, <4>2 DEF RightQuota
      <4> QED BY <4>1, <4>2
    <3>4. CASE \E l \in 1 .. Len(calls) :
                 /\ IsRead(calls[l], selected)
                 /\ \A m \in l .. Len(calls) : IsRead(calls[m], selected)
                                                 => RightQuota(calls[m], table, selected)
      <4>1. PICK l \in 1 .. Len(calls) :
                   /\ IsRead(calls[l], selected)
                   /\ \A m \in l .. Len(calls) : IsRead(calls[m], selected)
                                                   => RightQuota(calls[m], table, selected)
        BY <3>4
      <4>2. \A m \in l .. Len(calls) : m \in 1 .. Len(calls)
        BY <1>1
      <4>3. \A m \in l .. Len(r) : IsRead(r[m], selected) => RightQuota(r[m], t, selected)
        BY <1>4, <3>3, <4>1, <4>2
      <4> QED BY <1>4, <3>2, <4>1, <4>3 DEF QuotaFresh
    <3>5. CASE /\ edited \/ (selected.id \in DOMAIN table
                               /\ form.quota = table[selected.id].quota)
               /\ \A l \in 1 .. Len(calls) : ~IsRead(calls[l], selected)
      BY <1>4, <3>1, <3>2, <3>5 DEF QuotaFresh
    <3> QED BY <1>5, <2>1, <2>2, <3>4, <3>5 DEF QuotaFresh
  <2> QED BY <2>3, <2>4, <2>5
<1> QED BY <1>1, <1>9, <1>10, <1>12, <1>13 DEF t

\* The calls the panel begins.
LEMMA NoRemoval ==
  ASSUME NEW q, ~HasOp(q, {"remove"})
  PROVE  Relisted(q) /\ \A s : Reread(q, s)
BY DEF HasOp, Relisted, Reread

LEMMA OneNew ==
  ASSUME NEW c, New(c)
  PROVE  AllNew(<<c>>) /\ \A ops : HasOp(<<c>>, ops) <=> c.op \in ops
<1>1. \A k \in 1 .. Len(<<c>>) : <<c>>[k] = c
  BY OneCall
<1>2. 1 \in 1 .. Len(<<c>>)
  BY OneCall
<1> QED BY <1>1, <1>2 DEF New, AllNew, HasOp

LEMMA JoinedNew ==
  ASSUME NEW a, Good(a), NEW b, Good(b), AllNew(a), AllNew(b)
  PROVE  AllNew(a \o b) /\ \A ops : HasOp(a \o b, ops) <=> HasOp(a, ops) \/ HasOp(b, ops)
<1> DEFINE r == a \o b
<1>1. /\ Len(a) \in Nat /\ Len(b) \in Nat /\ Len(r) = Len(a) + Len(b)
      /\ \A k \in 1 .. Len(a) : r[k] = a[k]
      /\ \A k \in 1 .. Len(b) : r[Len(a) + k] = b[k]
  BY PushedAt
<1> HIDE DEF r
<1>2. \A k \in 1 .. Len(r) :
        \/ k \in 1 .. Len(a) /\ r[k] = a[k]
        \/ k - Len(a) \in 1 .. Len(b) /\ r[k] = b[k - Len(a)]
  <2> SUFFICES ASSUME NEW k \in 1 .. Len(r), k > Len(a)
               PROVE  k - Len(a) \in 1 .. Len(b) /\ r[k] = b[k - Len(a)]
    BY <1>1
  <2>1. k - Len(a) \in 1 .. Len(b) /\ k = Len(a) + (k - Len(a))
    BY <1>1
  <2> QED BY <1>1, <2>1
<1>3. AllNew(r)
  BY <1>2 DEF AllNew
<1>4. ASSUME NEW ops, HasOp(r, ops) PROVE HasOp(a, ops) \/ HasOp(b, ops)
  BY <1>2, <1>4 DEF HasOp
<1>5. ASSUME NEW ops, HasOp(a, ops) \/ HasOp(b, ops) PROVE HasOp(r, ops)
  <2>1. /\ \A k \in 1 .. Len(a) : k \in 1 .. Len(r)
        /\ \A k \in 1 .. Len(b) : Len(a) + k \in 1 .. Len(r)
    BY <1>1
  <2> QED BY <1>1, <1>5, <2>1 DEF HasOp
<1> QED BY <1>3, <1>4, <1>5 DEF r

LEMMA PanelNew ==
  /\ AllNew(updateList) /\ \A ops : HasOp(updateList, ops) <=> "list" \in ops
  /\ \A s \in Item \cup {Nobody} : AllNew(Reads(s)) /\ ~HasOp(Reads(s), {"remove"})
  /\ \A s \in Item \cup {Nobody} :
       /\ AllNew(updateList \o Reads(s)) /\ ~HasOp(updateList \o Reads(s), {"remove"})
       /\ HasOp(updateList \o Reads(s), {"list", "add", "change"})
<1>1. AllNew(updateList) /\ \A ops : HasOp(updateList, ops) <=> "list" \in ops
  <2>1. New(Call("list", None, Empty)) /\ Call("list", None, Empty).op = "list"
    BY NewCalls DEF Call
  <2> QED BY <2>1, OneNew DEF updateList
<1>2. ASSUME NEW s \in Item \cup {Nobody} PROVE AllNew(Reads(s)) /\ ~HasOp(Reads(s), {"remove"})
  <2>1. CASE s = Nobody
    <3>1. Reads(s) = <<>> /\ Len(Reads(s)) = 0
      BY <2>1, NoCalls DEF Reads
    <3> QED BY <3>1 DEF AllNew, HasOp
  <2>2. CASE s # Nobody
    <3>1. s.id \in Ids /\ Reads(s) = <<Call("read", s.id, Empty)>>
      BY <2>2, Names1 DEF Reads
    <3>2. New(Call("read", s.id, Empty)) /\ Call("read", s.id, Empty).op = "read"
      BY <3>1, NewCalls DEF Call
    <3> QED BY <3>1, <3>2, OneNew
  <2> QED BY <2>1, <2>2
<1>3. ASSUME NEW s \in Item \cup {Nobody}
      PROVE  /\ AllNew(updateList \o Reads(s)) /\ ~HasOp(updateList \o Reads(s), {"remove"})
             /\ HasOp(updateList \o Reads(s), {"list", "add", "change"})
  <2>1. Good(updateList) /\ Good(Reads(s)) /\ AllNew(Reads(s)) /\ ~HasOp(Reads(s), {"remove"})
    BY <1>2, PanelCalls
  <2>2. /\ AllNew(updateList \o Reads(s))
        /\ \A ops : HasOp(updateList \o Reads(s), ops) <=>
                      HasOp(updateList, ops) \/ HasOp(Reads(s), ops)
    BY <1>1, <2>1, JoinedNew
  <2> QED BY <1>1, <2>1, <2>2
<1> QED BY <1>1, <1>2, <1>3

LEMMA DeleteNew ==
  ASSUME NEW i \in Ids
  PROVE  /\ Good(<<Call("remove", i, Empty)>> \o updateList)
         /\ AllNew(<<Call("remove", i, Empty)>> \o updateList)
         /\ HasOp(<<Call("remove", i, Empty)>> \o updateList, {"list", "add", "change"})
         /\ Relisted(<<Call("remove", i, Empty)>> \o updateList)
<1> DEFINE c == <<Call("remove", i, Empty)>>
           r == c \o updateList
<1>1. New(Call("remove", i, Empty))
  BY NewCalls
<1>2. Good(c) /\ Len(c) = 1 /\ AllNew(c) /\ Good(updateList) /\ Len(updateList) = 1
  BY <1>1, OneCall, OneNew, PanelCalls
<1> HIDE DEF c
<1>3. /\ Good(r) /\ AllNew(r) /\ HasOp(r, {"list", "add", "change"})
  BY <1>2, PanelNew, Pushed, JoinedNew
<1>4. Len(r) = 2 /\ r[2] = updateList[1]
  <2>1. /\ Len(r) = Len(c) + Len(updateList)
        /\ \A k \in 1 .. Len(updateList) : r[Len(c) + k] = updateList[k]
    BY <1>2, PushedAt, SMTT(40)
  <2>2. 1 \in 1 .. Len(updateList) /\ Len(c) + 1 = 2
    BY <1>2
  <2>3. r[2] = updateList[1]
    BY <2>1, <2>2
  <2> HIDE DEF r
  <2> QED BY <1>2, <2>1, <2>3
<1>5. updateList[1].op = "list"
  BY DEF updateList, Call
<1> HIDE DEF r
<1>6. Relisted(r)
  <2> SUFFICES ASSUME NEW k \in 1 .. Len(r), r[k].op = "remove"
               PROVE  2 \in k + 1 .. Len(r)
    BY <1>4, <1>5 DEF Relisted
  <2>1. k # 2
    BY <1>4, <1>5
  <2> QED BY <1>4, <2>1
<1> QED BY <1>3, <1>6 DEF r, c

-----------------------------------------------------------------------------
\* The parts of Fresh, and that each step keeps them.
Page(q, t, s, list, quota, typedIn) ==
  /\ Fifo(q) /\ Relisted(q) /\ Reread(q, s)
  /\ ListFresh(q, t, list) /\ QuotaFresh(q, t, s, quota, typedIn)

LEMMA PageFresh == Page(calls, table, selected, users, form.quota, edited)' => Fresh'
BY DEF Page, Fresh

LEMMA FreshPage ==
  ASSUME Basic, Fresh, ~failed, ~overtaken
  PROVE  /\ Fifo(calls) /\ Relisted(calls) /\ Reread(calls, selected)
         /\ QuotaFresh(calls, table, selected, form.quota, edited)
         /\ sent # 0 => Page(calls, table, selected, users, form.quota, edited)
<1>1. sent \in Nat
  BY BasicFacts
<1>2. sent # 0 => sent > 0
  BY <1>1
<1> QED BY <1>2 DEF Fresh, Page

LEMMA PagePushed ==
  ASSUME NEW q, Good(q), NEW cs, Good(cs), AllNew(cs), Relisted(cs),
         NEW t, NEW s, Reread(cs, s), NEW list, NEW quota, NEW typedIn,
         Fifo(q), Relisted(q), Reread(q, s),
         ListFresh(q, t, list) \/ HasOp(cs, {"list", "add", "change"}),
         \/ QuotaFresh(q, t, s, quota, typedIn)
         \/ HasOp(cs, {"change"}) \/ HasRead(cs, s.id)
  PROVE  Page(q \o cs, t, s, list, quota, typedIn)
<1>1. Fifo(q \o cs) /\ Relisted(q \o cs) /\ Reread(q \o cs, s)
  BY PushOrder
<1>2. ListFresh(q \o cs, t, list)
  BY PushList
<1>3. QuotaFresh(q \o cs, t, s, quota, typedIn)
  BY PushQuota
<1> QED BY <1>1, <1>2, <1>3 DEF Page

LEMMA NobodyReread ==
  ASSUME NEW q, Good(q)
  PROVE  Reread(q, Nobody)
BY Names1, PanelAssumption DEF Good, WellFormed, Reread

\* The administrator's clicks.
LEMMA ClickFresh ==
  ASSUME Basic, Fresh, ~failed, ~overtaken,
         showUsers \/ addNewUser \/ saveSelectedUser
  PROVE  Fresh'
<1>1. UNCHANGED <<table, selected, form, users, edited>>
  BY DEF showUsers, addNewUser, saveSelectedUser, history
<1>2. /\ Good(calls) /\ Fifo(calls) /\ Relisted(calls) /\ Reread(calls, selected)
      /\ QuotaFresh(calls, table, selected, form.quota, edited)
  BY BasicFacts, FreshPage
<1>3. ASSUME NEW cs, Good(cs), AllNew(cs), ~HasOp(cs, {"remove"}),
             HasOp(cs, {"list", "add", "change"}), calls' = calls \o cs
      PROVE  Fresh'
  <2>1. Relisted(cs) /\ Reread(cs, selected)
    BY <1>3, NoRemoval
  <2>2. Page(calls \o cs, table, selected, users, form.quota, edited)
    BY <1>2, <1>3, <2>1, PagePushed
  <2>3. Page(calls', table', selected', users', form'.quota, edited')
    BY <1>1, <1>3, <2>2
  <2> QED BY <2>3, PageFresh
<1>4. CASE showUsers
  BY <1>3, <1>4, ShowBasic, PanelCalls, PanelNew
<1>5. CASE addNewUser
  <2> DEFINE c == Call("add", None, [name |-> NewUser, quota |-> Zero])
  <2>1. New(c) /\ c.op = "add"
    BY NewCalls DEF Call
  <2>2. calls' = calls \o <<c>>
    BY <1>5, AddBasic
  <2> HIDE DEF c
  <2>3. /\ Good(<<c>>) /\ AllNew(<<c>>) /\ ~HasOp(<<c>>, {"remove"})
        /\ HasOp(<<c>>, {"list", "add", "change"})
    BY <2>1, OneCall, OneNew
  <2> QED BY <1>3, <2>2, <2>3
<1>6. CASE saveSelectedUser
  <2> DEFINE c == Call("change", selected.id, form)
  <2>1. New(c) /\ c.op = "change"
    BY <1>6, BasicFacts, FormRow, NewCalls DEF Call, saveSelectedUser
  <2>2. calls' = calls \o <<c>>
    BY <1>6, SaveBasic
  <2> HIDE DEF c
  <2>3. /\ Good(<<c>>) /\ AllNew(<<c>>) /\ ~HasOp(<<c>>, {"remove"})
        /\ HasOp(<<c>>, {"list", "add", "change"})
    BY <2>1, OneCall, OneNew
  <2> QED BY <1>3, <2>2, <2>3
<1> QED BY <1>4, <1>5, <1>6

LEMMA DeleteFresh ==
  ASSUME Basic, Fresh, ~failed, ~overtaken, deleteSelectedUser
  PROVE  Fresh'
<1>1. selected' = Nobody /\ UNCHANGED <<table, users>> /\ selected # Nobody
  BY DEF deleteSelectedUser
<1>2. selected.id \in Ids
  BY <1>1, BasicFacts, FormRow
<1> DEFINE cs == <<Call("remove", selected.id, Empty)>> \o updateList
<1>3. /\ Good(cs) /\ AllNew(cs) /\ HasOp(cs, {"list", "add", "change"}) /\ Relisted(cs)
  BY <1>2, DeleteNew
<1>4. calls' = calls \o cs
  BY DeleteBasic
<1> HIDE DEF cs
<1>5. Good(calls) /\ Fifo(calls) /\ Relisted(calls) /\ Reread(calls, Nobody) /\ Reread(cs, Nobody)
  BY <1>3, BasicFacts, FreshPage, NobodyReread
<1>6. QuotaFresh(calls, table, Nobody, form'.quota, edited')
  BY DEF QuotaFresh
<1>7. Page(calls \o cs, table, Nobody, users, form'.quota, edited')
  BY <1>3, <1>5, <1>6, PagePushed
<1>8. Page(calls', table', selected', users', form'.quota, edited')
  BY <1>1, <1>4, <1>7
<1> QED BY <1>8, PageFresh

LEMMA SelectFresh ==
  ASSUME Basic, Fresh, ~failed, ~overtaken, NEW s \in users, selectUser(s)
  PROVE  Fresh'
<1>1. selected' = s /\ UNCHANGED <<table, users>>
  BY DEF selectUser
<1>2. calls' = calls \o Reads(s) /\ s \in Item /\ s # Nobody
  BY SelectBasic
<1>3. /\ Good(Reads(s)) /\ HasRead(Reads(s), s.id) /\ AllNew(Reads(s))
      /\ ~HasOp(Reads(s), {"remove"}) /\ Relisted(Reads(s))
  BY <1>2, PanelCalls, PanelNew, NoRemoval
<1>4. sent # 0 /\ Good(calls)
  BY BasicFacts
<1>5. Fifo(calls) /\ Relisted(calls) /\ ListFresh(calls, table, users)
  BY <1>4, FreshPage DEF Page
<1>6. Fifo(calls') /\ Relisted(calls') /\ Reread(calls', s)
  BY <1>2, <1>3, <1>4, <1>5, PushOrder
<1>7. ListFresh(calls', table, users)
  BY <1>2, <1>3, <1>4, <1>5, PushList
<1>8. QuotaFresh(calls', table, s, form'.quota, edited')
  BY <1>2, <1>3, <1>4, PushQuota
<1>9. Page(calls', table', selected', users', form'.quota, edited')
  BY <1>1, <1>6, <1>7, <1>8 DEF Page
<1> QED BY <1>9, PageFresh

LEMMA TypeFresh ==
  ASSUME Basic, Fresh, ~failed, ~overtaken,
         \/ \E n \in Numbers : TypeQuota(n)
         \/ \E n \in Names : TypeName(n)
  PROVE  Fresh'
<1>1. /\ UNCHANGED <<table, selected, users, calls, sent>>
      /\ edited' \/ (edited' = edited /\ form'.quota = form.quota)
  BY TypeBasic
<1>2. QuotaFresh(calls, table, selected, form'.quota, edited')
  <2>1. QuotaFresh(calls, table, selected, form.quota, edited)
    BY FreshPage
  <2>2. CASE edited'
    BY <2>1, <2>2 DEF QuotaFresh
  <2>3. CASE edited' = edited /\ form'.quota = form.quota
    BY <2>1, <2>3
  <2> QED BY <1>1, <2>2, <2>3
<1>3. QuotaFresh(calls', table', selected', form'.quota, edited')
  BY <1>1, <1>2
<1>4. Fifo(calls') /\ Relisted(calls') /\ Reread(calls', selected')
  BY <1>1, FreshPage
<1>5. sent' > 0 => ListFresh(calls', table', users')
  BY <1>1 DEF Fresh
<1> QED BY <1>3, <1>4, <1>5 DEF Fresh

\* The callbacks: in order, only the first call is answered.
LEMMA ReplyFresh ==
  ASSUME Basic, Fresh, NEW k \in 1 .. Len(calls), Reply(k, calls[k].op), ~failed, ~overtaken'
  PROVE  /\ Good(RemoveAt(calls, k)) /\ Fifo(RemoveAt(calls, k)) /\ Relisted(RemoveAt(calls, k))
         /\ Reread(RemoveAt(calls, k), selected)
         /\ calls[k].reply = "ok"
         /\ calls[k].op \notin {"list", "add", "change"} => ListFresh(RemoveAt(calls, k), table, users)
         /\ calls[k].op = "list" => ListFresh(RemoveAt(calls, k), table, calls[k].data)
         /\ calls[k].op # "change" =>
              /\ ~IsRead(calls[k], selected) =>
                   QuotaFresh(RemoveAt(calls, k), table, selected, form.quota, edited)
              /\ IsRead(calls[k], selected) =>
                   QuotaFresh(RemoveAt(calls, k), table, selected, calls[k].data, FALSE)
<1>1. /\ calls[k].reply # "none" /\ ~overtaken /\ ~(k > 1)
  BY DEF Reply, Unanswered
<1>2. k = 1 /\ 1 \in 1 .. Len(calls) /\ Good(calls)
  BY <1>1, BasicFacts
<1>3. RemoveAt(calls, k) = Tail(calls) /\ Good(RemoveAt(calls, k))
  BY <1>2, Dropped
<1>4. calls[k].reply = "ok"
  BY <1>1, ReplyFacts DEF CallType
<1>5. /\ Fifo(calls) /\ Relisted(calls) /\ Reread(calls, selected)
      /\ ListFresh(calls, table, users)
      /\ QuotaFresh(calls, table, selected, form.quota, edited)
  BY <1>1, FreshPage, ReplyFacts DEF Page
<1>6. Fifo(Tail(calls)) /\ Relisted(Tail(calls)) /\ Reread(Tail(calls), selected)
  BY <1>2, <1>5, PopOrder
<1>7. calls[1].reply # "none"
  BY <1>1, <1>2
<1>8. /\ calls[1].op \notin {"list", "add", "change"} => ListFresh(Tail(calls), table, users)
      /\ calls[1].op = "list" => ListFresh(Tail(calls), table, calls[1].data)
  BY <1>2, <1>5, <1>7, PopList
<1>9. calls[1].op # "change" =>
        /\ ~IsRead(calls[1], selected) =>
             QuotaFresh(Tail(calls), table, selected, form.quota, edited)
        /\ IsRead(calls[1], selected) =>
             QuotaFresh(Tail(calls), table, selected, calls[1].data, FALSE)
  BY <1>2, <1>5, <1>7, PopQuota
<1> QED BY <1>1, <1>2, <1>3, <1>4, <1>6, <1>8, <1>9

LEMMA CallbackFresh ==
  ASSUME Basic, Fresh, NEW k \in 1 .. Len(calls), ~failed, ~overtaken',
         cb1(k) \/ cb4(k) \/ cb5(k) \/ cb6(k) \/ Ignored(k)
  PROVE  Fresh'
<1> DEFINE q == RemoveAt(calls, k)
<1> HIDE DEF q
<1>1. CASE cb1(k)
  <2>1. Reply(k, calls[k].op) /\ calls[k].op = "list" /\ UNCHANGED <<table, selected, form, edited>>
    BY <1>1 DEF cb1, Reply, history
  <2>2. /\ Fifo(q) /\ Relisted(q) /\ Reread(q, selected) /\ calls[k].reply = "ok"
        /\ ListFresh(q, table, calls[k].data) /\ ~IsRead(calls[k], selected)
        /\ ~IsRead(calls[k], selected) => QuotaFresh(q, table, selected, form.quota, edited)
    BY <2>1, ReplyFresh DEF q, IsRead
  <2>3. users' = calls[k].data /\ calls' = q
    BY <1>1, <2>2, ListReplyBasic DEF cb1, q
  <2>4. Page(calls', table', selected', users', form'.quota, edited')
    BY <2>1, <2>2, <2>3 DEF Page
  <2> QED BY <2>4, PageFresh
<1>2. CASE cb4(k)
  <2>1. Reply(k, calls[k].op) /\ calls[k].op = "add" /\ UNCHANGED <<table, selected, form, users, edited>>
    BY <1>2 DEF cb4, Reply, history
  <2>2. /\ Good(q) /\ Fifo(q) /\ Relisted(q) /\ Reread(q, selected) /\ ~IsRead(calls[k], selected)
        /\ ~IsRead(calls[k], selected) => QuotaFresh(q, table, selected, form.quota, edited)
    BY <2>1, ReplyFresh DEF q, IsRead
  <2>3. calls' = q \o updateList
    BY <1>2, AddReplyBasic DEF q
  <2>4. /\ Good(updateList) /\ AllNew(updateList) /\ HasOp(updateList, {"list", "add", "change"})
        /\ Relisted(updateList) /\ Reread(updateList, selected)
    BY PanelCalls, PanelNew, NoRemoval
  <2>5. Page(q \o updateList, table, selected, users, form.quota, edited)
    BY <2>2, <2>4, PagePushed
  <2>6. Page(calls', table', selected', users', form'.quota, edited')
    BY <2>1, <2>3, <2>5
  <2> QED BY <2>6, PageFresh
<1>3. CASE cb5(k)
  <2>1. Reply(k, calls[k].op) /\ calls[k].op = "read" /\ UNCHANGED <<table, selected, users>>
    BY <1>3 DEF cb5, Reply
  <2>2. /\ Fifo(q) /\ Relisted(q) /\ Reread(q, selected) /\ ListFresh(q, table, users)
        /\ calls[k].reply = "ok"
        /\ ~IsRead(calls[k], selected) => QuotaFresh(q, table, selected, form.quota, edited)
        /\ IsRead(calls[k], selected) => QuotaFresh(q, table, selected, calls[k].data, FALSE)
    BY <2>1, ReplyFresh DEF q
  <2>3. calls' = q
    BY <1>3, ReadReplyBasic DEF q
  <2>4. QuotaFresh(q, table, selected, form'.quota, edited')
    <3>1. CASE SettingsOf(calls[k])
      <4>1. form' = [form EXCEPT !.quota = calls[k].data] /\ (edited' <=> FALSE)
        BY <1>3, <3>1 DEF cb5
      <4>2. form \in Form
        BY BasicFacts DEF PageOK
      <4>3. form'.quota = calls[k].data
        BY <4>1, <4>2 DEF Form
      <4>4. IsRead(calls[k], selected)
        BY <2>1, <3>1 DEF IsRead, SettingsOf
      <4>5. QuotaFresh(q, table, selected, form'.quota, FALSE)
        BY <2>2, <4>3, <4>4
      <4> QED BY <4>1, <4>5 DEF QuotaFresh
    <3>2. CASE ~SettingsOf(calls[k])
      <4>1. UNCHANGED <<form, edited>>
        BY <1>3, <3>2 DEF cb5
      <4>2. ~IsRead(calls[k], selected)
        BY <2>1, <2>2, <3>2 DEF IsRead, SettingsOf
      <4> QED BY <2>2, <4>1, <4>2
    <3> QED BY <3>1, <3>2
  <2>5. Page(calls', table', selected', users', form'.quota, edited')
    BY <2>1, <2>2, <2>3, <2>4 DEF Page
  <2> QED BY <2>5, PageFresh
<1>4. CASE cb6(k)
  <2>1. Reply(k, calls[k].op) /\ calls[k].op = "change" /\ UNCHANGED <<table, selected, users>>
    BY <1>4 DEF cb6, Reply
  <2>2. Good(q) /\ Fifo(q) /\ Relisted(q) /\ Reread(q, selected)
    BY <2>1, ReplyFresh DEF q
  <2> DEFINE cs == updateList \o Reads(selected)
  <2>3. calls' = q \o cs
    BY <1>4, SaveReplyBasic DEF q
  <2>4. selected \in Item \cup {Nobody}
    BY BasicFacts DEF PageOK
  <2>5. /\ Good(cs) /\ AllNew(cs) /\ HasOp(cs, {"list", "add", "change"}) /\ ~HasOp(cs, {"remove"})
        /\ selected # Nobody => HasRead(cs, selected.id)
    BY <2>4, PanelCalls, PanelNew
  <2> HIDE DEF cs
  <2>6. Relisted(cs) /\ Reread(cs, selected)
    BY <2>5, NoRemoval
  <2>7. \/ QuotaFresh(q, table, selected, form'.quota, edited')
        \/ HasRead(cs, selected.id)
    BY <2>5 DEF QuotaFresh
  <2>8. Page(q \o cs, table, selected, users, form'.quota, edited')
    BY <2>2, <2>5, <2>6, <2>7, PagePushed
  <2>9. Page(calls', table', selected', users', form'.quota, edited')
    BY <2>1, <2>3, <2>8
  <2> QED BY <2>9, PageFresh
<1>5. CASE Ignored(k)
  <2>1. Reply(k, calls[k].op) /\ calls[k].op = "remove" /\ UNCHANGED <<table, selected, form, users, edited>>
    BY <1>5 DEF Ignored, Reply, history
  <2>2. /\ Fifo(q) /\ Relisted(q) /\ Reread(q, selected) /\ ListFresh(q, table, users)
        /\ ~IsRead(calls[k], selected)
        /\ ~IsRead(calls[k], selected) => QuotaFresh(q, table, selected, form.quota, edited)
    BY <2>1, ReplyFresh DEF q, IsRead
  <2>3. calls' = q
    BY <1>5, IgnoredBasic DEF q
  <2>4. Page(calls', table', selected', users', form'.quota, edited')
    BY <2>1, <2>2, <2>3 DEF Page
  <2> QED BY <2>4, PageFresh
<1> QED BY <1>1, <1>2, <1>3, <1>4, <1>5

-----------------------------------------------------------------------------
LEMMA InitInv == Init => IInv
<1> SUFFICES ASSUME Init PROVE IInv
  OBVIOUS
<1>1. /\ selected = Nobody /\ form = Empty /\ users = {} /\ calls = <<>> /\ sent = 0 /\ typed = 0
      /\ owner = None
  BY DEF Init
<1>2. FlagsOK
  BY DEF Init, FlagsOK
<1>3. TableOK(table)
  <2>1. PICK S \in SUBSET Ids :
          table \in [S -> [name : Names, quota : Quota \ {[Zero EXCEPT !.large = TRUE]}]]
    BY DEF Init
  <2>2. \A r \in [name : Names, quota : Quota \ {[Zero EXCEPT !.large = TRUE]}] : r \in Row
    BY DEF Row
  <2> QED BY <2>1, <2>2 DEF TableOK
<1>4. PageOK(selected, form)
  BY <1>1, PanelAssumption DEF PageOK, Empty, Form, Zero, Quota
<1>5. /\ Good(calls) /\ NoErr(calls) /\ Len(calls) = 0
  BY <1>1, NoCalls
<1>6. TypeOK
  BY <1>1, <1>2, <1>3, <1>4, <1>5, TypeParts, PanelAssumption
<1>7. Basic
  BY <1>1, <1>5, <1>6 DEF Basic, Types, Errors, Untouched, ForeignOnlyMeanwhile
<1>8. Fresh
  <2>1. Fifo(calls) /\ Relisted(calls) /\ Reread(calls, selected)
    BY <1>5 DEF Fifo, Relisted, Reread
  <2>2. QuotaFresh(calls, table, selected, form.quota, edited) /\ ~(sent > 0)
    BY <1>1 DEF QuotaFresh
  <2> QED BY <2>1, <2>2 DEF Fresh
<1> QED BY <1>7, <1>8 DEF IInv

LEMMA StepInv == IInv /\ [Next]_vars => IInv'
<1> SUFFICES ASSUME Basic, Fresh, [Next]_vars PROVE Basic' /\ Fresh'
  BY DEF IInv
<1>1. CASE UNCHANGED vars
  <2>1. Basic'
    BY <1>1 DEF vars, history, Basic, Types, TypeOK, Errors, Untouched, ForeignOnlyMeanwhile, Good,
                NoErr
  <2>2. Fresh'
    BY <1>1 DEF vars, Fresh
  <2> QED BY <2>1, <2>2
<1>2. CASE showUsers \/ addNewUser \/ saveSelectedUser
  <2>1. UNCHANGED <<failed, overtaken>>
    BY <1>2 DEF showUsers, addNewUser, saveSelectedUser
  <2>2. ASSUME failed \/ overtaken PROVE Fresh'
    BY <2>1, <2>2 DEF Fresh
  <2>3. Basic'
    BY <1>2, ShowBasic, AddBasic, SaveBasic
  <2> QED BY <1>2, <2>2, <2>3, ClickFresh
<1>3. CASE deleteSelectedUser
  <2>1. UNCHANGED <<failed, overtaken>>
    BY <1>3 DEF deleteSelectedUser
  <2>2. ASSUME failed \/ overtaken PROVE Fresh'
    BY <2>1, <2>2 DEF Fresh
  <2> QED BY <1>3, <2>2, DeleteBasic, DeleteFresh
<1>4. ASSUME NEW s \in users, selectUser(s) PROVE Basic' /\ Fresh'
  <2>1. UNCHANGED <<failed, overtaken>>
    BY <1>4 DEF selectUser
  <2>2. ASSUME failed \/ overtaken PROVE Fresh'
    BY <2>1, <2>2 DEF Fresh
  <2> QED BY <1>4, <2>2, SelectBasic, SelectFresh
<1>5. CASE (\E n \in Numbers : TypeQuota(n)) \/ (\E n \in Names : TypeName(n))
  <2>1. UNCHANGED <<failed, overtaken>>
    BY <1>5, TypeBasic
  <2>2. ASSUME failed \/ overtaken PROVE Fresh'
    BY <2>1, <2>2 DEF Fresh
  <2> QED BY <1>5, <2>2, TypeBasic, TypeFresh
<1>6. ASSUME NEW k \in 1 .. Len(calls), Serve(k) PROVE Basic' /\ Fresh'
  <2>1. UNCHANGED <<selected, form, users, edited, failed>> /\ (overtaken' <=> overtaken \/ Late(k))
    BY <1>6 DEF Serve, history
  <2>2. ASSUME failed \/ overtaken \/ Late(k) PROVE Fresh'
    BY <2>1, <2>2 DEF Fresh
  <2>3. ASSUME ~failed, ~overtaken, ~Late(k) PROVE Fresh'
    <3>1. /\ Fifo(calls') /\ Relisted(calls') /\ Reread(calls', selected)
          /\ ListFresh(calls', table', users)
          /\ QuotaFresh(calls', table', selected, form.quota, edited)
      BY <1>6, <2>3, ServeFresh
    <3>2. Page(calls', table', selected', users', form'.quota, edited')
      BY <2>1, <3>1 DEF Page
    <3> QED BY <3>2, PageFresh
  <2>4. Basic'
    BY <1>6, ServeBasic
  <2> QED BY <2>2, <2>3, <2>4
<1>7. ASSUME NEW k \in 1 .. Len(calls), Break(k) PROVE Basic' /\ Fresh'
  BY <1>7, BreakBasic DEF Fresh
<1>8. ASSUME NEW k \in 1 .. Len(calls),
             cb1(k) \/ cb4(k) \/ cb5(k) \/ cb6(k) \/ Ignored(k)
      PROVE  Basic' /\ Fresh'
  <2>1. failed' = failed
    BY <1>8 DEF cb1, cb4, cb5, cb6, Ignored, Reply
  <2>2. Basic'
    BY <1>8, ListReplyBasic, AddReplyBasic, ReadReplyBasic, SaveReplyBasic, IgnoredBasic
  <2>3. ASSUME failed \/ overtaken' PROVE Fresh'
    BY <2>1, <2>3 DEF Fresh
  <2>4. ASSUME ~failed, ~overtaken' PROVE Fresh'
    BY <1>8, <2>4, CallbackFresh
  <2> QED BY <2>2, <2>3, <2>4
<1> QED BY <1>1, <1>2, <1>3, <1>4, <1>5, <1>6, <1>7, <1>8 DEF Next

\* IInv is inductive.
LEMMA Invariant == Spec => []IInv
BY InitInv, StepInv, PTL DEF Spec

\* The page, the calls under way and the table keep their types; in particular
\* a call for a user always carries a user's id, and a list that is shown
\* always lists users (UserSettings_Privs.hx, cb1 and updateSettings).
THEOREM TypeCorrect == Spec => [](TypeOK /\ Good(calls))
<1>1. IInv => TypeOK /\ Good(calls)
  BY DEF IInv, Basic, Types
<1> QED BY <1>1, Invariant, PTL

\* For any number of users and requests, carried out and answered in any order,
\* the quota field holds another user's quota only while the answer for the
\* selected user is to come, or after a failure (selectUser and cb5).
THEOREM ForeignOnlyUntilRead == Spec => []ForeignOnlyMeanwhile
<1>1. IInv => ForeignOnlyMeanwhile
  BY DEF IInv, Basic
<1> QED BY <1>1, Invariant, PTL

\* However many clicks an administrator makes before the first is answered: if
\* the exchanges end in order and none fails, the page ends up showing what the
\* backend stores (cb1, cb4, cb5, cb6 and deleteSelectedUser between them ask
\* again for all that a request may have changed).
THEOREM EndsUpAsStored == Spec => []ShowsStored
<1>1. ASSUME IInv PROVE ShowsStored
  <2> SUFFICES ASSUME Idle, sent > 0
               PROVE  /\ users = Listed(table)
                      /\ selected # Nobody /\ ~edited =>
                           selected.id \in DOMAIN table
                             /\ form.quota = table[selected.id].quota
    BY DEF ShowsStored
  <2>1. calls = <<>> /\ Len(calls) = 0 /\ ~failed /\ ~overtaken
    BY NoCalls DEF Idle
  <2>2. /\ ListFresh(calls, table, users)
        /\ QuotaFresh(calls, table, selected, form.quota, edited)
    BY <1>1, <2>1 DEF IInv, Fresh
  <2>3. \A l \in 1 .. Len(calls) : FALSE
    BY <2>1
  <2>4. users = Listed(table)
    BY <2>2, <2>3 DEF ListFresh
  <2>5. \/ selected = Nobody \/ edited
        \/ selected.id \in DOMAIN table /\ form.quota = table[selected.id].quota
    BY <2>2, <2>3 DEF QuotaFresh
  <2> QED BY <2>4, <2>5
<1> QED BY <1>1, Invariant, PTL
=============================================================================
