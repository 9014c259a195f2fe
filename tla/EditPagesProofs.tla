-------------------------- MODULE EditPagesProofs --------------------------
(***************************************************************************)
(* Proofs about EditPages, for any number of pages and editions.           *)
(***************************************************************************)
EXTENDS EditPages, TLAPS

Rows == [version : Nat, edition : Nat]

\* A row that has been read of record r: if r changes with its version only, an old one has
\* an old version.
Known(r, row) ==
  /\ row \in Rows
  /\ row.version <= version[r]
  /\ row.version = version[r] /\ r \notin Unversioned => row.edition = content[r].row

Following(b) == design[b].token /\ design[b].follows

DataTypeOK ==
  /\ content \in [Resources -> [Parts -> Nat]]
  /\ version \in [Resources -> Nat]
  /\ design \in [Browsers -> Designs]
  /\ cache \in [Browsers -> [row : Rows \cup {NoData}, item : Nat \cup {NoData}]]
  /\ reply \in [Browsers -> [row : Rows \cup {NoData}, item : Nat \cup {NoData}]]
  /\ form \in [Browsers -> Nat \cup {NoData}]
  /\ request \in [Browsers ->
       {NoData} \cup [state : {"sent", "saved", "refused"}, token : Nat, base : Nat]]

\* What page b has read, shows and has sent.
Page(b) ==
  /\ cache[b].row # NoData => Known(design[b].record, cache[b].row)
  /\ reply[b].row # NoData => Known(design[b].record, reply[b].row)
  /\ form[b] # NoData \/ request[b] # NoData => cache[b].row # NoData
  /\ form[b] # NoData /\ Following(b) => form[b] = cache[b].row.edition
  /\ request[b] # NoData /\ request[b].state = "sent" /\ Following(b) =>
       Known(design[b].record, [version |-> request[b].token, edition |-> request[b].base])

IInv == DataTypeOK /\ \A b \in Browsers : Page(b)

-----------------------------------------------------------------------------
\* Pages that send a version and follow the row edit the row, and close when it is saved.
LEMMA DesignFields ==
  ASSUME NEW b \in Browsers, design \in [Browsers -> Designs]
  PROVE  /\ design[b].record \in Resources
         /\ design[b].part \in Parts
         /\ Following(b) => design[b].part = "row" /\ design[b].saved # "keep"
         /\ Queries(b) \subseteq {"row", "item"} /\ "row" \in Queries(b)
<1>1. design[b] \in Designs
  OBVIOUS
<1>2. design[b].record \in Resources
  BY <1>1, EditPagesAssumption
<1> QED
  BY <1>1, <1>2
  DEF Designs, CustomerForm, ContactForm, OrderForm, ItemForm, ProjectForm, DraftForm,
      SubmitButton, PortfolioForm, Parts, Following, Queries

\* What the API answers is known.
LEMMA CurrentIsKnown ==
  ASSUME DataTypeOK, NEW b \in Browsers
  PROVE  /\ Known(design[b].record, Current(b).row)
         /\ Current(b) \in [row : Rows, item : Nat]
BY DesignFields DEF DataTypeOK, Current, Known, Rows, Parts

\* A step of page b on its own part leaves the other pages what they are.
LEMMA OtherPages ==
  ASSUME IInv, NEW b \in Browsers, DataTypeOK', Page(b)',
         UNCHANGED <<content, version, design>>,
         \A c \in Browsers \ {b} :
           /\ cache'[c] = cache[c] /\ reply'[c] = reply[c]
           /\ form'[c] = form[c] /\ request'[c] = request[c]
  PROVE  IInv'
BY DEF IInv, Page, Known, Following

LEMMA FetchKeepsIInv ==
  ASSUME IInv, NEW b \in Browsers, NEW q \in Queries(b), Fetch(b, q)
  PROVE  IInv'
<1>1. q \in {"row", "item"} /\ Current(b) \in [row : Rows, item : Nat]
      /\ Known(design[b].record, Current(b).row)
  BY DesignFields, CurrentIsKnown DEF IInv, DataTypeOK
<1> DEFINE new == [reply[b] EXCEPT ![q] = Current(b)[q]]
<1>2. reply' = [reply EXCEPT ![b] = new]
  BY DEF Fetch
<1>3. reply[b] \in [row : Rows \cup {NoData}, item : Nat \cup {NoData}]
  BY DEF IInv, DataTypeOK
<1>4. new \in [row : Rows \cup {NoData}, item : Nat \cup {NoData}]
      /\ new.row \in {reply[b].row, Current(b).row}
  <2>1. CASE q = "row"
    BY <1>1, <1>3, <2>1
  <2>2. CASE q = "item"
    BY <1>1, <1>3, <2>2
  <2> QED
    BY <1>1, <2>1, <2>2
<1> HIDE DEF new
<1>5. DataTypeOK'
  BY <1>2, <1>4 DEF Fetch, IInv, DataTypeOK
<1>6. Page(b)'
  BY <1>1, <1>2, <1>4 DEF Fetch, IInv, DataTypeOK, Page, Known, Following
<1> QED
  BY <1>2, <1>5, <1>6, OtherPages DEF Fetch, IInv, DataTypeOK

LEMMA ArriveKeepsIInv ==
  ASSUME IInv, NEW b \in Browsers, NEW q \in Queries(b), Arrive(b, q) \/ FetchFails(b, q)
  PROVE  IInv'
<1>1. q \in {"row", "item"}
  BY DesignFields DEF IInv, DataTypeOK
<1> DEFINE left == [reply[b] EXCEPT ![q] = NoData]
           got == IF Arrive(b, q) THEN [cache[b] EXCEPT ![q] = reply[b][q]] ELSE cache[b]
           shown == IF Arrive(b, q) THEN Follow(b, q, reply[b][q]) ELSE form[b]
<1>2. /\ reply' = [reply EXCEPT ![b] = left]
      /\ cache' = [cache EXCEPT ![b] = got]
      /\ form' = [form EXCEPT ![b] = shown]
      /\ reply[b][q] # NoData
      /\ UNCHANGED <<content, version, design, request>>
  BY DEF Arrive, FetchFails, IInv, DataTypeOK
<1>3. /\ reply[b] \in [row : Rows \cup {NoData}, item : Nat \cup {NoData}]
      /\ cache[b] \in [row : Rows \cup {NoData}, item : Nat \cup {NoData}]
      /\ form[b] \in Nat \cup {NoData}
  BY DEF IInv, DataTypeOK
<1>4. /\ left \in [row : Rows \cup {NoData}, item : Nat \cup {NoData}]
      /\ left.row \in {reply[b].row, NoData}
      /\ got \in [row : Rows \cup {NoData}, item : Nat \cup {NoData}]
      /\ got.row = IF Arrive(b, q) /\ q = "row" THEN reply[b].row ELSE cache[b].row
  <2>1. CASE q = "row"
    BY <1>1, <1>3, <2>1
  <2>2. CASE q = "item"
    BY <1>1, <1>3, <2>2
  <2> QED
    BY <1>1, <2>1, <2>2
<1>5. /\ shown \in Nat \cup {NoData}
      /\ shown = NoData <=> form[b] = NoData
      /\ shown = IF form[b] # NoData /\ Arrive(b, q) /\ q = "row" /\ design[b].follows
                 THEN reply[b].row.edition ELSE form[b]
  BY <1>1, <1>2, <1>3, EditPagesAssumption DEF Follow, Rows
<1> HIDE DEF left, got, shown
<1>6. DataTypeOK'
  BY <1>2, <1>4, <1>5 DEF IInv, DataTypeOK
<1>7. Page(b)'
  BY <1>2, <1>4, <1>5 DEF IInv, DataTypeOK, Page, Known, Following
<1> QED
  BY <1>2, <1>6, <1>7, OtherPages DEF IInv, DataTypeOK

LEMMA FormKeepsIInv ==
  ASSUME IInv, NEW b \in Browsers, OpenForm(b) \/ CancelForm(b) \/ Save(b)
  PROVE  IInv'
<1>0. cache[b] \in [row : Rows \cup {NoData}, item : Nat \cup {NoData}]
  BY DEF IInv, DataTypeOK
<1>1. CASE OpenForm(b)
  <2>1. ShownEdition(b) \in Nat /\ (Following(b) => ShownEdition(b) = cache[b].row.edition)
    BY <1>0, <1>1, DesignFields DEF OpenForm, ShownEdition, IInv, DataTypeOK, Rows, Parts
  <2>2. DataTypeOK' /\ Page(b)'
    BY <1>1, <2>1 DEF OpenForm, IInv, DataTypeOK, Page, Known, Following
  <2> QED
    BY <1>1, <2>2, OtherPages DEF OpenForm, IInv, DataTypeOK
<1>2. CASE CancelForm(b)
  <2>1. DataTypeOK' /\ Page(b)'
    BY <1>2 DEF CancelForm, IInv, DataTypeOK, Page, Known, Following
  <2> QED
    BY <1>2, <2>1, OtherPages DEF CancelForm, IInv, DataTypeOK
<1>3. CASE Save(b)
  <2> DEFINE new == [state |-> "sent", token |-> cache[b].row.version, base |-> form[b]]
  <2>1. cache[b].row \in Rows /\ Known(design[b].record, cache[b].row) /\ form[b] \in Nat
        /\ (Following(b) => form[b] = cache[b].row.edition)
    BY <1>0, <1>3 DEF Save, IInv, DataTypeOK, Page, Known
  <2>2. new \in [state : {"sent", "saved", "refused"}, token : Nat, base : Nat]
        /\ (Following(b) =>
              Known(design[b].record, [version |-> new.token, edition |-> new.base]))
    BY <2>1 DEF Known, Rows
  <2>3. request' = [request EXCEPT ![b] = new]
    BY <1>3 DEF Save
  <2> HIDE DEF new
  <2>4. DataTypeOK'
    BY <1>3, <2>2, <2>3 DEF Save, IInv, DataTypeOK
  <2>5. request'[b] = new
    BY <2>3 DEF IInv, DataTypeOK
  <2>6. Page(b)'
    BY <1>3, <2>2, <2>5 DEF Save, IInv, Page, Known, Following
  <2> QED
    BY <1>3, <2>3, <2>4, <2>6, OtherPages DEF Save, IInv, DataTypeOK
<1> QED
  BY <1>1, <1>2, <1>3

\* A write raises the version: what was read before is old.
LEMMA ApplyKeepsIInv ==
  ASSUME IInv, NEW b \in Browsers, Apply(b)
  PROVE  IInv'
<1> DEFINE r == design[b].record
           part == design[b].part
           new == [request[b] EXCEPT !.state = "saved", !.base = content[r][part] + 1]
<1>1. r \in Resources /\ part \in Parts /\ content[r] \in [Parts -> Nat]
  BY DesignFields DEF IInv, DataTypeOK
<1>2. /\ content' = [content EXCEPT ![r] = [content[r] EXCEPT ![part] = content[r][part] + 1]]
      /\ version' = [version EXCEPT ![r] = version[r] + 1]
      /\ request' = [request EXCEPT ![b] = new]
      /\ UNCHANGED <<design, cache, reply, form>>
  BY DEF Apply, Write
<1>3. new \in [state : {"sent", "saved", "refused"}, token : Nat, base : Nat]
      /\ new.state = "saved"
  <2>1. request[b] \in [state : {"sent", "saved", "refused"}, token : Nat, base : Nat]
    BY DEF Apply, IInv, DataTypeOK
  <2>2. content[r][part] + 1 \in Nat
    BY <1>1
  <2> QED
    BY <2>1, <2>2
<1>4. [content[r] EXCEPT ![part] = content[r][part] + 1] \in [Parts -> Nat]
  BY <1>1
<1> HIDE DEF new
<1>5. DataTypeOK'
  BY <1>1, <1>2, <1>3, <1>4 DEF IInv, DataTypeOK
<1>6. ASSUME NEW s \in Resources, NEW row, Known(s, row)
      PROVE  Known(s, row)'
  BY <1>1, <1>2, <1>6 DEF Known, Rows, IInv, DataTypeOK
<1>7. ASSUME NEW c \in Browsers
      PROVE  Page(c)'
  <2>1. design[c].record \in Resources /\ Page(c)
    BY DesignFields DEF IInv, DataTypeOK
  <2>2. request'[c] = (IF c = b THEN new ELSE request[c]) /\ request[b] # NoData
    BY <1>2 DEF Apply, IInv, DataTypeOK
  <2> QED
    BY <1>2, <1>3, <1>6, <2>1, <2>2 DEF Page, Following
<1> QED
  BY <1>5, <1>7 DEF IInv

\* A record that changes without its version is one of which nothing is known by it.
LEMMA ChangeKeepsIInv ==
  ASSUME IInv, NEW b \in Browsers, design[b].record \in Unversioned,
         ChangeUnversioned(design[b].record)
  PROVE  IInv'
<1> DEFINE r == design[b].record
           new == [content[r] EXCEPT !.row = @ + 1]
<1>1. r \in Resources /\ r \in Unversioned /\ content[r] \in [Parts -> Nat]
  BY DesignFields DEF IInv, DataTypeOK
<1>2. /\ content' = [content EXCEPT ![r] = new]
      /\ UNCHANGED <<version, design, cache, reply, form, request>>
  BY DEF ChangeUnversioned, pageVars
<1>3. new \in [Parts -> Nat]
  BY <1>1 DEF Parts
<1> HIDE DEF new
<1>4. DataTypeOK'
  BY <1>1, <1>2, <1>3 DEF IInv, DataTypeOK
<1>5. ASSUME NEW s \in Resources, NEW row, Known(s, row)
      PROVE  Known(s, row)'
  BY <1>1, <1>2, <1>5 DEF Known, IInv, DataTypeOK
<1>6. ASSUME NEW c \in Browsers
      PROVE  Page(c)'
  <2>1. design[c].record \in Resources /\ Page(c)
    BY DesignFields DEF IInv, DataTypeOK
  <2> QED
    BY <1>2, <1>5, <2>1 DEF Page, Following
<1> QED
  BY <1>4, <1>6 DEF IInv

LEMMA AnswerKeepsIInv ==
  ASSUME IInv, NEW b \in Browsers, Refuse(b) \/ Saved(b) \/ Refused(b) \/ AnswerLost(b)
  PROVE  IInv'
<1>0. /\ cache[b] \in [row : Rows \cup {NoData}, item : Nat \cup {NoData}]
      /\ Nowhere \in [row : Rows \cup {NoData}, item : Nat \cup {NoData}]
      /\ Nowhere.row = NoData
  BY DEF IInv, DataTypeOK, Nowhere
<1>1. CASE Refuse(b)
  <2> DEFINE new == [request[b] EXCEPT !.state = "refused"]
  <2>1. new \in [state : {"sent", "saved", "refused"}, token : Nat, base : Nat]
        /\ new.state = "refused"
    <3>1. request[b] \in [state : {"sent", "saved", "refused"}, token : Nat, base : Nat]
      BY <1>1 DEF Refuse, IInv, DataTypeOK
    <3> QED
      BY <3>1
  <2>2. request' = [request EXCEPT ![b] = new]
    BY <1>1 DEF Refuse
  <2> HIDE DEF new
  <2>3. DataTypeOK'
    BY <1>1, <2>1, <2>2 DEF Refuse, IInv, DataTypeOK
  <2>4. request'[b] = new
    BY <2>2 DEF IInv, DataTypeOK
  <2>5. Page(b)'
    BY <1>1, <2>1, <2>4 DEF Refuse, IInv, Page, Known, Following
  <2> QED
    BY <1>1, <2>2, <2>3, <2>5, OtherPages DEF Refuse, IInv, DataTypeOK
<1>2. CASE Saved(b)
  <2> DEFINE got == IF design[b].saved = "store" THEN [cache[b] EXCEPT !.row = Current(b).row]
                    ELSE cache[b]
             left == IF design[b].saved \in {"refetch", "keep"} THEN Nowhere ELSE reply[b]
             shown == IF design[b].saved = "keep" /\ form[b] # NoData
                      THEN request[b].base ELSE NoData
  <2>1. /\ cache' = [cache EXCEPT ![b] = got]
        /\ reply' = [reply EXCEPT ![b] = left]
        /\ form' = [form EXCEPT ![b] = shown]
        /\ request' = [request EXCEPT ![b] = NoData]
        /\ UNCHANGED <<content, version, design>>
    BY <1>2 DEF Saved, IInv, DataTypeOK
  <2>2. /\ got \in [row : Rows \cup {NoData}, item : Nat \cup {NoData}]
        /\ got.row \in {cache[b].row, Current(b).row}
    BY <1>0, CurrentIsKnown DEF IInv
  <2>3. /\ left \in [row : Rows \cup {NoData}, item : Nat \cup {NoData}]
        /\ left.row \in {reply[b].row, NoData}
        /\ shown \in Nat \cup {NoData}
        /\ Following(b) => shown = NoData
    BY <1>0, <1>2, DesignFields DEF Saved, IInv, DataTypeOK
  <2>4. got.row # NoData
    <3>1. cache[b].row # NoData
      BY <1>2 DEF Saved, IInv, Page
    <3>2. Current(b).row # NoData
      BY EditPagesAssumption, CurrentIsKnown DEF IInv, Rows
    <3> QED
      BY <2>2, <3>1, <3>2
  <2> HIDE DEF got, left, shown
  <2>5. DataTypeOK'
    BY <2>1, <2>2, <2>3 DEF IInv, DataTypeOK
  <2>6. /\ cache'[b] = got /\ reply'[b] = left /\ form'[b] = shown /\ request'[b] = NoData
        /\ UNCHANGED <<content, version, design>>
    BY <2>1 DEF IInv, DataTypeOK
  <2>7. Known(design[b].record, got.row)
    BY <2>2, <2>4, CurrentIsKnown DEF IInv, Page
  <2>8. left.row # NoData => Known(design[b].record, left.row)
    BY <2>3 DEF IInv, Page
  <2>9. Page(b)'
    BY <2>3, <2>4, <2>6, <2>7, <2>8 DEF Page, Known, Following
  <2> QED
    BY <2>1, <2>5, <2>9, OtherPages DEF IInv, DataTypeOK
<1>3. CASE Refused(b) \/ AnswerLost(b)
  <2> DEFINE left == IF Refused(b) /\ design[b].refused = "refetch" THEN Nowhere ELSE reply[b]
  <2>1. /\ reply' = [reply EXCEPT ![b] = left]
        /\ request' = [request EXCEPT ![b] = NoData]
        /\ UNCHANGED <<content, version, design, cache, form>>
    BY <1>3 DEF Refused, AnswerLost, IInv, DataTypeOK
  <2>2. /\ left \in [row : Rows \cup {NoData}, item : Nat \cup {NoData}]
        /\ left.row \in {reply[b].row, NoData}
    BY <1>0 DEF IInv, DataTypeOK
  <2> HIDE DEF left
  <2>3. DataTypeOK' /\ Page(b)'
    BY <2>1, <2>2 DEF IInv, DataTypeOK, Page, Known, Following
  <2> QED
    BY <2>1, <2>3, OtherPages DEF IInv, DataTypeOK
<1> QED
  BY <1>1, <1>2, <1>3

LEMMA StepKeepsIInv ==
  ASSUME IInv, [Next]_vars
  PROVE  IInv'
<1>1. CASE UNCHANGED vars
  BY <1>1 DEF vars, IInv, DataTypeOK, Page, Known, Following
<1> QED
  BY <1>1, FetchKeepsIInv, ArriveKeepsIInv, FormKeepsIInv, ApplyKeepsIInv, ChangeKeepsIInv,
     AnswerKeepsIInv
  DEF Next

LEMMA InitIInv ==
  ASSUME Init
  PROVE  IInv
<1>1. DataTypeOK
  BY DEF Init, DataTypeOK, Nowhere
<1> QED
  BY <1>1 DEF Init, IInv, Page, Nowhere

-----------------------------------------------------------------------------
(***************************************************************************)
(* The theorems.                                                           *)
(***************************************************************************)

\* A row that a page has cached or is being sent is the current one if its version is, for the
\* records that change with their version only: customers, orders, work logs, not projects.
THEOREM Invariance == Spec => []IInv
<1> QED
  BY InitIInv, StepKeepsIInv, PTL DEF Spec

\* The version that a following form sends stands for the edition that it shows, unless its
\* record changes without its version, as a project does.
THEOREM FollowingFormsAreSafe == Spec => FollowingFormsReplaceWhatTheyShow
<1>1. ASSUME IInv, [Next]_vars, NEW b \in Browsers,
             design[b].token, design[b].follows, design[b].record \notin Unversioned
      PROVE  SeesWhatItReplaces(b)
  <2>1. SUFFICES ASSUME request[b] # NoData, request[b].state = "sent",
                        request'[b] # NoData, request'[b].state = "saved"
                 PROVE  request[b].base = content[design[b].record][design[b].part]
    BY DEF SeesWhatItReplaces
  <2>2. request'[b].state # request[b].state
    BY <2>1
  <2>3. Apply(b)
    <3>1. PICK c \in Browsers :
            \/ \E q \in Queries(c) : Fetch(c, q) \/ Arrive(c, q) \/ FetchFails(c, q)
            \/ OpenForm(c) \/ CancelForm(c) \/ Save(c)
            \/ Apply(c) \/ Refuse(c) \/ Saved(c) \/ Refused(c) \/ AnswerLost(c)
            \/ ChangeUnversioned(design[c].record)
      BY <1>1, <2>2 DEF Next, vars
    <3>2. CASE Apply(c)
      <4>1. \E new : request' = [request EXCEPT ![c] = new]
        BY <3>2 DEF Apply
      <4>2. c = b
        BY <2>2, <4>1 DEF IInv, DataTypeOK
      <4> QED
        BY <3>2, <4>2
    <3>3. CASE Refuse(c)
      BY <2>1, <2>2, <3>3 DEF Refuse, IInv, DataTypeOK
    <3>4. CASE Saved(c) \/ Refused(c) \/ AnswerLost(c)
      <4>1. request' = [request EXCEPT ![c] = NoData]
        BY <3>4 DEF Saved, Refused, AnswerLost
      <4> QED
        BY <2>1, <2>2, <4>1 DEF IInv, DataTypeOK
    <3>5. CASE Save(c)
      BY <2>1, <2>2, <3>5 DEF Save, IInv, DataTypeOK
    <3> QED
      BY <2>2, <3>1, <3>2, <3>3, <3>4, <3>5 DEF Fetch, Arrive, FetchFails, OpenForm, CancelForm,
         ChangeUnversioned, pageVars
  <2>4. /\ Known(design[b].record, [version |-> request[b].token, edition |-> request[b].base])
        /\ request[b].token = version[design[b].record]
        /\ design[b].part = "row"
    BY <1>1, <2>1, <2>3, DesignFields DEF Apply, Accepted, IInv, DataTypeOK, Page, Following
  <2> QED
    BY <1>1, <2>4 DEF Known
<1>2. IInv /\ [Next]_vars =>
        [\A b \in Browsers :
           design[b].token /\ design[b].follows /\ design[b].record \notin Unversioned
             => SeesWhatItReplaces(b)]_vars
  BY <1>1
<1> QED
  BY <1>2, Invariance, PTL DEF Spec, FollowingFormsReplaceWhatTheyShow
=============================================================================
