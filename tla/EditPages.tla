----------------------------- MODULE EditPages -----------------------------
(***************************************************************************)
(* The pages of the web front end that edit a versioned record: an order   *)
(* or customer ("row") with its items or contacts ("item"), a project, a   *)
(* portfolio, a work log.  A page shows what its queries have cached,      *)
(* sends the version of the cached row, and learns later what became of    *)
(* its request.  The pages write as VersionedResource does; a project has  *)
(* another writer, who leaves its version as it is.  The caches are React  *)
(* Query's.                                                                *)
(*                                                                         *)
(* Content is the number of the edition: every write makes a new one.      *)
(***************************************************************************)
EXTENDS VersionedResource

CONSTANTS
  Browsers,       \* open pages
  NoData,         \* nothing cached, no response on its way, no request
  MaxEditions     \* bound: editions of a record, those of its row and of its items together

Parts == {"row", "item"}

(***************************************************************************)
(* The designs of the pages.                                               *)
(*   part     what the form edits                                          *)
(*   token    the request carries the version of the cached row            *)
(*   follows  the form is set again when the cached row changes            *)
(*   saved    on success the page stores the answer and closes the form,   *)
(*            leaves, or has its queries refetched (and closes, or keeps   *)
(*            the form)                                                    *)
(*   refused  on 409 the queries are refetched, or nothing happens         *)
(***************************************************************************)
CustomerForm ==
  [record |-> "customer", part |-> "row", token |-> TRUE, follows |-> TRUE, saved |-> "store",
   refused |-> "stay"]
ContactForm ==
  [record |-> "customer", part |-> "item", token |-> TRUE, follows |-> FALSE, saved |-> "refetch",
   refused |-> "stay"]
OrderForm ==
  [record |-> "order", part |-> "row", token |-> TRUE, follows |-> TRUE, saved |-> "leave",
   refused |-> "stay"]
ItemForm ==
  [record |-> "order", part |-> "item", token |-> TRUE, follows |-> FALSE, saved |-> "refetch",
   refused |-> "stay"]
ProjectForm ==
  [record |-> "project", part |-> "row", token |-> TRUE, follows |-> TRUE, saved |-> "leave",
   refused |-> "stay"]
DraftForm ==
  [record |-> "log", part |-> "row", token |-> TRUE, follows |-> FALSE, saved |-> "keep",
   refused |-> "refetch"]
SubmitButton ==
  [record |-> "log", part |-> "row", token |-> FALSE, follows |-> TRUE, saved |-> "refetch",
   refused |-> "refetch"]
PortfolioForm ==
  [record |-> "portfolio", part |-> "row", token |-> FALSE, follows |-> TRUE, saved |-> "refetch",
   refused |-> "stay"]

Designs ==
  {CustomerForm, ContactForm, OrderForm, ItemForm, ProjectForm, DraftForm, SubmitButton,
   PortfolioForm}

ASSUME EditPagesAssumption ==
  /\ NoData \notin Nat \cup [version : Nat, edition : Nat]
  /\ MaxEditions \in Nat \ {0, 1}
  /\ {d.record : d \in Designs} \subseteq Resources

\* Records that also change without their version.
Unversioned == {ProjectForm.record}

VARIABLES
  design,    \* design[b]: the page that browser b shows; it stays
  cache,     \* cache[b]: what the queries of the page have cached
  reply,     \* reply[b]: the responses on their way to them
  form,      \* form[b]: the edition that the form's values come from; NoData when closed
  request    \* request[b]: the save under way

pageVars == <<design, cache, reply, form, request>>
vars == <<content, version, design, cache, reply, form, request>>

Editions == 1..MaxEditions
Versions == Editions

\* The row comes with its version; items and contacts are listed without one.
Answers ==
  [row : [version : Versions, edition : Editions] \cup {NoData}, item : Editions \cup {NoData}]

PageTypeOK ==
  /\ content \in [Resources -> [Parts -> Editions]]
  /\ version \in [Resources -> Versions]
  /\ design \in [Browsers -> Designs]
  /\ cache \in [Browsers -> Answers]
  /\ reply \in [Browsers -> Answers]
  /\ form \in [Browsers -> Editions \cup {NoData}]
  /\ request \in [Browsers ->
       {NoData} \cup [state : {"sent", "saved", "refused"}, token : Versions, base : Editions]]

Queries(b) == {"row", design[b].part}

Nowhere == [row |-> NoData, item |-> NoData]

\* What the API answers to the queries of the page.
Current(b) ==
  LET r == design[b].record
  IN [row |-> [version |-> version[r], edition |-> content[r].row], item |-> content[r].item]

(***************************************************************************)
(* Queries: at most one response on its way to each.  Mounting, focus and  *)
(* invalidation have the page fetch at any time.                           *)
(***************************************************************************)
Fetch(b, q) ==
  /\ reply[b][q] = NoData
  /\ reply' = [reply EXCEPT ![b][q] = Current(b)[q]]
  /\ UNCHANGED <<content, version, design, cache, form, request>>

\* useEffect(() => form.reset(...)): the values follow the row that the cache holds.
Follow(b, q, data) ==
  IF form[b] # NoData /\ design[b].follows /\ q = "row" THEN data.edition ELSE form[b]

Arrive(b, q) ==
  /\ reply[b][q] # NoData
  /\ cache' = [cache EXCEPT ![b][q] = reply[b][q]]
  /\ reply' = [reply EXCEPT ![b][q] = NoData]
  /\ form' = [form EXCEPT ![b] = Follow(b, q, reply[b][q])]
  /\ UNCHANGED <<content, version, design, request>>

FetchFails(b, q) ==
  /\ reply[b][q] # NoData
  /\ reply' = [reply EXCEPT ![b][q] = NoData]
  /\ UNCHANGED <<content, version, design, cache, form, request>>

(***************************************************************************)
(* The form.                                                               *)
(***************************************************************************)
ShownEdition(b) == IF design[b].part = "row" THEN cache[b].row.edition ELSE cache[b].item

OpenForm(b) ==
  /\ form[b] = NoData
  /\ cache[b].row # NoData /\ cache[b][design[b].part] # NoData
  /\ form' = [form EXCEPT ![b] = ShownEdition(b)]
  /\ UNCHANGED <<content, version, design, cache, reply, request>>

\* A form can be cancelled while its save is under way; the save goes on.
CancelForm(b) ==
  /\ form[b] # NoData
  /\ form' = [form EXCEPT ![b] = NoData]
  /\ UNCHANGED <<content, version, design, cache, reply, request>>

\* The token is that of the row as it is cached now, not as it was when the form was opened.
\* One save of a page is under way at a time (bound).
Save(b) ==
  /\ form[b] # NoData /\ request[b] = NoData
  /\ request' = [request EXCEPT ![b] =
       [state |-> "sent", token |-> cache[b].row.version, base |-> form[b]]]
  /\ UNCHANGED <<content, version, design, cache, reply, form>>

(***************************************************************************)
(* The API.                                                                *)
(***************************************************************************)
\* Mutant: no version is compared.
AcceptedAlways(b) == TRUE

Accepted(b) == design[b].token => request[b].token = version[design[b].record]

MayChange(r) == content[r].row + content[r].item < MaxEditions

Apply(b) ==
  LET r == design[b].record
      part == design[b].part
  IN /\ request[b] # NoData /\ request[b].state = "sent"
     /\ Accepted(b)
     /\ MayChange(r)
     /\ Write(r, version[r], [content[r] EXCEPT ![part] = @ + 1])
     /\ request' = [request EXCEPT ![b] =
          [request[b] EXCEPT !.state = "saved", !.base = content[r][part] + 1]]
     /\ UNCHANGED <<design, cache, reply, form>>

\* CustomersService.create binds its customer to a project, and a customer or a portfolio that
\* is archived is not shown with its projects any more: the version of the project stays.
ChangeUnversioned(r) ==
  /\ MayChange(r)
  /\ content' = [content EXCEPT ![r].row = @ + 1]
  /\ UNCHANGED <<version, pageVars>>

Refuse(b) ==
  /\ request[b] # NoData /\ request[b].state = "sent"
  /\ request' = [request EXCEPT ![b].state = "refused"]
  /\ UNCHANGED <<content, version, design, cache, reply, form>>

(***************************************************************************)
(* The answer to a save.  An update answers with the row as it is by then; *)
(* invalidating a query drops the response that is on its way.  It closes  *)
(* the form of the page, also one that has been opened since.              *)
(***************************************************************************)
Saved(b) ==
  /\ request[b] # NoData /\ request[b].state = "saved"
  /\ request' = [request EXCEPT ![b] = NoData]
  /\ form' = [form EXCEPT ![b] = IF design[b].saved = "keep" /\ form[b] # NoData
                                 THEN request[b].base ELSE NoData]
  /\ cache' = IF design[b].saved = "store" THEN [cache EXCEPT ![b].row = Current(b).row] ELSE cache
  /\ reply' = IF design[b].saved \in {"refetch", "keep"} THEN [reply EXCEPT ![b] = Nowhere] ELSE reply
  /\ UNCHANGED <<content, version, design>>

Refused(b) ==
  /\ request[b] # NoData /\ request[b].state = "refused"
  /\ request' = [request EXCEPT ![b] = NoData]
  /\ reply' = IF design[b].refused = "refetch" THEN [reply EXCEPT ![b] = Nowhere] ELSE reply
  /\ UNCHANGED <<content, version, design, cache, form>>

\* No answer: the page shows an error and keeps its form, saved or not.
AnswerLost(b) ==
  /\ request[b] # NoData
  /\ request' = [request EXCEPT ![b] = NoData]
  /\ UNCHANGED <<content, version, design, cache, reply, form>>

(***************************************************************************)
(* The specification.  The records exist; the pages have loaded nothing.   *)
(* All pages are on one record: pages on different records do not meet.    *)
(***************************************************************************)
Init ==
  /\ content = [r \in Resources |-> [part \in Parts |-> 1]]
  /\ version = [r \in Resources |-> 1]
  /\ design \in [Browsers -> Designs]
  /\ \A b, c \in Browsers : design[b].record = design[c].record
  /\ cache = [b \in Browsers |-> Nowhere]
  /\ reply = [b \in Browsers |-> Nowhere]
  /\ form = [b \in Browsers |-> NoData]
  /\ request = [b \in Browsers |-> NoData]

Next ==
  \/ \E b \in Browsers :
       \/ \E q \in Queries(b) : Fetch(b, q) \/ Arrive(b, q) \/ FetchFails(b, q)
       \/ OpenForm(b) \/ CancelForm(b) \/ Save(b)
       \/ Apply(b) \/ Refuse(b) \/ Saved(b) \/ Refused(b) \/ AnswerLost(b)
  \/ \E b \in Browsers : design[b].record \in Unversioned /\ ChangeUnversioned(design[b].record)

Spec == Init /\ [][Next]_vars

-----------------------------------------------------------------------------
(***************************************************************************)
(* Properties.                                                             *)
(***************************************************************************)

\* The save of page b replaces the edition that its form was filled from.
SeesWhatItReplaces(b) ==
  request[b] # NoData /\ request[b].state = "sent" /\ request'[b] # NoData
    /\ request'[b].state = "saved"
    => request[b].base = content[design[b].record][design[b].part]

\* A page that sends the version and has its form follow the cached row never replaces an
\* edition that it has not shown, whatever is refetched, lost or saved in the meantime, if
\* its record changes with its version only.  The form of a project does not have that.
FollowingFormsReplaceWhatTheyShow ==
  [][\A b \in Browsers :
       design[b].token /\ design[b].follows /\ design[b].record \notin Unversioned
         => SeesWhatItReplaces(b)]_vars
=============================================================================
