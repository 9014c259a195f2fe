------------------------- MODULE VersionedResource -------------------------
(***************************************************************************)
(* What every optimistically locked record of the API promises: it can be  *)
(* changed only by a writer who names its current version, each write      *)
(* raises the version by one, and a closed record is never written again.  *)
(* Orders with their items and customers with their contacts implement it; *)
(* the pages of the web front end rely on it.                              *)
(***************************************************************************)
EXTENDS Naturals

CONSTANTS
  Resources,    \* records with a version column
  Nothing,      \* the content of a record that does not exist yet
  Closed(_)     \* contents that are final: archived records

VARIABLES
  content,      \* content[r]: the row and the rows that share its version
  version       \* version[r]: the version column, 0 before the record exists

resourceVars == <<content, version>>

ResourceInit ==
  /\ content = [r \in Resources |-> Nothing]
  /\ version = [r \in Resources |-> 0]

\* A write under a token; anything but the current version is refused (409).
Write(r, token, new) ==
  /\ token = version[r]
  /\ ~Closed(content[r])
  /\ content' = [content EXCEPT ![r] = new]
  /\ version' = [version EXCEPT ![r] = @ + 1]

ResourceNext == \E r \in Resources : Write(r, version[r], content'[r])

ResourceSpec == ResourceInit /\ [][ResourceNext]_resourceVars
=============================================================================
