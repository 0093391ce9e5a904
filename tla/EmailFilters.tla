---------------------------- MODULE EmailFilters ----------------------------
(***************************************************************************)
(* The filters of GET /emails by id, recipient and template, in the two    *)
(* databases: the recipient becomes a LIKE pattern of SQLite, or an ILIKE  *)
(* pattern of PostgreSQL, whose operators differ in what they escape and   *)
(* in which letters they fold. The filters by time and status, and paging, *)
(* are in Listing.                                                         *)
(*                                                                         *)
(* An address and a filter are sequences of characters.                    *)
(***************************************************************************)
EXTENDS Naturals, Sequences

CONSTANTS Backends,   \* databases to consider
          Addresses,  \* of recipients
          Filters,    \* that clients use
          Templates,  \* names of MJML templates
          Lower,      \* capital letter -> small letter
          Ascii,      \* the characters among ASCII
          MaxEmails,  \* bound on e-mails
          Null

Pairs == {{a, b} : a, b \in Addresses}

EmailFiltersAssumption ==
  /\ Backends \subseteq {"sqlite", "postgres"}
  /\ Addresses \subseteq Filters
  /\ MaxEmails \in Nat /\ Null \notin Templates

VARIABLES backend,
          emails    \* rows in the order of their ids

vars == <<backend, emails>>

Init == backend \in Backends /\ emails = <<>>

\* The body names a template, or is of another kind.
Save ==
  /\ Len(emails) < MaxEmails
  /\ \E recipients \in Pairs : \E template \in Templates \union {Null} :
       emails' = Append(emails, [recipients |-> recipients, template |-> template])
  /\ UNCHANGED backend

Next == Save

Spec == Init /\ [][Next]_vars

-----------------------------------------------------------------------------
(* The patterns.                                                           *)

\* SQLite folds the letters of ASCII only.
Folded(c) ==
  IF c \in DOMAIN Lower /\ (backend = "sqlite" => c \in Ascii) THEN Lower[c] ELSE c

Same(c, d) == Folded(c) = Folded(d)

\* Only PostgreSQL has an escape character by default.
Escapes(c) == backend = "postgres" /\ c = "\\"

\* s LIKE p: at[i, j] says that the rest of p from i matches the rest of s from j.
Like(s, p) ==
  LET at[i \in 1..Len(p) + 2, j \in 1..Len(s) + 1] ==
        IF i > Len(p) THEN j > Len(s)
        ELSE CASE p[i] = "%"    -> at[i + 1, j] \/ (j <= Len(s) /\ at[i, j + 1])
               [] Escapes(p[i]) -> /\ i < Len(p) /\ j <= Len(s)
                                   /\ Same(p[i + 1], s[j]) /\ at[i + 2, j + 1]
               [] OTHER         -> /\ j <= Len(s)
                                   /\ p[i] = "_" \/ Same(p[i], s[j])
                                   /\ at[i + 1, j + 1]
  IN  at[1, 1]

\* Faulty variant of Pattern: an underscore is escaped, which SQLite does not know.
Pattern_Escaped(filter) ==
  LET from[i \in 1..Len(filter) + 1] ==
        IF i > Len(filter) THEN <<"%">>
        ELSE (IF filter[i] = "_" THEN <<"\\", "_">> ELSE <<filter[i]>>) \o from[i + 1]
  IN  <<"%">> \o from[1]

\* '%' || filter || '%', as it was given.
Pattern(filter) == <<"%">> \o filter \o <<"%">>

list_emails(query) ==
  {i \in DOMAIN emails :
     /\ query.id # Null => i = query.id
     /\ query.recipient # Null =>
          \E a \in emails[i].recipients : Like(a, Pattern(query.recipient))
     /\ query.template # Null => emails[i].template = query.template}

-----------------------------------------------------------------------------
(* Properties.                                                             *)

TypeOK ==
  /\ backend \in Backends
  /\ emails \in Seq([recipients : Pairs, template : Templates \union {Null}])

ByRecipient(filter) == list_emails([id |-> Null, recipient |-> filter, template |-> Null])

LowerOf(s) == [i \in DOMAIN s |-> IF s[i] \in DOMAIN Lower THEN Lower[s[i]] ELSE s[i]]

\* The reference: f occurs in a, whatever the case.
Contains(a, f) ==
  \E k \in 0..Len(a) : k + Len(f) <= Len(a) /\ SubSeq(LowerOf(a), k + 1, k + Len(f)) = LowerOf(f)

HavingRecipientLike(f) ==
  {i \in DOMAIN emails : \E a \in emails[i].recipients : Contains(a, f)}

Plain(f) == \A i \in DOMAIN f : f[i] \in Ascii \ {"%", "_", "\\"}

\* With either database a filter of plain characters lists the e-mails with a
\* recipient that contains it, in any case; and the other filters narrow that.
PlainIsSubstring ==
  \A f \in {g \in Filters : Plain(g)} :
     /\ ByRecipient(f) = HavingRecipientLike(f)
     /\ \A t \in Templates : \A i \in DOMAIN emails :
          list_emails([id |-> i, recipient |-> f, template |-> t])
            = {j \in HavingRecipientLike(f) : j = i /\ emails[j].template = t}

\* A recipient's own address finds the e-mail, also with characters that mean
\* something in a pattern; only PostgreSQL's escape character is excepted.
FoundByOwnAddress ==
  \A i \in DOMAIN emails : \A a \in emails[i].recipients :
     (\A k \in DOMAIN a : a[k] # "\\") => i \in ByRecipient(a)
=============================================================================
