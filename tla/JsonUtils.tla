------------------------------- MODULE JsonUtils -------------------------------
(***************************************************************************)
(* The JSON of a user (src/src/common/json_utils.h), as it is kept in      *)
(* Redis and sent to browsers.  A JSON object is a function from the keys  *)
(* that it has to their values; dump() and parse() are left out.           *)
(***************************************************************************)
EXTENDS UserMessages

UserToJson(u) ==
  [id |-> u.val.id.text, name |-> u.val.name.text, email |-> u.val.email.text,
   created_at |-> u.val.created_at]

\* nlohmann's json::value(): a key that is not there has the default.
Value(j, key, default) == IF key \in DOMAIN j THEN j[key] ELSE default

\* Mutant of JsonToUser: what is not in the object is left as it is.
JsonToUserIfThere(j, u) ==
  LET TextIf(m, bit, f) == IF f \in DOMAIN j THEN SetField(m, bit, f, Text(j[f])) ELSE m
      texts == TextIf(TextIf(TextIf(u, 1, "id"), 2, "name"), 4, "email")
  IN  SetField(texts, 8, "created_at", Value(j, "created_at", 0))

\* All four fields are set, to "" or 0 where the object does not have them.
JsonToUser(j, u) ==
  LET TextOf(m, bit, f) == SetField(m, bit, f, Text(Value(j, f, Empty)))
      texts == TextOf(TextOf(TextOf(u, 1, "id"), 2, "name"), 4, "email")
  IN  SetField(texts, 8, "created_at", Value(j, "created_at", 0))

JsonKeys == {"id", "name", "email", "created_at"}
Part(u, keys) == [key \in keys |-> UserToJson(u)[key]]

\* Message b is made anew and filled from the JSON of a, or from one with some
\* keys only, as another version may have put it into Redis.  Bound: those of
\* the edited fields.
LoadJson ==
  /\ kind = "User"
  /\ \E keys \in {JsonKeys, edited} : b' = JsonToUser(Part(a, keys), NewUser)
  /\ UNCHANGED <<kind, edited, a>>

-----------------------------------------------------------------------------

\* A user that is filled from JSON is the user that the JSON was made from,
\* whatever the message held before: what the object lacks is reset, and the
\* has-bits let the result be sent on (HintsHold, RoundTrip).
JsonCarriesUser ==
  kind = "User" =>
    \A keys \in SUBSET JsonKeys :
      LET u == JsonToUser(Part(a, keys), b)
      IN  \A f \in JsonKeys :
            UserContents(ParseUser(NewUser, SerializeUser(u)))[f] =
              UserContents(IF f \in keys THEN a ELSE NewUser)[f]

=============================================================================
