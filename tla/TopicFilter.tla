------------------------------ MODULE TopicFilter ------------------------------
(***************************************************************************)
(* How 02-mz_forwarder/server.ts finds the field allowlist of a topic:     *)
(* topicMatches, the MQTT wildcard match, and resolveDbname, which refuses *)
(* to choose between two data bases whose allowlists differ.               *)
(*                                                                         *)
(* A behavior is one configuration and one topic, which never change.      *)
(***************************************************************************)
EXTENDS Integers, Sequences

CONSTANTS Levels,     \* the names a topic level may have
          Lists,      \* allowlists, compared as their JSON text
          NoList,     \* a data base without an entry in field_map
          DbNames,    \* data bases
          NoDb,       \* the null resolveDbname returns
          MaxLevels,  \* bound: levels of a pattern or a topic
          MaxEntries  \* bound: entries of topic_map

ASSUME FilterAssumption ==
  /\ NoList \notin Lists /\ NoDb \notin DbNames
  /\ {"+", "#"} \cap Levels = {}
  /\ MaxLevels \in Nat \ {0} /\ MaxEntries \in Nat

VARIABLES option,    \* the dbname option, NoDb when left blank
          topicMap,  \* mapping.topic_map, one pattern per entry
          fieldMap,  \* mapping.field_map
          topic
tvars == <<option, topicMap, fieldMap, topic>>

Upto(S) == UNION {[1..n -> S] : n \in 1..MaxLevels}
\* MQTT allows "#" as the last level only.
Filters == {p \in Upto(Levels \cup {"+", "#"}) : \A i \in 1..(Len(p) - 1) : p[i] # "#"}
Entry == [dbname: DbNames, pattern: Filters]

\* Mutant: the pattern may be a prefix of the topic.
topicMatchesPrefix(p, s) ==
  LET m[i \in 1..(Len(p) + 1)] ==
        \/ i > Len(p)
        \/ p[i] = "#"
        \/ i <= Len(s) /\ p[i] \in {"+", s[i]} /\ m[i + 1]
  IN  m[1]

\* The loop over the pattern's levels; what is left decides by length.
topicMatches(p, s) ==
  LET m[i \in 1..(Len(p) + 1)] ==
        \/ i > Len(p) /\ Len(p) = Len(s)
        \/ i <= Len(p) /\ \/ p[i] = "#"
                          \/ i <= Len(s) /\ p[i] \in {"+", s[i]} /\ m[i + 1]
  IN  m[1]

\* The matching entries, and the first of them.
Hits == {i \in DOMAIN topicMap : topicMatches(topicMap[i].pattern, topic)}
FirstHit == CHOOSE i \in Hits : \A j \in Hits : i <= j
ListOf(i) == fieldMap[topicMap[i].dbname]

\* Mutant: the first match wins.
resolveFirst ==
  IF option # NoDb THEN option
  ELSE IF Hits = {} THEN NoDb
  ELSE topicMap[FirstHit].dbname

resolveDbname ==
  IF option # NoDb THEN option
  ELSE IF Hits # {} /\ \A i \in Hits : ListOf(i) = ListOf(FirstHit)
    THEN topicMap[FirstHit].dbname
    ELSE NoDb

FilterInit ==
  /\ option \in DbNames \cup {NoDb}
  /\ topicMap \in UNION {[1..n -> Entry] : n \in 0..MaxEntries}
  /\ fieldMap \in [DbNames -> Lists \cup {NoList}]
  /\ topic \in Upto(Levels)

FilterSpec == FilterInit /\ [][FALSE]_tvars

-----------------------------------------------------------------------------
Names(level, name) == level \in {"+", name}

\* The match is the one MQTT defines: "+" stands for one level, a final "#" for
\* any number of levels, the parent's own included, and nothing else matches
\* but a level's own name (topicMatches).
MatchesAsMqtt ==
  \A i \in DOMAIN topicMap :
    LET p == topicMap[i].pattern
        n == Len(p)
    IN  topicMatches(p, topic) =
          IF p[n] = "#"
            THEN Len(topic) >= n - 1 /\ \A j \in 1..(n - 1) : Names(p[j], topic[j])
            ELSE Len(topic) = n /\ \A j \in 1..n : Names(p[j], topic[j])

\* The fields a topic is filtered by do not depend on the order of topic_map:
\* with the option blank, the chosen data base has the allowlist of every other
\* that matches ("it REFUSES to pick when two dbnames match the same topic with
\* different allowlists", resolveDbname).
NeverGuesses ==
  option = NoDb /\ resolveDbname # NoDb =>
    \A i \in DOMAIN topicMap :
      topicMatches(topicMap[i].pattern, topic) => ListOf(i) = fieldMap[resolveDbname]

\* The allowlist a topic gets is that of the MQTT match, and of every match
\* (topicMatches, resolveDbname).
FilterTrue == MatchesAsMqtt /\ NeverGuesses

=============================================================================
