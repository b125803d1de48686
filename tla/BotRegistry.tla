------------------------------ MODULE BotRegistry ------------------------------
(***************************************************************************)
(* The registry of LINE bots: the page that edits it                       *)
(* (frontend/src/pages/Bots.tsx), the gateway's routes (gateway/src/app.ts)*)
(* and the encrypted store (gateway/src/control-db.ts) with its key file.  *)
(*                                                                         *)
(* The channel secret and the access token go the same way everywhere: one *)
(* credential stands for both.  What a credential says does not matter,    *)
(* only for which bot it was typed: New is one typed while a bot is added. *)
(* An envelope is a credential with the key it was sealed with.            *)
(***************************************************************************)
EXTENDS Integers, FiniteSets

CONSTANTS Bots,        \* bot ids
          New,         \* typed in the form that adds a bot
          Blank,       \* no credential, no bot
          MaxRequests, \* bound: saves and removals begun
          MaxStops     \* bound: stops of the gateway

ASSUME RegistryAssumption ==
  /\ {New, Blank} \cap Bots = {} /\ New # Blank
  /\ Blank \notin [key : Int, credential : Bots \cup {New}]
  /\ {MaxRequests, MaxStops} \subseteq Nat

VARIABLES
  keyFile,   \* 0: none, -1: begun, else the key
  gateway,   \* "down", "keyed" (the key file was opened anew), "up"
  key,       \* the key the running gateway has read
  bots,      \* the table: [ids -> envelope or Blank]
  told,      \* history: per id, the credential last asked for
  rows,      \* the page's list: [ids -> a credential is configured]
  form,      \* [id, credential, clear]
  editing,   \* id that is edited, Blank: a bot is added
  saving,    \* the save under way
  removing,  \* per id, the removal under way
  loading,   \* per caller, the list under way
  listed,    \* "loading": a placeholder is on show; "error": Retry is offered
  requests, stops

store == <<keyFile, gateway, key, bots, told, stops>>
registryPage == <<rows, form, editing, saving, removing, loading, listed, requests>>
registryVars == <<store, registryPage>>

Callers == {"page", "save"}
EmptyForm == [id |-> Blank, credential |-> Blank, clear |-> FALSE]
NoSave == [stage |-> "none", id |-> Blank, credential |-> Blank, clear |-> FALSE, update |-> FALSE]
NoRemoval == [stage |-> "none", editing |-> Blank]
NoRows == [stage |-> "none", rows |-> [b \in {} |-> FALSE]]

Envelopes == [key : Int, credential : Bots \cup {New}]
BotIds == Bots \cup {Blank}
Credentials == Bots \cup {New, Blank}
Stages == {"none", "sent", "done", "failed"}
SomeRows(r) == DOMAIN r \subseteq Bots /\ r \in [DOMAIN r -> BOOLEAN]

RegistryTypeOK ==
  /\ keyFile \in Int /\ key \in Int /\ gateway \in {"down", "keyed", "up"}
  /\ DOMAIN bots \subseteq Bots /\ bots \in [DOMAIN bots -> Envelopes \cup {Blank}]
  /\ told \in [Bots -> Credentials]
  /\ SomeRows(rows) /\ form \in [id : BotIds, credential : Credentials, clear : BOOLEAN]
  /\ editing \in BotIds
  /\ saving \in [stage : Stages \cup {"listing"}, id : BotIds, credential : Credentials,
                 clear : BOOLEAN, update : BOOLEAN]
  /\ removing \in [Bots -> [stage : Stages, editing : BotIds]]
  /\ DOMAIN loading = Callers
  /\ \A c \in Callers : loading[c].stage \in Stages /\ SomeRows(loading[c].rows)
  /\ listed \in {"loading", "shown", "error"}
  /\ requests \in 0..MaxRequests /\ stops \in 0..MaxStops

-----------------------------------------------------------------------------
\* The gateway's start and stop.

\* loadOrCreateKey: O_EXCL makes the file, empty.
OpenKey ==
  /\ gateway = "down" /\ keyFile = 0
  /\ gateway' = "keyed" /\ keyFile' = -1
  /\ UNCHANGED <<key, bots, told, stops, registryPage>>

\* The 32 bytes are written and read back.
WriteKey ==
  /\ gateway = "keyed"
  /\ keyFile' = (IF keyFile = -1 THEN 1 ELSE keyFile)
  /\ gateway' = "up" /\ key' = keyFile'
  /\ UNCHANGED <<bots, told, stops, registryPage>>

\* EEXIST: the key that is there is read.  A file that was left short stops
\* every start.
ReadKey ==
  /\ gateway = "down" /\ keyFile > 0
  /\ gateway' = "up" /\ key' = keyFile
  /\ UNCHANGED <<keyFile, bots, told, stops, registryPage>>

\* The gateway is stopped.  Files and table stay; the requests that were not
\* answered fail.
Stop ==
  /\ gateway # "down" /\ stops < MaxStops
  /\ gateway' = "down" /\ key' = 0 /\ stops' = stops + 1
  /\ UNCHANGED <<keyFile, bots, told, registryPage>>

-----------------------------------------------------------------------------
\* ControlDb.  A handler runs to its end before another begins.
Seal(c) == [key |-> key, credential |-> c]
HasRow(b) == b \in DOMAIN bots
Held(b) == IF HasRow(b) THEN bots[b] ELSE Blank

\* Mutant: a blank credential of a bot that is there clears it.
CreateForgets(b, given, c) ==
  [i \in DOMAIN bots \cup {b} |-> IF i # b THEN bots[i] ELSE IF given /\ c # Blank THEN Seal(c) ELSE Blank]
\* create: an id that is there is replaced; an omitted credential is kept, null
\* clears it.
Create(b, given, c) ==
  [i \in DOMAIN bots \cup {b} |->
     IF i # b THEN bots[i]
     ELSE IF ~given THEN Held(b)
     ELSE IF c = Blank THEN Blank ELSE Seal(c)]

\* The POST and PATCH routes; what the admin asked for is noted in told.
ServeSave ==
  LET s == saving
      given == s.clear \/ s.credential # Blank
      c == IF s.clear THEN Blank ELSE s.credential
  IN /\ s.stage = "sent" /\ gateway = "up"
     /\ IF s.update /\ ~HasRow(s.id)
          THEN saving' = [s EXCEPT !.stage = "failed"] /\ UNCHANGED <<bots, told>>
          ELSE /\ bots' = Create(s.id, given, c)
               /\ told' = [told EXCEPT ![s.id] = IF given THEN c ELSE @]
               /\ saving' = [s EXCEPT !.stage = "done"]
     /\ UNCHANGED <<keyFile, gateway, key, stops, rows, form, editing, removing, loading, listed, requests>>

\* The DELETE route: 404 without a row.
ServeRemoval(b) ==
  /\ removing[b].stage = "sent" /\ gateway = "up"
  /\ bots' = [i \in DOMAIN bots \ {b} |-> bots[i]]
  /\ told' = [told EXCEPT ![b] = Blank]
  /\ removing' = [removing EXCEPT ![b].stage = IF HasRow(b) THEN "done" ELSE "failed"]
  /\ UNCHANGED <<keyFile, gateway, key, stops, rows, form, editing, saving, loading, listed, requests>>

\* GET /api/bots: rows with flags, never a credential.
ServeList(c) ==
  /\ loading[c].stage = "sent" /\ gateway = "up"
  /\ loading' = [loading EXCEPT ![c] = [stage |-> "done", rows |-> [b \in DOMAIN bots |-> bots[b] # Blank]]]
  /\ UNCHANGED <<store, rows, form, editing, saving, removing, listed, requests>>

\* A request or its answer is lost, or the gateway is not there.
Lost ==
  /\ \/ saving.stage \in {"sent", "done"} /\ saving' = [saving EXCEPT !.stage = "failed"] /\ UNCHANGED <<removing, loading>>
     \/ \E b \in Bots : /\ removing[b].stage \in {"sent", "done"}
                        /\ removing' = [removing EXCEPT ![b].stage = "failed"]
                        /\ UNCHANGED <<saving, loading>>
     \/ \E c \in Callers : /\ loading[c].stage \in {"sent", "done"}
                           /\ loading' = [loading EXCEPT ![c] = [NoRows EXCEPT !.stage = "failed"]]
                           /\ UNCHANGED <<saving, removing>>
  /\ UNCHANGED <<store, rows, form, editing, listed, requests>>

-----------------------------------------------------------------------------
\* The page.
RegistryInit ==
  /\ keyFile = 0 /\ gateway = "down" /\ key = 0 /\ stops = 0
  /\ bots = [b \in {} |-> Blank] /\ told = [b \in Bots |-> Blank]
  /\ rows = [b \in {} |-> FALSE] /\ form = EmptyForm /\ editing = Blank
  /\ saving = NoSave /\ removing = [b \in Bots |-> NoRemoval]
  /\ loading = [c \in Callers |-> IF c = "page" THEN [NoRows EXCEPT !.stage = "sent"] ELSE NoRows]
  /\ listed = "loading" /\ requests = 0

Add ==
  /\ form' = EmptyForm /\ editing' = Blank
  /\ UNCHANGED <<store, rows, saving, removing, loading, listed, requests>>

\* Mutant: what was typed into the form stays.
EditKeepsCredential(b) == [form EXCEPT !.id = b, !.clear = FALSE]
\* A bot's row is put into the form, its credential blank.
Edited(b) == [EmptyForm EXCEPT !.id = b]

Edit(b) ==
  /\ listed # "loading" /\ b \in DOMAIN rows /\ removing[b].stage = "none"
  /\ form' = Edited(b) /\ editing' = b
  /\ UNCHANGED <<store, rows, saving, removing, loading, listed, requests>>

\* A credential is typed or rubbed out, the id of a new bot is chosen, or the
\* box that clears the stored credential is ticked: it is there while editing
\* a bot whose row has one.
Type ==
  /\ \/ /\ ~form.clear
        /\ form' = [form EXCEPT !.credential = IF @ # Blank THEN Blank ELSE IF editing = Blank THEN New ELSE editing]
     \/ editing = Blank /\ \E b \in Bots : form' = [form EXCEPT !.id = b]
     \/ /\ editing \in DOMAIN rows /\ rows[editing]
        /\ form' = [form EXCEPT !.clear = ~@]
  /\ UNCHANGED <<store, rows, editing, saving, removing, loading, listed, requests>>

\* save: the button is disabled while one is under way.  A credential typed for
\* a new bot is that of the id it is sent with.
Save ==
  /\ saving.stage = "none" /\ form.id # Blank /\ requests < MaxRequests
  /\ saving' = [stage |-> "sent", id |-> form.id,
                credential |-> IF form.credential = New /\ editing = Blank THEN form.id ELSE form.credential,
                clear |-> editing # Blank /\ form.clear, update |-> editing # Blank]
  /\ requests' = requests + 1
  /\ UNCHANGED <<store, rows, form, editing, removing, loading, listed>>

\* Saved: whatever the form holds by now is emptied, and the list loaded.
Saved ==
  /\ saving.stage = "done"
  /\ form' = EmptyForm /\ editing' = Blank
  /\ saving' = [NoSave EXCEPT !.stage = "listing"]
  /\ loading' = [loading EXCEPT !["save"] = [NoRows EXCEPT !.stage = "sent"]] /\ listed' = "loading"
  /\ UNCHANGED <<store, rows, removing, requests>>

SaveFails ==
  /\ saving.stage = "failed" /\ saving' = NoSave
  /\ UNCHANGED <<store, rows, form, editing, removing, loading, listed, requests>>

\* Confirm removal: the answer's handler knows what was edited at the click.
Remove(b) ==
  /\ listed # "loading" /\ b \in DOMAIN rows /\ removing[b].stage = "none" /\ requests < MaxRequests
  /\ removing' = [removing EXCEPT ![b] = [stage |-> "sent", editing |-> editing]]
  /\ requests' = requests + 1
  /\ UNCHANGED <<store, rows, form, editing, saving, loading, listed>>

Removed(b) ==
  /\ removing[b].stage = "done"
  /\ rows' = [i \in DOMAIN rows \ {b} |-> rows[i]]
  /\ IF removing[b].editing = b THEN form' = EmptyForm /\ editing' = Blank ELSE UNCHANGED <<form, editing>>
  /\ removing' = [removing EXCEPT ![b] = NoRemoval]
  /\ UNCHANGED <<store, saving, loading, listed, requests>>

RemoveFails(b) ==
  /\ removing[b].stage = "failed" /\ removing' = [removing EXCEPT ![b] = NoRemoval]
  /\ UNCHANGED <<store, rows, form, editing, saving, loading, listed, requests>>

\* After a failure the page offers to load again; two loads of its own at a
\* time are left out.
Retry ==
  /\ listed = "error" /\ loading["page"].stage = "none"
  /\ loading' = [loading EXCEPT !["page"] = [NoRows EXCEPT !.stage = "sent"]] /\ listed' = "loading"
  /\ UNCHANGED <<store, rows, form, editing, saving, removing, requests>>

\* loadBots ends, well or not, and with it the save that began it.  The rows
\* are on show again, also when another load is still under way.
ListLoaded(c) ==
  /\ loading[c].stage \in {"done", "failed"}
  /\ rows' = IF loading[c].stage = "done" THEN loading[c].rows ELSE rows
  /\ listed' = IF loading[c].stage = "failed" \/ listed = "error" THEN "error" ELSE "shown"
  /\ loading' = [loading EXCEPT ![c] = NoRows]
  /\ saving' = IF c = "save" THEN NoSave ELSE saving
  /\ UNCHANGED <<store, form, editing, removing, requests>>

RegistryNext ==
  \/ OpenKey \/ WriteKey \/ ReadKey \/ Stop \/ ServeSave \/ Lost
  \/ Add \/ Type \/ Save \/ Saved \/ SaveFails \/ Retry
  \/ \E b \in Bots : Edit(b) \/ Remove(b) \/ Removed(b) \/ RemoveFails(b) \/ ServeRemoval(b)
  \/ \E c \in Callers : ServeList(c) \/ ListLoaded(c)

RegistrySpec == RegistryInit /\ [][RegistryNext]_registryVars

-----------------------------------------------------------------------------
\* A credential is only ever stored, or sent, with the bot it was typed for:
\* whatever was in the form when another bot was opened, a save ended late or a
\* removal emptied the form does not end up in another row.
OwnCredential ==
  /\ \A b \in DOMAIN bots : bots[b] # Blank => bots[b].credential = b
  /\ saving.credential \in {Blank, saving.id}

\* app.ts: credentials are "encrypted at rest, and retained when omitted. Send
\* null to clear one."  What was last asked for is what the table gives with the
\* key that is on disk, over saves that leave the field blank, replacements of
\* an id that is there, and stops at any point, in the making of the key too.
CredentialsKept ==
  \A b \in Bots :
    told[b] # Blank \/ Held(b) # Blank
      => Held(b) # Blank /\ Held(b) = [key |-> keyFile, credential |-> told[b]]

\* A bot's credential is its own and the last that was typed for it (Bots.tsx,
\* control-db.ts).
CredentialsTrue == RegistryTypeOK /\ OwnCredential /\ CredentialsKept

=============================================================================
