--------------------------- MODULE TokenRotation ---------------------------
(***************************************************************************)
(* One OAuth connection: the authorization code that opens it, the api_keys *)
(* row whose access token is rotated in place, and the chain of refresh     *)
(* tokens, each replacing the one before.                                   *)
(*                                                                          *)
(*   app/api/oauth/token/route.ts           both grants of POST             *)
(*   lib/oauth/revocation.ts                RFC 7009 revocation, and the    *)
(*   app/api/api-keys/[id]/revoke/route.ts  dashboard button (same writes)  *)
(*   lib/workspace/membership.ts            a member is removed             *)
(*                                                                          *)
(* A request is a series of round trips to the database, each one step, and *)
(* a client may have several under way.  A token or key is named after the  *)
(* request that minted it.                                                  *)
(***************************************************************************)
EXTENDS Integers, FiniteSets

CONSTANTS
    Redeems,        \* requests that redeem the code
    Refreshes,      \* requests that rotate the chain
    Legacy,         \* the token of a chain from before keys were linked
    Nothing,        \* no token, no key
    MaxTokenFaults  \* crashes, failing writes and lost answers (bound)

Requests == Redeems \cup Refreshes
ChainTokens == Requests \cup {Legacy}

ASSUME TokenAssumption ==
    /\ Redeems \cap Refreshes = {}
    /\ Legacy \notin Requests /\ Nothing \notin ChainTokens
    /\ MaxTokenFaults \in Nat

VARIABLES
    authCode,   \* the oauth_auth_codes row
    chain,      \* oauth_refresh_tokens: none, live or revoked
    linkedTo,   \* their api_key_id
    keyRow,     \* api_keys: none, live or deleted
    access,     \* the request whose access token a key holds
    member,     \* the workspace_members row
    step,       \* where each request stands
    presented,  \* the refresh token a request was sent with
    grantKey,   \* the api_key_id it read
    client,     \* the refresh token the client would use next
    revoker,    \* the revocation of the connection, and the key it is of
    removal,    \* the removal of the member
    unlucky,    \* requests that crashed, failed a write or lost their answer
    late        \* requests sent when the member was gone

tokenDb == <<authCode, chain, linkedTo, keyRow, access, member>>
requestVars == <<step, presented, grantKey>>
enders == <<revoker, removal>>
tokenVars == <<tokenDb, requestVars, client, enders, unlucky, late>>

TokenInit ==
    /\ \E legacy \in BOOLEAN :
        /\ authCode = IF legacy THEN "gone" ELSE "pending"
        /\ chain = [t \in ChainTokens |-> IF legacy /\ t = Legacy THEN "live" ELSE "none"]
        /\ client = IF legacy THEN Legacy ELSE Nothing
    /\ linkedTo = [t \in ChainTokens |-> Nothing]
    /\ keyRow = [r \in Requests |-> "none"]
    /\ access = [r \in Requests |-> Nothing]
    /\ member = TRUE
    /\ step = [r \in Requests |-> "new"]
    /\ presented = [r \in Requests |-> Nothing]
    /\ grantKey = [r \in Requests |-> Nothing]
    /\ revoker = [at |-> "idle", key |-> Nothing]
    /\ removal = "idle"
    /\ unlucky = {} /\ late = {}

-----------------------------------------------------------------------------
(* A request moves from one round trip to the next.                         *)

StandsAt(r, s) == step[r] = s
Proceed(r, s) == step' = [step EXCEPT ![r] = s]
Mishap(r) == Cardinality(unlucky) < MaxTokenFaults /\ unlucky' = unlucky \cup {r}
SetChain(t, s) == chain' = [chain EXCEPT ![t] = s]
ChainOf(k) == {t \in ChainTokens : linkedTo[t] = k}
\* UPDATE ... SET revoked_at WHERE ... AND revoked_at IS NULL
RevokeAll(ts) == chain' = [t \in ChainTokens |-> IF t \in ts /\ chain[t] = "live" THEN "revoked" ELSE chain[t]]
\* UPDATE api_keys SET deleted_at ... AND deleted_at IS NULL
DeleteKeys(ks) == keyRow' = [k \in Requests |-> IF k \in ks /\ keyRow[k] = "live" THEN "deleted" ELSE keyRow[k]]

NoteSender(r) == late' = IF member THEN late ELSE late \cup {r}

-----------------------------------------------------------------------------
(* authorization_code                                                       *)

FindCode(r) ==
    /\ r \in Redeems /\ StandsAt(r, "new")
    /\ Proceed(r, IF authCode = "pending" THEN "code_member" ELSE "refused")
    /\ NoteSender(r)
    /\ UNCHANGED <<tokenDb, presented, grantKey, client, enders, unlucky>>

\* Before the code is consumed; a definite refusal consumes it.
CheckCodeMember(r) ==
    /\ StandsAt(r, "code_member")
    /\ IF member THEN Proceed(r, "consume") /\ UNCHANGED authCode
                 ELSE Proceed(r, "refused") /\ authCode' = "gone"
    /\ UNCHANGED <<chain, linkedTo, keyRow, access, member, presented, grantKey, client, enders, unlucky, late>>

\* Only the request whose DELETE removed the row goes on.
ConsumeCode_Unchecked(r) ==
    /\ StandsAt(r, "consume")
    /\ authCode' = "gone" /\ Proceed(r, "mint_key")
    /\ UNCHANGED <<chain, linkedTo, keyRow, access, member, presented, grantKey, client, enders, unlucky, late>>
ConsumeCode(r) ==
    /\ StandsAt(r, "consume")
    /\ authCode' = "gone"
    /\ Proceed(r, IF authCode = "pending" THEN "mint_key" ELSE "refused")
    /\ UNCHANGED <<chain, linkedTo, keyRow, access, member, presented, grantKey, client, enders, unlucky, late>>

MintKey(r) ==
    /\ StandsAt(r, "mint_key")
    /\ \/ /\ keyRow' = [keyRow EXCEPT ![r] = "live"]
          /\ access' = [access EXCEPT ![r] = r]
          /\ Proceed(r, "first_token") /\ UNCHANGED unlucky
       \/ Mishap(r) /\ Proceed(r, "refused") /\ UNCHANGED <<keyRow, access>>
    /\ UNCHANGED <<authCode, chain, linkedTo, member, presented, grantKey, client, enders, late>>

\* The result of this insert is not looked at.
FirstToken(r) ==
    /\ StandsAt(r, "first_token")
    /\ Proceed(r, "answer")
    /\ \/ SetChain(r, "live") /\ linkedTo' = [linkedTo EXCEPT ![r] = r] /\ UNCHANGED unlucky
       \/ Mishap(r) /\ UNCHANGED <<chain, linkedTo>>
    /\ UNCHANGED <<authCode, keyRow, access, member, presented, grantKey, client, enders, late>>

-----------------------------------------------------------------------------
(* refresh_token                                                            *)

SendRefresh(r) ==
    /\ r \in Refreshes /\ StandsAt(r, "new") /\ client # Nothing
    /\ presented' = [presented EXCEPT ![r] = client]
    /\ Proceed(r, "find_token")
    /\ NoteSender(r)
    /\ UNCHANGED <<tokenDb, grantKey, client, enders, unlucky>>

FindToken(r) ==
    /\ StandsAt(r, "find_token")
    /\ IF chain[presented[r]] = "live"
         THEN Proceed(r, "member") /\ grantKey' = [grantKey EXCEPT ![r] = linkedTo[presented[r]]]
         ELSE Proceed(r, "refused") /\ UNCHANGED grantKey
    /\ UNCHANGED <<tokenDb, presented, client, enders, unlucky, late>>

CheckGrantMember_Trusting(r) ==
    /\ StandsAt(r, "member") /\ Proceed(r, "insert")
    /\ UNCHANGED <<tokenDb, presented, grantKey, client, enders, unlucky, late>>
CheckGrantMember(r) ==
    /\ StandsAt(r, "member")
    /\ Proceed(r, IF member THEN "insert" ELSE "end_row")
    /\ UNCHANGED <<tokenDb, presented, grantKey, client, enders, unlucky, late>>

\* endChain: the row presented, the key, the rest of the chain; every write is
\* tried whatever became of the one before.
EndRow(r) ==
    /\ StandsAt(r, "end_row")
    /\ \/ RevokeAll({presented[r]}) /\ UNCHANGED unlucky
       \/ UNCHANGED chain /\ Mishap(r)
    /\ Proceed(r, IF grantKey[r] = Nothing THEN "refused" ELSE "end_key")
    /\ UNCHANGED <<authCode, linkedTo, keyRow, access, member, presented, grantKey, client, enders, late>>

EndKey(r) ==
    /\ StandsAt(r, "end_key")
    /\ \/ DeleteKeys({grantKey[r]}) /\ UNCHANGED unlucky
       \/ UNCHANGED keyRow /\ Mishap(r)
    /\ Proceed(r, "end_chain")
    /\ UNCHANGED <<authCode, chain, linkedTo, access, member, presented, grantKey, client, enders, late>>

EndChain(r) ==
    /\ StandsAt(r, "end_chain")
    /\ \/ RevokeAll(ChainOf(grantKey[r])) /\ UNCHANGED unlucky
       \/ UNCHANGED chain /\ Mishap(r)
    /\ Proceed(r, "refused")
    /\ UNCHANGED <<authCode, linkedTo, keyRow, access, member, presented, grantKey, client, enders, late>>

\* The new token first ...
InsertToken_RevokesFirst(r) ==
    /\ StandsAt(r, "insert")
    /\ chain' = [chain EXCEPT ![r] = "live", ![presented[r]] = "revoked"]
    /\ linkedTo' = [linkedTo EXCEPT ![r] = grantKey[r]]
    /\ Proceed(r, IF grantKey[r] = Nothing THEN "legacy_key" ELSE "rotate")
    /\ UNCHANGED <<authCode, keyRow, access, member, presented, grantKey, client, enders, unlucky, late>>
InsertToken(r) ==
    /\ StandsAt(r, "insert")
    /\ \/ /\ SetChain(r, "live")
          /\ linkedTo' = [linkedTo EXCEPT ![r] = grantKey[r]]
          /\ Proceed(r, IF grantKey[r] = Nothing THEN "legacy_key" ELSE "rotate")
          /\ UNCHANGED unlucky
       \/ Mishap(r) /\ Proceed(r, "refused") /\ UNCHANGED <<chain, linkedTo>>
    /\ UNCHANGED <<authCode, keyRow, access, member, presented, grantKey, client, enders, late>>

\* ... then the access token in place, unless the key has been deleted ...
Rotate_Deleted(r) ==
    /\ StandsAt(r, "rotate")
    /\ access' = [access EXCEPT ![grantKey[r]] = r]
    /\ Proceed(r, "revoke_old")
    /\ UNCHANGED <<authCode, chain, linkedTo, keyRow, member, presented, grantKey, client, enders, unlucky, late>>
Rotate(r) ==
    /\ StandsAt(r, "rotate")
    /\ \/ /\ keyRow[grantKey[r]] = "live"
          /\ access' = [access EXCEPT ![grantKey[r]] = r]
          /\ Proceed(r, "revoke_old") /\ UNCHANGED unlucky
       \/ /\ keyRow[grantKey[r]] # "live"
          /\ Proceed(r, "roll_back") /\ UNCHANGED <<access, unlucky>>
       \/ Mishap(r) /\ Proceed(r, "roll_back") /\ UNCHANGED access
    /\ UNCHANGED <<authCode, chain, linkedTo, keyRow, member, presented, grantKey, client, enders, late>>

\* ... or, on a chain that has none, a key of its own and the link to it, whose
\* failure nobody notices ...
LegacyKey(r) ==
    /\ StandsAt(r, "legacy_key")
    /\ \/ /\ keyRow' = [keyRow EXCEPT ![r] = "live"]
          /\ access' = [access EXCEPT ![r] = r]
          /\ Proceed(r, "link") /\ UNCHANGED unlucky
       \/ Mishap(r) /\ Proceed(r, "roll_back") /\ UNCHANGED <<keyRow, access>>
    /\ UNCHANGED <<authCode, chain, linkedTo, member, presented, grantKey, client, enders, late>>

Link_ToToken(r) ==
    /\ StandsAt(r, "link")
    /\ linkedTo' = [linkedTo EXCEPT ![r] = presented[r]]
    /\ Proceed(r, "revoke_old")
    /\ UNCHANGED <<authCode, chain, keyRow, access, member, presented, grantKey, client, enders, unlucky, late>>
Link(r) ==
    /\ StandsAt(r, "link")
    /\ \/ linkedTo' = [linkedTo EXCEPT ![r] = r] /\ UNCHANGED unlucky
       \/ Mishap(r) /\ UNCHANGED linkedTo
    /\ Proceed(r, "revoke_old")
    /\ UNCHANGED <<authCode, chain, keyRow, access, member, presented, grantKey, client, enders, late>>

RollBack(r) ==
    /\ StandsAt(r, "roll_back")
    /\ \/ SetChain(r, "revoked") /\ UNCHANGED unlucky
       \/ UNCHANGED chain /\ Mishap(r)
    /\ Proceed(r, "refused")
    /\ UNCHANGED <<authCode, linkedTo, keyRow, access, member, presented, grantKey, client, enders, late>>

\* ... and the old token last.  A failure here is let be.
RevokeOld(r) ==
    /\ StandsAt(r, "revoke_old")
    /\ Proceed(r, "answer")
    /\ \/ SetChain(presented[r], "revoked") /\ UNCHANGED unlucky
       \/ Mishap(r) /\ UNCHANGED chain
    /\ UNCHANGED <<authCode, linkedTo, keyRow, access, member, presented, grantKey, client, enders, late>>

\* The answer arrives, or does not.
Answer(r) ==
    /\ StandsAt(r, "answer")
    /\ \/ Proceed(r, "answered") /\ client' = r /\ UNCHANGED unlucky
       \/ Mishap(r) /\ Proceed(r, "lost") /\ UNCHANGED client
    /\ UNCHANGED <<tokenDb, presented, grantKey, enders, late>>

Over == {"new", "refused", "answered", "lost", "died"}

Die(r) ==
    /\ step[r] \notin Over
    /\ Mishap(r)
    /\ Proceed(r, IF StandsAt(r, "answer") THEN "lost" ELSE "died")
    /\ UNCHANGED <<tokenDb, presented, grantKey, client, enders, late>>

-----------------------------------------------------------------------------
(* Others end the connection.                                               *)

\* revokeGrantByToken and the dashboard button: the key, then its whole chain.
RevokeKey ==
    /\ revoker.at = "idle"
    /\ \E k \in Requests :
        /\ keyRow[k] = "live"
        /\ DeleteKeys({k})
        /\ revoker' = [at |-> "chain", key |-> k]
    /\ UNCHANGED <<authCode, chain, linkedTo, access, member, requestVars, client, removal, unlucky, late>>

RevokeChain ==
    /\ revoker.at = "chain"
    /\ RevokeAll(ChainOf(revoker.key))
    /\ revoker' = [revoker EXCEPT !.at = "done"]
    /\ UNCHANGED <<authCode, linkedTo, keyRow, access, member, requestVars, client, removal, unlucky, late>>

\* removeWorkspaceMember: keys, codes, chains, and the membership last.
RemoveKeys ==
    /\ removal = "idle" /\ removal' = "codes"
    /\ DeleteKeys(Requests)
    /\ UNCHANGED <<authCode, chain, linkedTo, access, member, requestVars, client, revoker, unlucky, late>>

RemoveCodes ==
    /\ removal = "codes" /\ removal' = "chains"
    /\ authCode' = "gone"
    /\ UNCHANGED <<chain, linkedTo, keyRow, access, member, requestVars, client, revoker, unlucky, late>>

RemoveChains ==
    /\ removal = "chains" /\ removal' = "membership"
    /\ RevokeAll(ChainTokens)
    /\ UNCHANGED <<authCode, linkedTo, keyRow, access, member, requestVars, client, revoker, unlucky, late>>

RemoveMembership ==
    /\ removal = "membership" /\ removal' = "done"
    /\ member' = FALSE
    /\ UNCHANGED <<authCode, chain, linkedTo, keyRow, access, requestVars, client, revoker, unlucky, late>>

RequestStep(r) ==
    \/ FindCode(r) \/ CheckCodeMember(r) \/ ConsumeCode(r) \/ MintKey(r) \/ FirstToken(r)
    \/ SendRefresh(r) \/ FindToken(r) \/ CheckGrantMember(r) \/ EndRow(r) \/ EndKey(r) \/ EndChain(r)
    \/ InsertToken(r) \/ Rotate(r) \/ LegacyKey(r) \/ Link(r) \/ RollBack(r) \/ RevokeOld(r)
    \/ Answer(r) \/ Die(r)

TokenNext ==
    \/ \E r \in Requests : RequestStep(r)
    \/ RevokeKey \/ RevokeChain
    \/ RemoveKeys \/ RemoveCodes \/ RemoveChains \/ RemoveMembership

TokenSpec == TokenInit /\ [][TokenNext]_tokenVars

-----------------------------------------------------------------------------
(* Properties.                                                              *)

TokenTypeOK ==
    /\ authCode \in {"pending", "gone"} /\ member \in BOOLEAN
    /\ chain \in [ChainTokens -> {"none", "live", "revoked"}]
    /\ linkedTo \in [ChainTokens -> Requests \cup {Nothing}]
    /\ keyRow \in [Requests -> {"none", "live", "deleted"}]
    /\ \A k \in Requests : access[k] = Nothing <=> keyRow[k] = "none"
    /\ client \in ChainTokens \cup {Nothing}
    /\ \A r \in Requests : presented[r] \in ChainTokens \cup {Nothing} /\ grantKey[r] \in Requests \cup {Nothing}
    /\ Cardinality(unlucky) <= MaxTokenFaults

\* Nobody set out to end the connection.
Undisturbed == revoker.at = "idle" /\ removal = "idle"

\* A connection is never left holding a token the server does not recognise:
\* the refresh token the client would use next is live, or the answer with its
\* replacement is on the way, whatever refreshes overlap and whatever dies or
\* fails between two writes.  The exceptions are the answer that is lost after
\* the old token was revoked, and the first token, whose failed insert nobody
\* looks at.
ClientKeepsAToken ==
    (Undisturbed /\ client # Nothing)
        => \/ chain[client] = "live"
           \/ \E r \in Refreshes : presented[r] = client /\ chain[r] = "live" /\ StandsAt(r, "answer")
           \/ \E r \in unlucky : StandsAt(r, "lost") \/ r \in Redeems

\* A code opens one connection, however many requests redeem it at once.
CodeMintsOnce == Cardinality({r \in Redeems : keyRow[r] # "none"}) <= 1

\* A revoked connection stays dead: once both writes of a revocation are done
\* its key is deleted for good, and no token of its chain is live but one whose
\* request is on its way to roll it back, or died or failed there, and the first token of
\* the key, when the request that minted both was still under way.
RevokedStaysDead ==
    revoker.at = "done"
        => /\ keyRow[revoker.key] = "deleted"
           /\ \A t \in ChainOf(revoker.key) :
                chain[t] = "live" =>
                    \/ t = revoker.key
                    \/ step[t] \in {"rotate", "roll_back"}
                    \/ t \in unlucky /\ step[t] \in {"refused", "died"}

\* Someone removed from the workspace is cut off: no request sent after the
\* removal is ever answered with a token, not even on a token or a code that a
\* request still under way minted behind the removal's back.
ExMemberIsCutOff == \A r \in late : step[r] \notin {"answered", "answer"}

\* Access ends when it was ended, and begins once per code.
AccessIsBounded == TokenTypeOK /\ CodeMintsOnce /\ RevokedStaysDead /\ ExMemberIsCutOff

\* Both sides of the chain at once: what ends access does not fall short, and what
\* renews it does not cut a client off.
TokensHold == AccessIsBounded /\ ClientKeepsAToken

=============================================================================
