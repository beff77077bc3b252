------------------------------ MODULE CctvSync ------------------------------
(***************************************************************************)
(* The list of cameras kept from an external service:                      *)
(* internal/cctv/manager.go over internal/client/api_client.go.            *)
(* Start signs in and fetches the list; ManualSync signs in, asks the      *)
(* service to refresh its list, and fetches it.  Several may run at once,  *)
(* over one APIClient whose tokens no lock guards.                         *)
(* The service is external: its list changes when a sync refreshes it and  *)
(* is numbered by how often it did.  An answer that is accepted may name   *)
(* no credentials, or no cameras.                                          *)
(***************************************************************************)
EXTENDS Naturals

CONSTANTS
    CctvRuns,       \* calls of Start or ManualSync
    CctvMaxLists    \* bound: refreshes of the service's list

CctvNoList == 0

VARIABLES
    cctvList,     \* CCTVManager.cctvs: the number of the list it is from
    cctvCreds,    \* what APIClient has of "cookies" and "token"
    cctvServer,   \* the service's list
    cctvPc,       \* where each call is
    cctvAnswer,   \* the list a call has been sent
    cctvShown,    \* the newest list there has been in cctvs (history)
    cctvOverlap   \* two calls have been fetching at once (history)

CctvVars == <<cctvList, cctvCreds, cctvServer, cctvPc, cctvAnswer, cctvShown, cctvOverlap>>

CctvInit ==
    /\ cctvList = CctvNoList /\ cctvCreds = {} /\ cctvServer = 1
    /\ cctvPc = [r \in CctvRuns |-> "idle"]
    /\ cctvAnswer = [r \in CctvRuns |-> CctvNoList]
    /\ cctvShown = CctvNoList /\ cctvOverlap = FALSE

CctvGoto(r, place) == cctvPc' = [cctvPc EXCEPT ![r] = place]

\* SignIn: the request fails or is refused, or the cookies of the answer replace the old ones.
CctvSignIn(r, accepted, cookies) ==
    /\ cctvPc[r] = "idle"
    /\ cctvCreds' = IF accepted THEN (cctvCreds \ {"cookies"}) \cup cookies ELSE cctvCreds
    /\ CctvGoto(r, IF accepted THEN "body" ELSE "failed")
    /\ UNCHANGED <<cctvList, cctvServer, cctvAnswer, cctvShown, cctvOverlap>>

\* The body of the answer: not read, no JSON, or a token, empty if it names none.  Without
\* any credentials the sign-in fails; Start goes on to fetch.
CctvTakeToken(r, read, parsed, token, manual) ==
    /\ cctvPc[r] = "body"
    /\ cctvCreds' = IF read /\ parsed THEN (cctvCreds \ {"token"}) \cup token ELSE cctvCreds
    /\ CctvGoto(r, IF ~read \/ cctvCreds' = {} THEN "failed" ELSE IF manual THEN "signed" ELSE "ask")
    /\ UNCHANGED <<cctvList, cctvServer, cctvAnswer, cctvShown, cctvOverlap>>

\* SyncCCTVs and GetCCTVs look at the credentials again: another sign-in may have dropped them.
CctvNotSigned(r) ==
    /\ cctvPc[r] \in {"signed", "ask"} /\ cctvCreds = {}
    /\ CctvGoto(r, "failed")
    /\ UNCHANGED <<cctvList, cctvCreds, cctvServer, cctvAnswer, cctvShown, cctvOverlap>>

\* SyncCCTVs: the request times out or is refused, or the service refreshes its list.
CctvSyncServer(r, answered) ==
    /\ cctvPc[r] = "signed" /\ cctvCreds # {}
    /\ \/ cctvServer < CctvMaxLists /\ cctvServer' = cctvServer + 1
       \/ ~answered /\ UNCHANGED cctvServer
    /\ CctvGoto(r, IF answered THEN "ask" ELSE "failed")
    /\ UNCHANGED <<cctvList, cctvCreds, cctvAnswer, cctvShown, cctvOverlap>>

\* Mutant: the list is cleared before the request.
CctvClearFirst(r) == cctvList' = CctvNoList

CctvBeforeAsk(r) == UNCHANGED cctvList

\* GetCCTVs: the request fails, or the service answers: with its list, or with an object
\* that has no 'data', which counts as a list without cameras.
CctvAsk(r, answer) ==
    /\ cctvPc[r] = "ask" /\ cctvCreds # {}
    /\ CctvBeforeAsk(r)
    /\ cctvAnswer' = [cctvAnswer EXCEPT ![r] = IF answer = "list" THEN cctvServer ELSE CctvNoList]
    /\ cctvOverlap' = (cctvOverlap \/ \E q \in CctvRuns \ {r} : cctvPc[q] = "replace")
    /\ CctvGoto(r, IF answer = "failed" THEN "failed" ELSE "replace")
    /\ UNCHANGED <<cctvCreds, cctvServer, cctvShown>>

\* fetchCCTVs replaces the list under the mutex, whatever replaced it meanwhile.
CctvReplace(r) ==
    /\ cctvPc[r] = "replace"
    /\ cctvList' = cctvAnswer[r]
    /\ cctvShown' = IF cctvAnswer[r] > cctvShown THEN cctvAnswer[r] ELSE cctvShown
    /\ CctvGoto(r, "done")
    /\ UNCHANGED <<cctvCreds, cctvServer, cctvAnswer, cctvOverlap>>

CctvCall(r) ==
    \/ \E accepted \in BOOLEAN, cookies \in SUBSET {"cookies"} : CctvSignIn(r, accepted, cookies)
    \/ \E read, parsed, manual \in BOOLEAN, token \in SUBSET {"token"} :
         CctvTakeToken(r, read, parsed, token, manual)
    \/ CctvNotSigned(r)
    \/ \E answered \in BOOLEAN : CctvSyncServer(r, answered)
    \/ \E answer \in {"list", "none", "failed"} : CctvAsk(r, answer)
    \/ CctvReplace(r)

CctvNext == \E r \in CctvRuns : CctvCall(r)

CctvSpec == CctvInit /\ [][CctvNext]_CctvVars

----------------------------------------------------------------------------
(* Properties.                                                             *)

(* The cameras listed become none at all only when the service has         *)
(* answered a fetch that way, whatever fails in a sign-in, a sync or a     *)
(* fetch; and they are never again those of an older list than there has   *)
(* been - unless two calls were fetching at once: then the answers may be  *)
(* applied in either order.                                                *)
CctvNeverOlder ==
    [][cctvList' # cctvList =>
         \/ cctvOverlap \/ cctvList' >= cctvShown
         \/ cctvList' = CctvNoList /\ \E r \in CctvRuns : cctvPc[r] = "replace" /\ cctvAnswer[r] = CctvNoList
      ]_CctvVars
=============================================================================
