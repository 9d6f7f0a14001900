------------------------------ MODULE Sessions ------------------------------
(***************************************************************************)
(* One account's sessions: the token epoch (users.token_version), the      *)
(* password hash, the stateless JWT pairs minted from them and the reset   *)
(* links signed over them.  A request loads the row, works on that         *)
(* snapshot across its awaits, and commits; other requests commit in       *)
(* between.  Two ways of moving the epoch live side by side in the code:   *)
(* logout-all and change-password let the database add one to the stored   *)
(* value, a password reset and the admin's revoke write the snapshot plus  *)
(* one.                                                                    *)
(***************************************************************************)
EXTENDS Naturals, FiniteSets

CONSTANTS
  Slots,      \* requests in flight at once
  MaxRevs,    \* bound: revocations committed in a behaviour
  MaxHash,    \* bound: password hashes written in a behaviour
  MaxTokens,  \* bound: distinct pairs clients hold at once
  MaxLinks    \* bound: reset links outstanding at once

ASSUME BoundsAreNatural ==
  MaxRevs \in Nat /\ MaxHash \in Nat /\ MaxTokens \in Nat /\ MaxLinks \in Nat

VARIABLES
  account,    \* the users row
  tokens,     \* unexpired JWT pairs clients hold, both halves carry the same claims;
              \* at = revocations committed when the row they were minted from was read
  links,      \* reset links mailed out
  req,        \* what each request slot holds between two awaits
  chosen,     \* history: passwords chosen so far, the latest is number `chosen`
  revs,       \* history: revocations committed
  lost,       \* history: an absolute epoch write landed on a row that had moved
  used        \* history: links some committed reset was performed with

vars == <<account, tokens, links, req, chosen, revs, lost, used>>

Row == [ver : Nat, hash : Nat, pw : Nat, dated : BOOLEAN,
        banned : BOOLEAN, deleted : BOOLEAN]
Snapshot == [ver : Nat, pw : Nat, dated : BOOLEAN, deleted : BOOLEAN]
Token == [ver : Nat, at : Nat]
Link == [ver : Nat, hash : Nat]
Ops == {"idle", "login", "logoutAll", "change", "reset", "revoke", "reissue"}
Request == [op : Ops, snap : Snapshot, at : Nat, link : Link]

FirstRow == [ver |-> 0, hash |-> 0, pw |-> 0, dated |-> TRUE,
             banned |-> FALSE, deleted |-> FALSE]
NoSnapshot == [ver |-> 0, pw |-> 0, dated |-> FALSE, deleted |-> FALSE]
NoLink == [ver |-> 0, hash |-> 0]
Blank == [op |-> "idle", snap |-> NoSnapshot, at |-> 0, link |-> NoLink]

Init ==
  /\ account \in {FirstRow, [FirstRow EXCEPT !.dated = FALSE]}
  /\ tokens = {} /\ links = {} /\ used = {}
  /\ req = [c \in Slots |-> Blank]
  /\ chosen = 0 /\ revs = 0 /\ lost = FALSE

----------------------------------------------------------------------------
(* What the code asks of a token or a link, against the stored row.         *)

Inactive(row) == row.banned \/ row.deleted

FingerprintEpochOnly(row) == [ver |-> row.ver, hash |-> 0]
Fingerprint(row) == [ver |-> row.ver, hash |-> row.hash]

AcceptsAnyEpoch(t) == ~Inactive(account)
Accepts(t) == ~Inactive(account) /\ t.ver = account.ver

Opens(l) == ~Inactive(account) /\ l = Fingerprint(account)

Mint(v, n) ==
  LET minted == tokens \cup {[ver |-> v, at |-> n]} IN
  /\ Cardinality(minted) <= MaxTokens
  /\ tokens' = minted

(* A request keeps of the row it loaded what it uses after its next await.  *)
Load(c, op, snap, n, l) ==
  /\ req[c].op = "idle"
  /\ req' = [req EXCEPT ![c] = [op |-> op, snap |-> snap, at |-> n, link |-> l]]

Columns == [ver |-> account.ver, pw |-> account.pw,
            dated |-> account.dated, deleted |-> account.deleted]
EpochColumn == [NoSnapshot EXCEPT !.ver = account.ver]

Finish(c) == req' = [req EXCEPT ![c] = Blank]

NewPassword(row) == [row EXCEPT !.pw = chosen + 1, !.hash = @ + 1, !.dated = FALSE]

----------------------------------------------------------------------------
(* Signing in.                                                              *)

LoginLoad(c) ==
  /\ Load(c, "login", Columns, revs, NoLink)
  /\ UNCHANGED <<account, tokens, links, chosen, revs, lost, used>>

UpgradedWholeRow(snap) ==
  IF snap.dated THEN [account EXCEPT !.pw = snap.pw, !.hash = @ + 1, !.dated = FALSE,
                                     !.ver = snap.ver, !.deleted = snap.deleted]
                ELSE account

(* The password verified, an outdated hash is replaced by a fresh hash of   *)
(* the same text; only that column is written.                              *)
Upgraded(snap) ==
  IF snap.dated THEN [account EXCEPT !.pw = snap.pw, !.hash = @ + 1, !.dated = FALSE]
                ELSE account

LoginFinish(c) ==
  LET snap == req[c].snap IN
  /\ req[c].op = "login"
  /\ snap.dated => account.hash < MaxHash
  /\ account' = Upgraded(snap)
  /\ IF snap.deleted THEN UNCHANGED tokens ELSE Mint(snap.ver, req[c].at)
  /\ Finish(c)
  /\ UNCHANGED <<links, chosen, revs, lost, used>>

(* Apple or Google: the row is re-read after the commit and the pair minted *)
(* from that read.                                                          *)
SsoSignIn ==
  /\ Mint(account.ver, revs)
  /\ UNCHANGED <<account, links, req, chosen, revs, lost, used>>

Refresh(t) ==
  /\ Accepts(t)
  /\ Mint(account.ver, t.at)
  /\ UNCHANGED <<account, links, req, chosen, revs, lost, used>>

Expire(t) ==
  /\ tokens' = tokens \ {t}
  /\ UNCHANGED <<account, links, req, chosen, revs, lost, used>>

Impersonate ==
  /\ ~account.deleted
  /\ Mint(account.ver, revs)
  /\ UNCHANGED <<account, links, req, chosen, revs, lost, used>>

----------------------------------------------------------------------------
(* Revoking.                                                                *)

LogoutAllLoad(c, t) ==
  /\ Accepts(t) /\ Load(c, "logoutAll", NoSnapshot, 0, NoLink)
  /\ UNCHANGED <<account, tokens, links, chosen, revs, lost, used>>

LoweredEpoch(row) == row.ver - 1
BumpedEpoch(row) == row.ver + 1

LogoutAllCommit(c) ==
  /\ req[c].op = "logoutAll" /\ revs < MaxRevs
  /\ account' = [account EXCEPT !.ver = BumpedEpoch(account)]
  /\ revs' = revs + 1
  /\ Finish(c)
  /\ UNCHANGED <<tokens, links, chosen, lost, used>>

ChangeLoad(c, t) ==
  /\ Accepts(t) /\ Load(c, "change", NoSnapshot, 0, NoLink)
  /\ UNCHANGED <<account, tokens, links, chosen, revs, lost, used>>

ChangeCommit(c) ==
  /\ req[c].op = "change" /\ revs < MaxRevs /\ account.hash < MaxHash
  /\ account' = [NewPassword(account) EXCEPT !.ver = BumpedEpoch(account)]
  /\ chosen' = chosen + 1 /\ revs' = revs + 1
  /\ req' = [req EXCEPT ![c].op = "reissue"]
  /\ UNCHANGED <<tokens, links, lost, used>>

(* The committed row is refreshed from the database, a fresh pair minted.   *)
Reissue(c) ==
  /\ req[c].op = "reissue"
  /\ Mint(account.ver, revs)
  /\ Finish(c)
  /\ UNCHANGED <<account, links, chosen, revs, lost, used>>

RequestReset ==
  /\ ~Inactive(account)
  /\ links' = links \cup {Fingerprint(account)} /\ Cardinality(links') <= MaxLinks
  /\ UNCHANGED <<account, tokens, req, chosen, revs, lost, used>>

ExpireLink(l) ==
  /\ links' = links \ {l}
  /\ UNCHANGED <<account, tokens, req, chosen, revs, lost, used>>

ResetLoad(c, l) ==
  /\ Opens(l) /\ Load(c, "reset", EpochColumn, 0, l)
  /\ UNCHANGED <<account, tokens, links, chosen, revs, lost, used>>

ResetCommit(c) ==
  /\ req[c].op = "reset" /\ revs < MaxRevs /\ account.hash < MaxHash
  /\ account' = [NewPassword(account) EXCEPT !.ver = BumpedEpoch(req[c].snap)]
  /\ chosen' = chosen + 1 /\ revs' = revs + 1
  /\ lost' = (lost \/ account.ver # req[c].snap.ver)
  /\ used' = used \cup {req[c].link}
  /\ req' = [req EXCEPT ![c].op = "reissue"]
  /\ UNCHANGED <<tokens, links>>

RevokeLoad(c) ==
  /\ Load(c, "revoke", EpochColumn, 0, NoLink)
  /\ UNCHANGED <<account, tokens, links, chosen, revs, lost, used>>

RevokeCommit(c) ==
  /\ req[c].op = "revoke" /\ revs < MaxRevs
  /\ account' = [account EXCEPT !.ver = BumpedEpoch(req[c].snap)]
  /\ revs' = revs + 1
  /\ lost' = (lost \/ account.ver # req[c].snap.ver)
  /\ Finish(c)
  /\ UNCHANGED <<tokens, links, chosen, used>>

----------------------------------------------------------------------------
(* The admin's switches, and a request that dies between two awaits.        *)

SetBanned(b) ==
  /\ account' = [account EXCEPT !.banned = b]
  /\ UNCHANGED <<tokens, links, req, chosen, revs, lost, used>>

SoftDelete ==
  /\ account' = [account EXCEPT !.deleted = TRUE]
  /\ UNCHANGED <<tokens, links, req, chosen, revs, lost, used>>

Abandon(c) ==
  /\ req[c].op # "idle" /\ Finish(c)
  /\ UNCHANGED <<account, tokens, links, chosen, revs, lost, used>>

Next ==
  \/ SsoSignIn \/ Impersonate \/ RequestReset \/ SoftDelete
  \/ \E b \in BOOLEAN : SetBanned(b)
  \/ \E t \in tokens : Refresh(t) \/ Expire(t)
  \/ \E l \in links : ExpireLink(l)
  \/ \E c \in Slots :
       \/ LoginLoad(c) \/ LoginFinish(c)
       \/ LogoutAllCommit(c) \/ ChangeCommit(c) \/ Reissue(c)
       \/ ResetCommit(c) \/ RevokeLoad(c) \/ RevokeCommit(c) \/ Abandon(c)
       \/ \E t \in tokens : LogoutAllLoad(c, t) \/ ChangeLoad(c, t)
       \/ \E l \in links : ResetLoad(c, l)

Spec == Init /\ [][Next]_vars

----------------------------------------------------------------------------
(* The type invariant. *)
TypeOK ==
  /\ account \in Row
  /\ tokens \subseteq Token
  /\ links \subseteq Link /\ used \subseteq Link
  /\ req \in [Slots -> Request]
  /\ chosen \in Nat /\ revs \in Nat /\ lost \in BOOLEAN

(* What logout-all, change-password, reset and the admin's revoke promise:  *)
(* once a revocation has committed, no token minted from an earlier read of *)
(* the row is ever accepted again.  The code breaks it: the two commits     *)
(* that write "snapshot + 1" can leave the epoch where it was, or move it   *)
(* back to a value an already revoked token carries.                        *)
RevokedStayRevoked == \A t \in tokens : t.at < revs => t.ver # account.ver

(* The same promise, as the code does keep it: as long as no absolute epoch *)
(* write landed on a row that had moved since its snapshot, a revoked token *)
(* stays dead through every interleaving of logins, refreshes, password     *)
(* changes, resets and revocations, login pairs minted from a snapshot      *)
(* older than the revocation included.                                      *)
RevokedUnlessLost == ~lost => RevokedStayRevoked

(* Nobody is signed out without a revocation: a pair minted from a read     *)
(* that no revocation has followed still carries the stored epoch, whatever *)
(* hash upgrades, bans and unbans committed meanwhile.                      *)
CurrentSessionsSurvive == \A t \in tokens : t.at = revs => t.ver = account.ver

(* A reset link that has set a password never opens again, even if the      *)
(* epoch it was signed over comes back: the fingerprint also covers the     *)
(* hash, and no hash is written twice.                                      *)
ConsumedLinkStaysClosed == \A l \in used : ~Opens(l)
=============================================================================
