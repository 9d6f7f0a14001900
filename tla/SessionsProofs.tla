--------------------------- MODULE SessionsProofs ---------------------------
(***************************************************************************)
(* For every number of requests in flight and every bound: the type        *)
(* invariant, what the epoch guarantees, and that a consumed reset link    *)
(* stays closed.                                                           *)
(***************************************************************************)
EXTENDS Sessions, TLAPS

(* What a request slot holds after loading and after finishing is a request. *)
LEMMA LoadTyped ==
  ASSUME TypeOK, NEW c \in Slots, NEW op \in Ops, NEW s \in Snapshot, NEW n \in Nat,
         NEW l \in Link, Load(c, op, s, n, l)
  PROVE  req' \in [Slots -> Request]
<1>1. [op |-> op, snap |-> s, at |-> n, link |-> l] \in Request
  BY DEF Request
<1> QED
  BY <1>1 DEF TypeOK, Load

LEMMA FinishTyped ==
  ASSUME TypeOK, NEW c \in Slots, Finish(c)
  PROVE  req' \in [Slots -> Request]
<1>1. Blank \in Request
  BY DEF Blank, NoSnapshot, NoLink, Request, Ops, Snapshot, Link
<1> QED
  BY <1>1 DEF TypeOK, Finish

(* What is read of the stored row, and what is minted from it, is typed.    *)
LEMMA ReadTyped == ASSUME TypeOK PROVE Columns \in Snapshot /\ EpochColumn \in Snapshot
<1>1. account.ver \in Nat /\ account.pw \in Nat /\ account.dated \in BOOLEAN
      /\ account.deleted \in BOOLEAN
  BY DEF TypeOK, Row
<1> QED
  BY <1>1 DEF Columns, EpochColumn, NoSnapshot, Snapshot

LEMMA MintTyped ==
  ASSUME TypeOK, NEW v \in Nat, NEW n \in Nat, Mint(v, n)
  PROVE  tokens' \subseteq Token
BY DEF TypeOK, Mint, Token

(* The writes the handlers make keep the row typed.                         *)
LEMMA RowWrite ==
  ASSUME NEW row \in Row, NEW v \in Nat, NEW h \in Nat, NEW p \in Nat, NEW b \in BOOLEAN
  PROVE  /\ [row EXCEPT !.ver = v] \in Row
         /\ [row EXCEPT !.pw = p, !.hash = h, !.dated = FALSE] \in Row
         /\ [row EXCEPT !.banned = b] \in Row
         /\ [row EXCEPT !.deleted = TRUE] \in Row
BY DEF Row

LEMMA WriteTyped ==
  ASSUME TypeOK, NEW v \in Nat, NEW p \in Nat, NEW b \in BOOLEAN
  PROVE  /\ [account EXCEPT !.ver = v] \in Row
         /\ [account EXCEPT !.pw = p, !.hash = @ + 1, !.dated = FALSE] \in Row
         /\ [NewPassword(account) EXCEPT !.ver = v] \in Row
         /\ [account EXCEPT !.banned = b] \in Row
         /\ [account EXCEPT !.deleted = TRUE] \in Row
<1>1. account \in Row /\ chosen + 1 \in Nat /\ account.hash + 1 \in Nat
  BY DEF TypeOK, Row
<1>2. NewPassword(account) \in Row
  BY <1>1, RowWrite DEF NewPassword
<1> QED
  BY <1>1, <1>2, RowWrite

(* The type invariant holds in every behaviour of the sessions of one       *)
(* account.                                                                 *)
THEOREM TypeCorrect == Spec => []TypeOK
<1>1. Init => TypeOK
  <2> SUFFICES ASSUME Init PROVE TypeOK
    OBVIOUS
  <2>1. FirstRow \in Row /\ [FirstRow EXCEPT !.dated = FALSE] \in Row
    BY DEF FirstRow, Row
  <2>2. Blank \in Request
    BY DEF Blank, NoSnapshot, NoLink, Request, Ops, Snapshot, Link
  <2>3. account \in Row
    BY <2>1 DEF Init
  <2>4. req \in [Slots -> Request]
    BY <2>2 DEF Init
  <2> QED
    BY <2>3, <2>4 DEF Init, TypeOK
<1>2. TypeOK /\ [Next]_vars => TypeOK'
  <2> SUFFICES ASSUME TypeOK, [Next]_vars PROVE TypeOK'
    OBVIOUS
  <2>m. account.ver \in Nat /\ account.hash \in Nat /\ revs \in Nat /\ NoLink \in Link
        /\ NoSnapshot \in Snapshot
    BY DEF TypeOK, Row, NoLink, Link, NoSnapshot, Snapshot
  <2>r. \A c \in Slots : req[c].snap.ver \in Nat /\ req[c].snap.pw \in Nat /\ req[c].at \in Nat
                        /\ req[c].link \in Link
    BY DEF TypeOK, Request, Snapshot
  <2>o. \A c \in Slots : [req EXCEPT ![c].op = "reissue"] \in [Slots -> Request]
    BY DEF TypeOK, Request, Ops
  <2>b. BumpedEpoch(account) \in Nat /\ \A c \in Slots : BumpedEpoch(req[c].snap) \in Nat
    BY <2>m, <2>r DEF BumpedEpoch
  <2>1. CASE SsoSignIn \/ Impersonate
    BY <2>1, <2>m, MintTyped DEF SsoSignIn, Impersonate, TypeOK
  <2>2. CASE RequestReset
    BY <2>2, <2>m DEF RequestReset, Fingerprint, TypeOK, Link
  <2>3. ASSUME NEW b \in BOOLEAN, SetBanned(b) \/ SoftDelete PROVE TypeOK'
    <3>1. account' \in Row
      BY <2>3, <2>m, WriteTyped DEF SetBanned, SoftDelete
    <3> QED
      BY <2>3, <3>1 DEF SetBanned, SoftDelete, TypeOK
  <2>4. ASSUME NEW t \in tokens, Refresh(t) \/ Expire(t) PROVE TypeOK'
    <3>1. tokens' \subseteq Token
      BY <2>4, <2>m, MintTyped DEF Refresh, Expire, TypeOK, Token
    <3> QED
      BY <2>4, <3>1 DEF Refresh, Expire, TypeOK
  <2>5. ASSUME NEW l \in links, ExpireLink(l) PROVE TypeOK'
    BY <2>5 DEF ExpireLink, TypeOK
  <2>6. ASSUME NEW c \in Slots, LoginLoad(c) PROVE TypeOK'
    <3>1. req' \in [Slots -> Request]
      BY <2>6, <2>m, ReadTyped, LoadTyped DEF LoginLoad, Ops
    <3> QED
      BY <2>6, <3>1 DEF LoginLoad, TypeOK
  <2>7. ASSUME NEW c \in Slots, LoginFinish(c) PROVE TypeOK'
    <3>1. account' \in Row
      BY <2>7, <2>r, <2>m, WriteTyped DEF LoginFinish, Upgraded, TypeOK
    <3>2. tokens' \subseteq Token
      BY <2>7, <2>r, MintTyped DEF LoginFinish, TypeOK
    <3>3. req' \in [Slots -> Request]
      BY <2>7, FinishTyped DEF LoginFinish
    <3> QED
      BY <2>7, <3>1, <3>2, <3>3 DEF LoginFinish, TypeOK
  <2>8. ASSUME NEW c \in Slots, LogoutAllCommit(c) \/ RevokeCommit(c) PROVE TypeOK'
    <3>1. account' \in Row
      BY <2>8, <2>b, <2>m, WriteTyped DEF LogoutAllCommit, RevokeCommit
    <3>2. req' \in [Slots -> Request]
      BY <2>8, FinishTyped DEF LogoutAllCommit, RevokeCommit
    <3>3. lost' \in BOOLEAN
      BY <2>8 DEF LogoutAllCommit, RevokeCommit, TypeOK
    <3>4. /\ tokens' \subseteq Token /\ links' \subseteq Link /\ used' \subseteq Link
          /\ chosen' \in Nat /\ revs' \in Nat
      BY <2>8 DEF LogoutAllCommit, RevokeCommit, TypeOK
    <3> QED
      BY <3>1, <3>2, <3>3, <3>4 DEF TypeOK
  <2>9. ASSUME NEW c \in Slots, ChangeCommit(c) \/ ResetCommit(c) PROVE TypeOK'
    <3>1. account' \in Row
      BY <2>9, <2>b, <2>m, WriteTyped DEF ChangeCommit, ResetCommit
    <3>2. req' \in [Slots -> Request]
      BY <2>9, <2>o DEF ChangeCommit, ResetCommit
    <3>3. used' \subseteq Link
      BY <2>9, <2>r DEF ChangeCommit, ResetCommit, TypeOK
    <3>4. lost' \in BOOLEAN
      BY <2>9 DEF ChangeCommit, ResetCommit, TypeOK
    <3>5. tokens' \subseteq Token /\ links' \subseteq Link /\ chosen' \in Nat /\ revs' \in Nat
      BY <2>9 DEF ChangeCommit, ResetCommit, TypeOK
    <3> QED
      BY <3>1, <3>2, <3>3, <3>4, <3>5 DEF TypeOK
  <2>10. ASSUME NEW c \in Slots, Reissue(c) PROVE TypeOK'
    <3>1. tokens' \subseteq Token /\ req' \in [Slots -> Request]
      BY <2>10, <2>m, MintTyped, FinishTyped DEF Reissue
    <3> QED
      BY <2>10, <3>1 DEF Reissue, TypeOK
  <2>11. ASSUME NEW c \in Slots, RevokeLoad(c) \/ Abandon(c) PROVE TypeOK'
    <3>1. req' \in [Slots -> Request]
      BY <2>11, <2>m, ReadTyped, LoadTyped, FinishTyped DEF RevokeLoad, Abandon, Ops
    <3> QED
      BY <2>11, <3>1 DEF RevokeLoad, Abandon, TypeOK
  <2>12. ASSUME NEW c \in Slots, NEW t \in tokens, LogoutAllLoad(c, t) \/ ChangeLoad(c, t)
         PROVE TypeOK'
    <3>1. req' \in [Slots -> Request]
      BY <2>12, <2>m, LoadTyped DEF LogoutAllLoad, ChangeLoad, Ops
    <3> QED
      BY <2>12, <3>1 DEF LogoutAllLoad, ChangeLoad, TypeOK
  <2>13. ASSUME NEW c \in Slots, NEW l \in links, ResetLoad(c, l) PROVE TypeOK'
    <3>1. req' \in [Slots -> Request]
      BY <2>13, <2>m, ReadTyped, LoadTyped DEF ResetLoad, Ops, TypeOK
    <3> QED
      BY <2>13, <3>1 DEF ResetLoad, TypeOK
  <2>14. CASE UNCHANGED vars
    BY <2>14 DEF vars, TypeOK
  <2> QED
    BY <2>1, <2>2, <2>3, <2>4, <2>5, <2>6, <2>7, <2>8, <2>9, <2>10, <2>11,
       <2>12, <2>13, <2>14 DEF Next
<1> QED
  BY <1>1, <1>2, PTL DEF Spec

----------------------------------------------------------------------------
(* A claim minted from a read with n revocations before it: it is current   *)
(* exactly when no revocation followed the read, and while no epoch write   *)
(* was lost the epoch counts the revocations.                               *)
Minted(v, n) ==
  /\ n <= revs
  /\ n = revs => v = account.ver
  /\ ~lost => v = n

(* The strengthening: tokens already minted, and the snapshots logins in    *)
(* flight will mint from.                                                   *)
EpochInv ==
  /\ ~lost => account.ver = revs
  /\ \A t \in tokens : Minted(t.ver, t.at)
  /\ \A c \in Slots : req[c].op = "login" => Minted(req[c].snap.ver, req[c].at)

(* A step that leaves the stored epoch and the history alone, and mints     *)
(* only current claims, keeps the invariant.                                *)
LEMMA QuietStep ==
  ASSUME TypeOK, TypeOK', EpochInv,
         account'.ver = account.ver, revs' = revs, lost' = lost,
         \A t \in tokens' : t \in tokens \/ Minted(t.ver, t.at),
         \A c \in Slots : req'[c].op = "login" =>
            \/ req'[c] = req[c]
            \/ Minted(req'[c].snap.ver, req'[c].at)
  PROVE  EpochInv'
BY DEF EpochInv, Minted

(* A committed revocation: the epoch moves by one from the value the commit *)
(* was computed from, and unless that was the stored one the loss is        *)
(* recorded; nothing is minted by the step.                                 *)
LEMMA RevokingStep ==
  ASSUME TypeOK, TypeOK', EpochInv, NEW v \in Nat,
         account'.ver = v + 1, revs' = revs + 1,
         lost' = (lost \/ account.ver # v),
         tokens' = tokens,
         \A c \in Slots : req'[c].op = "login" => req'[c] = req[c]
  PROVE  EpochInv'
<1> USE DEF TypeOK, Request, Token, Snapshot, Row
<1>1. ~lost' => account'.ver = revs'
  BY DEF EpochInv
<1>2. ASSUME NEW t \in tokens' PROVE Minted(t.ver, t.at)'
  BY DEF EpochInv, Minted
<1>3. ASSUME NEW c \in Slots, req'[c].op = "login" PROVE Minted(req[c].snap.ver, req[c].at)'
  BY <1>3 DEF EpochInv, Minted
<1> QED
  BY <1>1, <1>2, <1>3 DEF EpochInv, Minted

LEMMA EpochStep == TypeOK /\ TypeOK' /\ EpochInv /\ [Next]_vars => EpochInv'
<1> SUFFICES ASSUME TypeOK, TypeOK', EpochInv, [Next]_vars PROVE EpochInv'
  OBVIOUS
<1>m. \A n \in Nat : n = revs => Minted(account.ver, n)
  BY DEF EpochInv, Minted
<1>1. CASE SsoSignIn \/ Impersonate
  <2>1. \A t \in tokens' : t \in tokens \/ Minted(t.ver, t.at)
    BY <1>1, <1>m DEF SsoSignIn, Impersonate, Mint, TypeOK
  <2> QED
    BY <1>1, <2>1, QuietStep DEF SsoSignIn, Impersonate
<1>2. CASE RequestReset \/ SoftDelete
  BY <1>2, QuietStep DEF RequestReset, SoftDelete, TypeOK, Row
<1>3. ASSUME NEW b \in BOOLEAN, SetBanned(b) PROVE EpochInv'
  BY <1>3, QuietStep DEF SetBanned, TypeOK, Row
<1>4. ASSUME NEW t \in tokens, Refresh(t) \/ Expire(t) PROVE EpochInv'
  <2>1. \A u \in tokens' : u \in tokens \/ Minted(u.ver, u.at)
    BY <1>4 DEF Refresh, Expire, Accepts, Mint, EpochInv
  <2> QED
    BY <1>4, <2>1, QuietStep DEF Refresh, Expire
<1>5. ASSUME NEW l \in links, ExpireLink(l) PROVE EpochInv'
  BY <1>5, QuietStep DEF ExpireLink
<1>6. ASSUME NEW c \in Slots, LoginLoad(c) PROVE EpochInv'
  <2>1. \A d \in Slots : req'[d] = req[d] \/ Minted(req'[d].snap.ver, req'[d].at)
    BY <1>6, <1>m DEF LoginLoad, Load, Columns, TypeOK
  <2> QED
    BY <1>6, <2>1, QuietStep DEF LoginLoad
<1>7. ASSUME NEW c \in Slots, LoginFinish(c) PROVE EpochInv'
  <2>1. account'.ver = account.ver
    BY <1>7 DEF LoginFinish, Upgraded, TypeOK, Row
  <2>2. \A t \in tokens' : t \in tokens \/ Minted(t.ver, t.at)
    BY <1>7 DEF LoginFinish, Mint, EpochInv
  <2>3. \A d \in Slots : req'[d].op = "login" => req'[d] = req[d]
    BY <1>7 DEF LoginFinish, Finish, Blank, TypeOK
  <2> QED
    BY <1>7, <2>1, <2>2, <2>3, QuietStep DEF LoginFinish
<1>8. ASSUME NEW c \in Slots, LogoutAllCommit(c) \/ ChangeCommit(c) PROVE EpochInv'
  <2>1. account'.ver = account.ver + 1 /\ account.ver \in Nat
    BY <1>8 DEF LogoutAllCommit, ChangeCommit, NewPassword, BumpedEpoch, TypeOK, Row
  <2>2. \A d \in Slots : req'[d].op = "login" => req'[d] = req[d]
    BY <1>8 DEF LogoutAllCommit, ChangeCommit, Finish, Blank, TypeOK, Request
  <2>3. revs' = revs + 1 /\ lost' = lost /\ tokens' = tokens
    BY <1>8 DEF LogoutAllCommit, ChangeCommit
  <2> QED
    BY <2>1, <2>2, <2>3, RevokingStep DEF TypeOK
<1>9. ASSUME NEW c \in Slots, ResetCommit(c) \/ RevokeCommit(c) PROVE EpochInv'
  <2>1. account'.ver = req[c].snap.ver + 1 /\ req[c].snap.ver \in Nat
    BY <1>9 DEF ResetCommit, RevokeCommit, NewPassword, BumpedEpoch, TypeOK, Row, Request, Snapshot
  <2>2. \A d \in Slots : req'[d].op = "login" => req'[d] = req[d]
    BY <1>9 DEF ResetCommit, RevokeCommit, Finish, Blank, TypeOK, Request
  <2>3. revs' = revs + 1 /\ tokens' = tokens /\ lost' = (lost \/ account.ver # req[c].snap.ver)
    BY <1>9 DEF ResetCommit, RevokeCommit
  <2> QED
    BY <2>1, <2>2, <2>3, RevokingStep DEF TypeOK
<1>10. ASSUME NEW c \in Slots, Reissue(c) PROVE EpochInv'
  <2>1. \A t \in tokens' : t \in tokens \/ Minted(t.ver, t.at)
    BY <1>10, <1>m DEF Reissue, Mint, TypeOK
  <2>2. \A d \in Slots : req'[d].op = "login" => req'[d] = req[d]
    BY <1>10 DEF Reissue, Finish, Blank, TypeOK
  <2> QED
    BY <1>10, <2>1, <2>2, QuietStep DEF Reissue
<1>11. ASSUME NEW c \in Slots,
              \/ RevokeLoad(c) \/ Abandon(c)
              \/ \E t \in tokens : LogoutAllLoad(c, t) \/ ChangeLoad(c, t)
              \/ \E l \in links : ResetLoad(c, l)
       PROVE EpochInv'
  <2>1. \A d \in Slots : req'[d].op = "login" => req'[d] = req[d]
    BY <1>11 DEF RevokeLoad, Abandon, LogoutAllLoad, ChangeLoad, ResetLoad, Load, Finish, Blank, TypeOK
  <2>2. account' = account /\ revs' = revs /\ lost' = lost /\ tokens' = tokens
    BY <1>11 DEF RevokeLoad, Abandon, LogoutAllLoad, ChangeLoad, ResetLoad
  <2> QED
    BY <2>1, <2>2, QuietStep
<1>12. CASE UNCHANGED vars
  BY <1>12, QuietStep DEF vars
<1> QED
  BY <1>1, <1>2, <1>3, <1>4, <1>5, <1>6, <1>7, <1>8, <1>9, <1>10, <1>11, <1>12 DEF Next

(* While no absolute epoch write was lost, a token minted from a read older *)
(* than the last committed revocation is never accepted again.              *)
THEOREM RevocationHolds == Spec => []RevokedUnlessLost
<1>1. Init => EpochInv
  BY DEF Init, EpochInv, FirstRow, Blank
<1>2. TypeOK /\ EpochInv => RevokedUnlessLost
  BY DEF TypeOK, Token, EpochInv, Minted, RevokedUnlessLost, RevokedStayRevoked
<1> QED
  BY <1>1, <1>2, EpochStep, TypeCorrect, PTL DEF Spec

(* Nobody is signed out without a revocation, lost writes or not.           *)
THEOREM SessionsSurvive == Spec => []CurrentSessionsSurvive
<1>1. Init => EpochInv
  BY DEF Init, EpochInv, FirstRow, Blank
<1>2. EpochInv => CurrentSessionsSurvive
  BY DEF EpochInv, Minted, CurrentSessionsSurvive
<1> QED
  BY <1>1, <1>2, EpochStep, TypeCorrect, PTL DEF Spec

----------------------------------------------------------------------------
(* Hashes are numbered in the order they are written, so a consumed link    *)
(* was signed over one that has been replaced for good.                     *)
LinkInv ==
  /\ \A l \in used : l.hash < account.hash
  /\ \A c \in Slots : req[c].op = "reset" => req[c].link.hash <= account.hash

LEMMA LinkStep == TypeOK /\ LinkInv /\ [Next]_vars => LinkInv'
<1> SUFFICES ASSUME TypeOK, LinkInv, [Next]_vars PROVE LinkInv'
  OBVIOUS
<1> USE DEF TypeOK, Row, Link, Request, LinkInv, Finish, Load, Blank
<1>1. CASE SsoSignIn \/ Impersonate \/ RequestReset \/ SoftDelete
  BY <1>1 DEF SsoSignIn, Impersonate, RequestReset, SoftDelete
<1>2. ASSUME NEW b \in BOOLEAN, SetBanned(b) PROVE LinkInv'
  BY <1>2 DEF SetBanned
<1>3. CASE \E t \in tokens : Refresh(t) \/ Expire(t)
  BY <1>3 DEF Refresh, Expire
<1>4. CASE \E l \in links : ExpireLink(l)
  BY <1>4 DEF ExpireLink
<1>5. ASSUME NEW c \in Slots,
             \/ LoginLoad(c) \/ LogoutAllCommit(c) \/ Reissue(c)
             \/ RevokeLoad(c) \/ RevokeCommit(c) \/ Abandon(c)
             \/ \E t \in tokens : LogoutAllLoad(c, t) \/ ChangeLoad(c, t)
      PROVE LinkInv'
  <2>1. account'.hash = account.hash /\ used' = used
    BY <1>5 DEF LoginLoad, LogoutAllCommit, Reissue, RevokeLoad, RevokeCommit, Abandon,
                LogoutAllLoad, ChangeLoad
  <2>2. \A d \in Slots : req'[d].op = "reset" => req'[d] = req[d]
    BY <1>5 DEF LoginLoad, LogoutAllCommit, Reissue, RevokeLoad, RevokeCommit, Abandon,
                LogoutAllLoad, ChangeLoad
  <2> QED
    BY <2>1, <2>2
<1>6. ASSUME NEW c \in Slots, LoginFinish(c) PROVE LinkInv'
  <2>1. account'.hash = account.hash \/ account'.hash = account.hash + 1
    BY <1>6 DEF LoginFinish, Upgraded
  <2> QED
    BY <1>6, <2>1 DEF LoginFinish
<1>7. ASSUME NEW c \in Slots, ChangeCommit(c) PROVE LinkInv'
  <2>1. account'.hash = account.hash + 1
    BY <1>7 DEF ChangeCommit, NewPassword
  <2> QED
    BY <1>7, <2>1 DEF ChangeCommit
<1>8. ASSUME NEW c \in Slots, ResetCommit(c) PROVE LinkInv'
  <2>1. account'.hash = account.hash + 1
    BY <1>8 DEF ResetCommit, NewPassword
  <2>2. \A l \in used' : l.hash < account'.hash
    BY <1>8, <2>1 DEF ResetCommit
  <2> QED
    BY <1>8, <2>1, <2>2 DEF ResetCommit
<1>9. ASSUME NEW c \in Slots, NEW l \in links, ResetLoad(c, l) PROVE LinkInv'
  BY <1>9 DEF ResetLoad, Opens, Fingerprint
<1>10. CASE UNCHANGED vars
  BY <1>10 DEF vars
<1> QED
  BY <1>1, <1>2, <1>3, <1>4, <1>5, <1>6, <1>7, <1>8, <1>9, <1>10 DEF Next

(* A link that has set a password never opens again, not even when a lost   *)
(* epoch write brings back the epoch it was signed over.                    *)
THEOREM ConsumedLinks == Spec => []ConsumedLinkStaysClosed
<1>1. Init => LinkInv
  BY DEF Init, LinkInv, Blank
<1>2. TypeOK /\ LinkInv => ConsumedLinkStaysClosed
  BY DEF TypeOK, Row, Link, LinkInv, ConsumedLinkStaysClosed, Opens, Fingerprint
<1> QED
  BY <1>1, <1>2, LinkStep, TypeCorrect, PTL DEF Spec
=============================================================================
