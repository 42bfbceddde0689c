------------------------------ MODULE MCPortal ------------------------------
(* Portal in four instances, and PortalSession, in one run; the first state   *)
(* chooses.                                                                   *)
EXTENDS Portal, PortalSession

CONSTANTS F, B, N, G, T1 \* two founders, an applicant, F's guest and the tab of Portal

VARIABLE part

MCMspOf == [a \in Account |-> IF a = G THEN F ELSE a]

\* What the instance is about: the accounts and pages that are used, what others
\* write, and how many requests and transactions of others there are.
Parts ==
  [voting |-> [account |-> {F}, pages |-> {"governance", "error"},
               writes |-> ProposalId, requests |-> 2, elsewhere |-> 2],
   proposing |-> [account |-> {F, N}, pages |-> {"governance", "propose", "error"},
                  writes |-> ProposalId, requests |-> 1, elsewhere |-> 2],
   issuing |-> [account |-> {F, G}, pages |-> {"issue", "certificate", "error"},
                writes |-> CertificateId, requests |-> 2, elsewhere |-> 1],
   reading |-> [account |-> {F, G},
                pages |-> {"dashboard", "institutions", "institution", "verify", "proposal",
                           "certificate", "governance"},
                writes |-> ProposalId \cup CertificateId, requests |-> 0, elsewhere |-> 2]]

InPart ==
  /\ part \in DOMAIN Parts
  /\ session \in Parts[part].account
  /\ Len(request) <= Parts[part].requests /\ elsewhere <= Parts[part].elsewhere
  /\ Items(proposals) \cup Issued \subseteq Parts[part].writes
  /\ part = "voting" => \A p \in ProposalId : proposals[p] # None /\ proposals[p].proposedBy = B
  /\ view[T1].page.name \in Parts[part].pages

IdleSession ==
  /\ INSTITUTIONS = {} /\ issued = <<>> /\ expired = {} /\ cookie = Null
  /\ tab = [t \in BrowserTab |-> [at |-> "page", path |-> "/login", account |-> Null]]

IdlePortal ==
  /\ Init
  /\ Items(proposals) = {} /\ view[T1] = Rendering(ProposePage, F, NoNotice)

MCInit ==
  \/ IdleSession /\ Init /\ part \in DOMAIN Parts /\ InPart
  \/ SessionInit /\ IdlePortal /\ part = "session"

MCNext ==
  \/ Next /\ part \in DOMAIN Parts /\ UNCHANGED <<sessionVars, part>> /\ InPart'
  \/ SessionNext /\ part = "session" /\ UNCHANGED <<vars, part>>

MCSpec == MCInit /\ [][MCNext]_<<sessionVars, vars, part>> /\ Fairness /\ SessionFairness
=============================================================================
