------------------------------ MODULE MC_Workspace ------------------------------
(* Small instances of the components of Workspace.  A behaviour is one of  *)
(* a single component: part, chosen at the start, says of which.           *)
EXTENDS Workspace, TLC

VARIABLE part

customerVars == vars
branchVars == <<branch, branchRequest, company>>
siteVars == <<site, page, blocks, areas, siteRequest, updates, pages>>
chatVars == <<listener, message, posting, unsent, reading, messageEdit, socket, view,
              shown, unseen, messageEdits, crashes>>
tenancyVars == <<setting, attribute, served, scopes>>
lockVars == <<now, tenant, states, login, logins, streak>>
accountVars == <<row, accountRequest, made, confirmed, crossed, restored>>
staffVars == <<organization, roles, member, staffRequest, abandoned, staffEdits, signupCrashes>>
keyVars == <<key, keyRequest, revoked, keyRestored, keyEdits>>
workspaceVars == <<part, customerVars, branchVars, siteVars, chatVars, tenancyVars,
                   lockVars, accountVars, staffVars, keyVars>>

WorkspaceInit ==
  /\ part \in {"customers", "branches", "site", "chat", "tenancy", "lock", "account",
               "staff", "keys"}
  /\ Init /\ Directory!Init /\ Site!Init /\ Thread!Init /\ Conn!Init
  /\ Lock!Init /\ Account!Init /\ Staff!Init /\ Keys!Init
  /\ part # "lock" => tenant
  /\ part # "chat" => listener = "courier"

CustomersNext ==
  /\ part = "customers" /\ Next
  /\ edits' + deletes' <= 1  \* the bound: an edit or a deletion
  /\ UNCHANGED <<part, branchVars, siteVars, chatVars, tenancyVars, lockVars,
                 accountVars, staffVars, keyVars>>

BranchesNext ==
  /\ part = "branches" /\ Directory!Next
  /\ UNCHANGED <<part, customerVars, siteVars, chatVars, tenancyVars, lockVars,
                 accountVars, staffVars, keyVars>>

SiteNext ==
  /\ part = "site" /\ Site!Next
  /\ UNCHANGED <<part, customerVars, branchVars, chatVars, tenancyVars, lockVars,
                 accountVars, staffVars, keyVars>>

ChatNext ==
  /\ part = "chat" /\ Thread!Next
  /\ messageEdits' + crashes' <= 1  \* the bound: one edit, deletion, death or failure
  /\ UNCHANGED <<part, customerVars, branchVars, siteVars, tenancyVars, lockVars,
                 accountVars, staffVars, keyVars>>

TenancyNext ==
  /\ part = "tenancy" /\ Conn!Next
  /\ UNCHANGED <<part, customerVars, branchVars, siteVars, chatVars, lockVars,
                 accountVars, staffVars, keyVars>>

LockNext ==
  /\ part = "lock" /\ Lock!Next
  /\ UNCHANGED <<part, customerVars, branchVars, siteVars, chatVars, tenancyVars,
                 accountVars, staffVars, keyVars>>

AccountNext ==
  /\ part = "account" /\ Account!Next
  /\ UNCHANGED <<part, customerVars, branchVars, siteVars, chatVars, tenancyVars,
                 lockVars, staffVars, keyVars>>

StaffNext ==
  /\ part = "staff" /\ Staff!Next
  /\ UNCHANGED <<part, customerVars, branchVars, siteVars, chatVars, tenancyVars,
                 lockVars, accountVars, keyVars>>

KeysNext ==
  /\ part = "keys" /\ Keys!Next
  /\ UNCHANGED <<part, customerVars, branchVars, siteVars, chatVars, tenancyVars,
                 lockVars, accountVars, staffVars>>

WorkspaceNext ==
  \/ CustomersNext \/ BranchesNext \/ SiteNext \/ ChatNext \/ TenancyNext
  \/ LockNext \/ AccountNext \/ StaffNext \/ KeysNext

WorkspaceSpec == WorkspaceInit /\ [][WorkspaceNext]_workspaceVars

Symmetry == Permutations(Workers)
===============================================================================
