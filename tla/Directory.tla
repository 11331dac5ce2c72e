------------------------------ MODULE Directory ------------------------------
(***************************************************************************)
(* The directory of tenants, domains, accounts, aliases, catch-all routes, *)
(* shared mailboxes and tenant administrators, edited by the handlers of   *)
(* webadmin and read by the mail server through SQL of its own.            *)
(*                                                                         *)
(*   internal/admin/handlers.go     the handlers and what they admit       *)
(*   internal/admin/sql_store.go    their statements                       *)
(*   internal/render/               the queries of Postfix and Dovecot     *)
(*   internal/webmail/sql_store.go  the mailboxes webmail offers           *)
(*                                                                         *)
(* A request is one step, but for the creation of a domain, whose shared   *)
(* mailboxes are further statements without a transaction.  A request that *)
(* is refused, or whose statement breaks a key, changes nothing and is no  *)
(* step.  Rows of tenants, domains and users are never removed, so their   *)
(* id is their place in the table.                                         *)
(***************************************************************************)
EXTENDS Naturals, Sequences

CONSTANTS
    DomainNames,
    Locals,        \* local parts
    SystemLocals,  \* the shared mailboxes of every new domain, in order
    Super,         \* the administrator of the configuration
    Elsewhere,     \* an address on another server
    MaxListed,     \* LIMIT of the lists of domains and users
    MaxTenants,    \* bound: rows of each table
    MaxDomains,
    MaxUsers,
    MaxEdits       \* bound: requests that change something

Addresses == Locals \X DomainNames

ASSUME DirectoryAssumptions ==
    /\ SystemLocals \in Seq(Locals)
    /\ \A i, j \in DOMAIN SystemLocals : SystemLocals[i] = SystemLocals[j] => i = j
    /\ {MaxListed, MaxTenants, MaxDomains, MaxUsers, MaxEdits} \subseteq Nat
    /\ MaxTenants # 0 /\ MaxDomains # 0
    /\ Super \notin Addresses

VARIABLES
    tenantRows, \* tenants: status, and whether it has a tenant_policies row
    domainRows, \* domains: tenant, name, status
    userRows,   \* users: tenant, domain, local part, type, status, and
                \* whether a password is stored
    aliasRows,  \* aliases: domain, source, destination
    catchRows,  \* catch_all_routes: domain, destination, status
    shareRows,  \* shared_mailbox_permissions: mailbox, user, rights
    grantRows,  \* tenant_admins: tenant, user, role, status
    creating,   \* the domain being created and its mailboxes still to insert
    mailOf,     \* <<directory of a mailbox, account mail was accepted for>>
    renamed,    \* directories of accounts that were renamed
    edits       \* requests so far

routes == <<aliasRows, catchRows, shareRows, grantRows>>
accounts == <<tenantRows, domainRows, userRows, creating, mailOf, renamed>>
directoryVars == <<accounts, routes, edits>>

Tenants == DOMAIN tenantRows
Domains == DOMAIN domainRows
Users == DOMAIN userRows

AddressOf(u) == <<userRows[u].local, domainRows[userRows[u].domain].name>>
AliasAddress(a) == <<a.local, domainRows[a.domain].name>>

TenantRow == [status : {"active", "suspended"}, policy : BOOLEAN]
UserRow == [tenant : 1..MaxTenants, domain : 1..MaxDomains, local : Locals,
            kind : {"user", "shared"}, status : {"active", "locked", "disabled"},
            password : BOOLEAN]
DomainRow == [tenant : 1..MaxTenants, name : DomainNames,
              status : {"pending", "active", "disabled"}]
Rights == SUBSET {"read", "send_as"}

NoDomain == [domain |-> 0, tenant |-> 0, left |-> << >>]

-----------------------------------------------------------------------------
(* Who may do what.                                                        *)

\* The grants of the address a session was opened for, read anew for every
\* request.
Grants(who) ==
    {g \in grantRows : /\ AddressOf(g.user) = who
                       /\ g.status = "active"
                       /\ userRows[g.user].status = "active"
                       /\ tenantRows[g.tenant].status = "active"}

Administrators == {Super} \cup {a \in Addresses : Grants(a) # {}}

CanWriteTenant(who, t) ==
    \/ who = Super
    \/ \E g \in Grants(who) : g.tenant = t /\ g.role = "tenant_admin"

\* A tenant administrator's domain or account is looked up in the list that
\* the pages show: only the newest rows are found.
ListDomains == {d \in Domains : d + MaxListed > Len(domainRows)}
ListUsers == {u \in Users : u + MaxListed > Len(userRows)}

RequireDomainWrite(who, d) ==
    who = Super \/ (d \in ListDomains /\ CanWriteTenant(who, domainRows[d].tenant))

RequireUserWrite(who, u) ==
    who = Super \/ (u \in ListUsers /\ CanWriteTenant(who, userRows[u].tenant))

\* A request of an administrator.
Request(who) == /\ who \in Administrators
                /\ edits < MaxEdits
                /\ edits' = edits + 1

-----------------------------------------------------------------------------
(* The keys of the tables.                                                 *)

NameFree(name, d) == \A e \in Domains \ {d} : domainRows[e].name # name

\* Variant: a disabled account gives its address back.
AddressFreeOfActive(domain, local, u) ==
    \A v \in Users \ {u} : \/ userRows[v].status = "disabled"
                           \/ <<userRows[v].domain, userRows[v].local>> # <<domain, local>>

AddressFree(domain, local, u) ==
    \A v \in Users \ {u} : <<userRows[v].domain, userRows[v].local>> # <<domain, local>>

InsertUser(row) ==
    /\ row.tenant \in Tenants
    /\ row.domain \in Domains
    /\ Len(userRows) < MaxUsers
    /\ AddressFree(row.domain, row.local, 0)
    /\ userRows' = Append(userRows, row)

-----------------------------------------------------------------------------
(* Tenants.                                                                *)

\* Tenant and policy are two statements; the second may fail.
InsertTenant ==
    /\ Len(tenantRows) < MaxTenants
    /\ \E policy \in BOOLEAN :
         tenantRows' = Append(tenantRows, [status |-> "active", policy |-> policy])

CreateTenant(who) ==
    /\ who = Super /\ Request(who)
    /\ InsertTenant

SetTenantStatus(t, status) ==
    tenantRows' = [tenantRows EXCEPT ![t].status = status]

UpdateTenant(who) ==
    /\ who = Super /\ Request(who)
    /\ \E t \in Tenants, status \in {"active", "suspended"} : SetTenantStatus(t, status)

DeleteTenant(who) ==
    /\ who = Super /\ Request(who)
    /\ \E t \in Tenants : SetTenantStatus(t, "suspended")

UpsertPolicy(t) == tenantRows' = [tenantRows EXCEPT ![t].policy = TRUE]

UpdateTenantPolicy(who) ==
    /\ Request(who)
    /\ \E t \in Tenants : CanWriteTenant(who, t) /\ UpsertPolicy(t)

-----------------------------------------------------------------------------
(* Domains.                                                                *)

InsertDomain(t, name) ==
    /\ Len(domainRows) < MaxDomains
    /\ NameFree(name, 0)
    /\ domainRows' = Append(domainRows,
                            [tenant |-> t, name |-> name, status |-> "active"])

CreateDomain(who) ==
    /\ Request(who)
    /\ creating = NoDomain
    /\ \E t \in Tenants, name \in DomainNames :
         /\ CanWriteTenant(who, t)
         /\ InsertDomain(t, name)
         /\ creating' = [domain |-> Len(domainRows) + 1, tenant |-> t,
                         left |-> SystemLocals]

\* One of the shared mailboxes of the domain being created.
CreateSystemMailbox ==
    /\ creating.left # << >>
    /\ InsertUser([tenant |-> creating.tenant, domain |-> creating.domain,
                   local |-> Head(creating.left), kind |-> "shared",
                   status |-> "active", password |-> FALSE])
    /\ creating' = [creating EXCEPT !.left = Tail(@)]

\* All are inserted; or one failed, and the domain stays without the rest.
CreateDomainReturns ==
    /\ creating # NoDomain
    /\ creating' = NoDomain
    /\ UNCHANGED <<tenantRows, domainRows, userRows, routes, mailOf, renamed, edits>>

\* A change of name leaves the directories of the domain's mailboxes behind.
SetDomain(d, row) ==
    /\ NameFree(row.name, d)
    /\ domainRows' = [domainRows EXCEPT ![d] = row]
    /\ renamed' = IF row.name = domainRows[d].name THEN renamed
                  ELSE renamed \cup {AddressOf(u) : u \in {v \in Users : userRows[v].domain = d}}

UpdateDomain(who) ==
    /\ Request(who)
    /\ \E d \in Domains, row \in DomainRow :
         /\ row.tenant \in Tenants
         /\ RequireDomainWrite(who, d)
         /\ CanWriteTenant(who, row.tenant)
         /\ SetDomain(d, row)

DisableDomain(d) == /\ domainRows' = [domainRows EXCEPT ![d].status = "disabled"]
                    /\ renamed' = renamed

DeleteDomain(who) ==
    /\ Request(who)
    /\ \E d \in Domains : RequireDomainWrite(who, d) /\ DisableDomain(d)

-----------------------------------------------------------------------------
(* Accounts.                                                               *)

\* A user needs a password; a shared mailbox may be given one.
CreateUser(who) ==
    /\ Request(who)
    /\ \E row \in UserRow : /\ row.status = "active"
                            /\ row.kind = "user" => row.password
                            /\ CanWriteTenant(who, row.tenant)
                            /\ InsertUser(row)
    /\ renamed' = renamed

\* An empty password keeps the stored one; a shared mailbox loses it.
NewPassword(u, row) == row.kind = "user" /\ (row.password \/ userRows[u].password)

SetUser(u, row) ==
    /\ row.tenant \in Tenants
    /\ row.domain \in Domains
    /\ AddressFree(row.domain, row.local, u)
    /\ userRows' = [userRows EXCEPT ![u] = [row EXCEPT !.password = NewPassword(u, row)]]
    /\ renamed' = IF <<row.domain, row.local>> = <<userRows[u].domain, userRows[u].local>>
                  THEN renamed ELSE renamed \cup {AddressOf(u)}

UpdateUser(who) ==
    /\ Request(who)
    /\ \E u \in Users, row \in UserRow : /\ RequireUserWrite(who, u)
                                         /\ CanWriteTenant(who, row.tenant)
                                         /\ SetUser(u, row)

DisableUser(u) == /\ userRows' = [userRows EXCEPT ![u].status = "disabled"]
                  /\ renamed' = renamed

DeleteUser(who) ==
    /\ Request(who)
    /\ \E u \in Users : RequireUserWrite(who, u) /\ DisableUser(u)

-----------------------------------------------------------------------------
(* Routes, rights and roles.  Only the administrator of the configuration   *)
(* removes them.                                                           *)

InsertAlias(a) == /\ a \notin aliasRows
                  /\ aliasRows' = aliasRows \cup {a}

AliasRow == [domain : Domains, local : Locals, to : Addresses \cup {Elsewhere}]

CreateAlias(who) ==
    /\ Request(who)
    /\ \E t \in Tenants, a \in AliasRow : CanWriteTenant(who, t) /\ InsertAlias(a)

ReplaceAlias(old, a) == /\ a \notin aliasRows \ {old}
                        /\ aliasRows' = (aliasRows \ {old}) \cup {a}

UpdateAlias(who) ==
    /\ Request(who)
    /\ \E t \in Tenants, old \in aliasRows, a \in AliasRow :
         CanWriteTenant(who, t) /\ ReplaceAlias(old, a)

DeleteAlias(who) ==
    /\ who = Super /\ Request(who)
    /\ \E a \in aliasRows : aliasRows' = aliasRows \ {a}

CatchRow == [domain : Domains, to : Addresses \cup {Elsewhere},
             status : {"active", "disabled"}]

\* A domain has one route: a second one replaces it and is active.
UpsertCatchAll(c) ==
    catchRows' = {x \in catchRows : x.domain # c.domain} \cup {[c EXCEPT !.status = "active"]}

CreateCatchAllRoute(who) ==
    /\ Request(who)
    /\ \E t \in Tenants, c \in CatchRow : CanWriteTenant(who, t) /\ UpsertCatchAll(c)

ReplaceCatchAll(old, c) ==
    /\ \A x \in catchRows \ {old} : x.domain # c.domain
    /\ catchRows' = (catchRows \ {old}) \cup {c}

UpdateCatchAllRoute(who) ==
    /\ Request(who)
    /\ \E t \in Tenants, old \in catchRows, c \in CatchRow :
         CanWriteTenant(who, t) /\ ReplaceCatchAll(old, c)

DeleteCatchAllRoute(who) ==
    /\ who = Super /\ Request(who)
    /\ \E c \in catchRows : catchRows' = catchRows \ {c}

ShareRow == [mailbox : Users, user : Users, rights : Rights]

UpsertShare(p) ==
    shareRows' = {x \in shareRows : <<x.mailbox, x.user>> # <<p.mailbox, p.user>>} \cup {p}

CreateSharedMailboxPermission(who) ==
    /\ Request(who)
    /\ \E t \in Tenants, p \in ShareRow : CanWriteTenant(who, t) /\ UpsertShare(p)

ReplaceShare(old, p) ==
    /\ \A x \in shareRows \ {old} : <<x.mailbox, x.user>> # <<p.mailbox, p.user>>
    /\ shareRows' = (shareRows \ {old}) \cup {p}

UpdateSharedMailboxPermission(who) ==
    /\ Request(who)
    /\ \E t \in Tenants, old \in shareRows, p \in ShareRow :
         CanWriteTenant(who, t) /\ ReplaceShare(old, p)

DeleteSharedMailboxPermission(who) ==
    /\ who = Super /\ Request(who)
    /\ \E p \in shareRows : shareRows' = shareRows \ {p}

GrantRow == [tenant : Tenants, user : Users, role : {"tenant_admin", "read_only"},
             status : {"active", "disabled"}]

UpsertGrant(g) ==
    grantRows' = {x \in grantRows : <<x.tenant, x.user>> # <<g.tenant, g.user>>} \cup {g}

CreateTenantAdmin(who) ==
    /\ who = Super /\ Request(who)
    /\ \E g \in GrantRow : UpsertGrant(g)

DeleteTenantAdmin(who) ==
    /\ who = Super /\ Request(who)
    /\ \E g \in grantRows : grantRows' = grantRows \ {g}

-----------------------------------------------------------------------------
(* The mail server's queries.                                              *)

LiveDomain(d) == domainRows[d].status \in {"pending", "active"}

\* Postfix: the mailboxes at an address.
MailboxMap(a) == {u \in Users : /\ AddressOf(u) = a
                                /\ userRows[u].status = "active"
                                /\ LiveDomain(userRows[u].domain)}

\* Postfix: where mail for an address is sent instead.
AliasMap(a) ==
    LET here == {x \in aliasRows : AliasAddress(x) = a}
        taken == {u \in Users : AddressOf(u) = a /\ userRows[u].status = "active"}
    IN  {x.to : x \in here} \cup
        {c.to : c \in {r \in catchRows : /\ domainRows[r.domain].name = a[2]
                                         /\ r.status = "active"
                                         /\ taken = {} /\ here = {}}}

\* Postfix: who may use an address as sender.
OwnLogin(a) == {AddressOf(u) : u \in {v \in MailboxMap(a) : userRows[v].kind = "user"}}

\* Variant: only within a tenant.
SharedLoginsOfTenant(a) ==
    {AddressOf(p.user) :
       p \in {q \in shareRows : /\ q.mailbox \in MailboxMap(a)
                                /\ userRows[q.mailbox].kind = "shared"
                                /\ q.user \in MailboxMap(AddressOf(q.user))
                                /\ userRows[q.user].kind = "user"
                                /\ userRows[q.user].tenant = userRows[q.mailbox].tenant
                                /\ "send_as" \in q.rights}}

SharedLogins(a) ==
    {AddressOf(p.user) :
       p \in {q \in shareRows : /\ q.mailbox \in MailboxMap(a)
                                /\ userRows[q.mailbox].kind = "shared"
                                /\ q.user \in MailboxMap(AddressOf(q.user))
                                /\ userRows[q.user].kind = "user"
                                /\ "send_as" \in q.rights}}

SenderLogins(a) ==
    OwnLogin(a) \cup SharedLogins(a) \cup {x.to : x \in {y \in aliasRows : AliasAddress(y) = a}}

\* Dovecot: who may sign in with a password, and whose mailbox is opened.
\* (The second factors that keep a password from being enough are those of
\* MailboxAccess.)
PassDB(a) == {u \in Users : /\ AddressOf(u) = a
                            /\ userRows[u].kind = "user"
                            /\ userRows[u].status = "active"
                            /\ LiveDomain(userRows[u].domain)
                            /\ userRows[u].password}

UserDB(a) == {u \in Users : /\ AddressOf(u) = a
                            /\ userRows[u].status = "active"
                            /\ LiveDomain(userRows[u].domain)}

\* Webmail: the shared mailboxes that an account may open.
ListMailboxes(u) ==
    {p \in shareRows : /\ p.user = u
                       /\ "read" \in p.rights
                       /\ userRows[p.mailbox].kind = "shared"
                       /\ userRows[p.mailbox].status = "active"
                       /\ LiveDomain(userRows[p.mailbox].domain)}

\* Mail for an address is put into the mailbox's directory.
Deliver == /\ \E a \in Addresses : /\ AliasMap(a) = {}
                                   /\ MailboxMap(a) # {}
                                   /\ mailOf' = mailOf \cup {<<a, u>> : u \in MailboxMap(a)}
           /\ UNCHANGED <<tenantRows, domainRows, userRows, routes, creating, renamed, edits>>

-----------------------------------------------------------------------------

FirstRow(local, personal) ==
    [tenant |-> 1, domain |-> 1, local |-> local, status |-> "active",
     kind |-> IF personal THEN "user" ELSE "shared", password |-> personal]

\* A server as it is after its first tenant, domain and account.
DirectoryInit ==
    /\ tenantRows = <<[status |-> "active", policy |-> TRUE]>>
    /\ \E name \in DomainNames :
         domainRows = <<[tenant |-> 1, name |-> name, status |-> "active"]>>
    /\ \E local \in Locals \ {SystemLocals[i] : i \in DOMAIN SystemLocals} :
         userRows = Append([i \in DOMAIN SystemLocals |-> FirstRow(SystemLocals[i], FALSE)],
                           FirstRow(local, TRUE))
    /\ aliasRows = {} /\ catchRows = {} /\ shareRows = {} /\ grantRows = {}
    /\ creating = NoDomain
    /\ mailOf = {}
    /\ renamed = {}
    /\ edits = 0

DirectoryNext ==
    \/ /\ \E who \in Administrators :
            \/ CreateTenant(who) \/ UpdateTenant(who) \/ DeleteTenant(who)
            \/ UpdateTenantPolicy(who)
       /\ UNCHANGED <<domainRows, userRows, routes, creating, mailOf, renamed>>
    \/ /\ \E who \in Administrators : CreateDomain(who)
       /\ UNCHANGED <<tenantRows, userRows, routes, mailOf, renamed>>
    \/ /\ CreateSystemMailbox
       /\ UNCHANGED <<tenantRows, domainRows, routes, mailOf, renamed, edits>>
    \/ CreateDomainReturns
    \/ /\ \E who \in Administrators : UpdateDomain(who) \/ DeleteDomain(who)
       /\ UNCHANGED <<tenantRows, userRows, routes, creating, mailOf>>
    \/ /\ \E who \in Administrators : CreateUser(who) \/ UpdateUser(who) \/ DeleteUser(who)
       /\ UNCHANGED <<tenantRows, domainRows, routes, creating, mailOf>>
    \/ /\ \E who \in Administrators : CreateAlias(who) \/ UpdateAlias(who) \/ DeleteAlias(who)
       /\ UNCHANGED <<catchRows, shareRows, grantRows, accounts>>
    \/ /\ \E who \in Administrators : \/ CreateCatchAllRoute(who)
                                      \/ UpdateCatchAllRoute(who)
                                      \/ DeleteCatchAllRoute(who)
       /\ UNCHANGED <<aliasRows, shareRows, grantRows, accounts>>
    \/ /\ \E who \in Administrators : \/ CreateSharedMailboxPermission(who)
                                      \/ UpdateSharedMailboxPermission(who)
                                      \/ DeleteSharedMailboxPermission(who)
       /\ UNCHANGED <<aliasRows, catchRows, grantRows, accounts>>
    \/ /\ \E who \in Administrators : CreateTenantAdmin(who) \/ DeleteTenantAdmin(who)
       /\ UNCHANGED <<aliasRows, catchRows, shareRows, accounts>>
    \/ Deliver

DirectorySpec == DirectoryInit /\ [][DirectoryNext]_directoryVars

-----------------------------------------------------------------------------

\* Every row refers to rows that exist, and the tables keep their keys.
DirectoryTypeOK ==
    /\ tenantRows \in Seq(TenantRow)
    /\ domainRows \in Seq(DomainRow)
    /\ userRows \in Seq(UserRow)
    /\ \A d \in Domains : domainRows[d].tenant \in Tenants
    /\ \A u \in Users : userRows[u].tenant \in Tenants /\ userRows[u].domain \in Domains
    /\ aliasRows \subseteq AliasRow
    /\ catchRows \subseteq CatchRow
    /\ shareRows \subseteq ShareRow
    /\ grantRows \subseteq GrantRow
    /\ mailOf \subseteq Addresses \X Users
    /\ renamed \subseteq Addresses
    /\ edits \in 0..MaxEdits

\* A mailbox directory, which is named after the address, holds the mail of
\* one account only, also when accounts and domains are disabled and created
\* anew; unless it was left behind by a change of name.
OneOwnerPerMailbox ==
    \A m, n \in mailOf : m[1] = n[1] /\ m[1] \notin renamed => m[2] = n[2]

\* The queries of Postfix, Dovecot and webmail, each written on its own,
\* agree: who can sign in has one mailbox that is opened and that mail for
\* the address reaches, and may send from it; a shared mailbox that webmail
\* offers with the right to send is one that the mail server lets the account
\* send from; a catch-all never takes mail that an account or alias expects.
QueriesAgree ==
    /\ \A a \in Addresses : \A u \in PassDB(a) :
         /\ UserDB(a) = {u} /\ MailboxMap(a) = {u}
         /\ a \in SenderLogins(a)
         /\ AliasMap(a) = {x.to : x \in {y \in aliasRows : AliasAddress(y) = a}}
         /\ \A p \in ListMailboxes(u) :
              "send_as" \in p.rights => a \in SenderLogins(AddressOf(p.mailbox))
    /\ \A a \in Addresses : MailboxMap(a) = UserDB(a)

=============================================================================
