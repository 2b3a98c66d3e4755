----------------------------- MODULE TenantScope -----------------------------
(* The tenant scope of a request (common/tenant/tenant-scope.ts): which       *)
(* colleges the actor of a token may read and write.  An actor is a record    *)
(* with the role and the college of its token, None for a super admin.        *)

CONSTANT None

isSuperAdmin(actor) == actor.role = "SUPER_ADMIN"

\* requireCollegeScope throws for a super admin and for a missing college.
HasCollegeScope(actor) == ~isSuperAdmin(actor) /\ actor.college # None

\* resolveCollegeScope: the college asked for counts for a super admin only
\* (requireWritableCollegeScope throws when none is asked for).
resolveCollegeScope(actor, requested) ==
    IF isSuperAdmin(actor) THEN requested ELSE actor.college

\* mergeCollegeWhere finds, and assertTenantAccess lets pass, what is in scope.
InScope(actor, college) ==
    isSuperAdmin(actor) \/ (HasCollegeScope(actor) /\ college = actor.college)
=============================================================================
