--------------------------- MODULE RolePermissions ---------------------------
(***************************************************************************)
(* What a User may do, which apps/accounts and apps/sitecontent write down  *)
(* three times: capabilities, which services and hooks ask for; Django      *)
(* permissions, which Wagtail's forms ask for; and a policy of its own for  *)
(* the contact page.  No user is a superuser (createsuperuser leaves an     *)
(* INVITED account without a role, which is not active).                    *)
(***************************************************************************)

AnyRole == {"OWNER", "ADMIN", "MAINTAINER", "CUSTOMER"}
AnyStatus == {"INVITED", "ACTIVE", "SUSPENDED", "DISABLED"}

Capability ==
    {"staff.manage", "listing.manage", "listing.publish", "property.manage",
     "inquiry.manage", "article.manage", "global_content.manage", "private_location.view",
     "phone_number.view", "customer_data.export", "audit.export", "technical.maintain"}

RoleCapabilities ==
    [OWNER |-> Capability,
     ADMIN |-> {"listing.manage", "listing.publish", "property.manage", "inquiry.manage",
                "article.manage"},
     MAINTAINER |-> {"technical.maintain"},
     CUSTOMER |-> {}]

(* user_has_capability *)
HasCapability(user, capability) ==
    user.status = "ACTIVE" /\ capability \in RoleCapabilities[user.role]

Apps == {"properties", "listings", "inquiries", "media_library", "sitecontent", "wagtailimages"}

(* Mutant of HasPerm: whoever works here may look at the forms and save.    *)
HasPermOfStaff(user, app, action, model) ==
    /\ user.status = "ACTIVE"
    /\ user.role # "CUSTOMER"
    /\ \/ app = "wagtailadmin" /\ action = "access"
       \/ app \in Apps /\ action \in {"add", "change", "view"}
       \/ app = "properties" /\ action = "delete" /\ user.role = "OWNER" /\ model = "location"

(* RoleAwareAuthenticationBackend.has_perm of "<app>.<action>_<model>"; the *)
(* groups hold page permissions only, so ModelBackend adds nothing.         *)
HasPerm(user, app, action, model) ==
    /\ user.status = "ACTIVE"
    /\ user.role \in {"OWNER", "ADMIN"}
    /\ \/ app = "wagtailadmin" /\ action = "access"
       \/ app \in Apps /\ action \in {"add", "change", "view"}
       \/ app = "properties" /\ action = "delete" /\ user.role = "OWNER" /\ model = "location"

(* GlobalContentPermissionPolicy: user_has_permission and                   *)
(* users_with_any_permission.                                               *)
MayEditContactPage(user) == user.is_active /\ HasCapability(user, "global_content.manage")
ListedForContactPage(user) == user.is_active /\ user.role = "OWNER"

(* What record_catalog_change, record_listing_change, record_media_change,  *)
(* update_inquiry and the content pages ask for, after or beside the form.  *)
AskedFor ==
    [properties |-> "property.manage", listings |-> "listing.manage",
     media_library |-> "property.manage", inquiries |-> "inquiry.manage",
     sitecontent |-> "article.manage"]

-----------------------------------------------------------------------------
(* The three agree about a user: whoever can save a form has the capability *)
(* that its hook asks for once the save has committed, whoever has the      *)
(* capability can open the form, and the contact page knows its editors.    *)
AgreeAbout(user) ==
    /\ \A app \in DOMAIN AskedFor : \A action \in {"add", "change"} :
          /\ HasPerm(user, "wagtailadmin", "access", "admin")
          /\ HasPerm(user, app, action, "record")
          <=> HasCapability(user, AskedFor[app])
    /\ MayEditContactPage(user) <=> ListedForContactPage(user)

=============================================================================
