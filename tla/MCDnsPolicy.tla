----------------------------- MODULE MCDnsPolicy -----------------------------
(* One list; a domain with an override, and one below it.                     *)
EXTENDS DnsPolicyProps
shop == <<"example", "shop">>
ads  == <<"example", "shop", "ads">>
MCLists   == <<"oisd">>
MCDomains == {shop, ads}
MCEdited  == {shop}
MCListed  == {ads}
MCJudged  == {ads}
==============================================================================
