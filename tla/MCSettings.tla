------------------------------ MODULE MCSettings ------------------------------
(* A server with two datadirs, one of a name that imports accept, one share,  *)
(* one cookie jar, and a bootstrap.yml with and without users and cookies.    *)
EXTENDS Settings, TLC

WithoutUsers ==
    [paths |-> ("backend_1" :> "one") @@ ("datadir_1" :> "one"),
     staging |-> [size_gb |-> "falsy"],
     limits |-> [max_zip_total_gb |-> "other", one_zip_cache_at_a_time |-> "other"],
     indexing |-> [hot_radius |-> "other"],
     auth |-> [oidc_on |-> "other", ldap_on |-> "other", ldap |-> "other"],
     rclone |-> [remotes |-> "other", timeout |-> "falsy"],
     shares |-> ("music" :> <<"one", "alice">>)]

MCBootstraps ==
    {WithoutUsers,
     [users |-> {"alice"}, cookies |-> ("example.org" :> "encoded")],
     [cookies |-> ("example.org" :> "one")]}

\* A field of each kind of treatment.
MCEditable ==
    {"size_gb", "daily_full_reindex_budget", "giant_directory_entry_limit", "proxy_on", "timeout"}
===============================================================================
