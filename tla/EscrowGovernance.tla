-------------------------- MODULE EscrowGovernance --------------------------
(***************************************************************************)
(* The governance half of the event-escrow contract: governance.rs and the *)
(* checks of access.rs that every other entry point runs.                  *)
(*                                                                         *)
(* A Soroban call that panics reverts every write it made, so an entry     *)
(* point is one atomic action whose guard is the conjunction of its        *)
(* assertions; `require_auth` is the choice of the caller that signed.     *)
(* An absent storage key is None (singletons) or its `unwrap_or` default.  *)
(* Storage TTL is not modelled: every write is taken to stay readable.     *)
(***************************************************************************)
EXTENDS Integers

CONSTANTS
  Address,          \* every account and contract address
  Self,             \* the escrow contract's own address
  Organizers,       \* addresses that act as an event's admin
  Governors,        \* addresses that try the governance entry points
  Resolvers,        \* addresses that may be named resolver
  Treasuries,       \* addresses that may be named treasury
  Tokens,           \* SEP-41 token contracts
  None,             \* an absent storage entry
  BPS,              \* basis points in a whole, 10_000 in the code
  MAX_FEE_BPS,      \* ceiling of the go-live fee, 500 in the code
  DEFAULT_FEE_BPS,  \* fee rate until set_fee_bps is called, 50 in the code
  FeeRates          \* rates the governor tries to set

ASSUME AddressAssumption ==
  /\ Self \in Address
  /\ Organizers \subseteq Address \ {Self}
  /\ Governors \subseteq Address
  /\ Resolvers \subseteq Address
  /\ Treasuries \subseteq Address
  /\ None \notin Address
  /\ None \notin Tokens

ASSUME FeeAssumption ==
  /\ BPS \in Nat \ {0}
  /\ MAX_FEE_BPS \in 0..BPS
  /\ DEFAULT_FEE_BPS \in 0..MAX_FEE_BPS
  /\ FeeRates \subseteq Nat

VARIABLES
  emergencyAdmin,   \* DataKey::EmergencyAdmin
  defaultResolver,  \* DataKey::DefaultResolver
  treasury,         \* DataKey::Treasury
  paused,           \* DataKey::Paused
  adminPaused,      \* DataKey::AdminPaused(admin)
  whitelistEnabled, \* DataKey::TokenWhitelistEnabled
  allowedToken,     \* DataKey::AllowedToken(token)
  feeBps            \* DataKey::FeeBps

govVars == <<emergencyAdmin, defaultResolver, treasury, paused, adminPaused,
             whitelistEnabled, allowedToken, feeBps>>

GovTypeOK ==
  /\ emergencyAdmin \in Address \cup {None}
  /\ defaultResolver \in Address \cup {None}
  /\ treasury \in Address \cup {None}
  /\ paused \in BOOLEAN
  /\ adminPaused \in [Organizers -> BOOLEAN]
  /\ whitelistEnabled \in BOOLEAN
  /\ allowedToken \in [Tokens -> BOOLEAN]
  /\ feeBps \in 0..MAX_FEE_BPS

\* A freshly deployed contract: nothing is configured.
GovInit ==
  /\ emergencyAdmin = None
  /\ defaultResolver = None
  /\ treasury = None
  /\ paused = FALSE
  /\ adminPaused = [a \in Organizers |-> FALSE]
  /\ whitelistEnabled = FALSE
  /\ allowedToken = [t \in Tokens |-> FALSE]
  /\ feeBps = DEFAULT_FEE_BPS

-----------------------------------------------------------------------------
(* The checks the other entry points share (access.rs).                    *)

\* assert_not_paused: neither the contract nor this admin is paused.
NotPaused(a) == ~paused /\ ~adminPaused[a]

\* assert_token_allowed: an off whitelist lets every token through.
TokenAllowed(t) == whitelistEnabled => allowedToken[t]

\* assert_is_emergency_admin
IsEmergencyAdmin(caller) == emergencyAdmin # None /\ emergencyAdmin = caller

\* The fee of set_event_in_progress and of quote_go_live_fee: integer division
\* rounds down.
GoLiveFee(reward) == (reward * feeBps) \div BPS

-----------------------------------------------------------------------------
(* The governance entry points (governance.rs).                            *)

\* The first caller to sign becomes the emergency admin, for good.
initialize_emergency_admin(g) ==
  /\ emergencyAdmin = None
  /\ emergencyAdmin' = g
  /\ UNCHANGED <<defaultResolver, treasury, paused, adminPaused,
                 whitelistEnabled, allowedToken, feeBps>>

initialize_default_resolver(g, r) ==
  /\ IsEmergencyAdmin(g)
  /\ defaultResolver = None
  /\ defaultResolver' = r
  /\ UNCHANGED <<emergencyAdmin, treasury, paused, adminPaused,
                 whitelistEnabled, allowedToken, feeBps>>

initialize_treasury(g, tr) ==
  /\ IsEmergencyAdmin(g)
  /\ treasury = None
  /\ treasury' = tr
  /\ UNCHANGED <<emergencyAdmin, defaultResolver, paused, adminPaused,
                 whitelistEnabled, allowedToken, feeBps>>

set_paused(g, b) ==
  /\ IsEmergencyAdmin(g)
  /\ paused' = b
  /\ UNCHANGED <<emergencyAdmin, defaultResolver, treasury, adminPaused,
                 whitelistEnabled, allowedToken, feeBps>>

set_admin_paused(g, a, b) ==
  /\ IsEmergencyAdmin(g)
  /\ adminPaused' = [adminPaused EXCEPT ![a] = b]
  /\ UNCHANGED <<emergencyAdmin, defaultResolver, treasury, paused,
                 whitelistEnabled, allowedToken, feeBps>>

set_token_whitelist_enabled(g, b) ==
  /\ IsEmergencyAdmin(g)
  /\ whitelistEnabled' = b
  /\ UNCHANGED <<emergencyAdmin, defaultResolver, treasury, paused,
                 adminPaused, allowedToken, feeBps>>

set_token_allowed(g, t, b) ==
  /\ IsEmergencyAdmin(g)
  /\ allowedToken' = [allowedToken EXCEPT ![t] = b]
  /\ UNCHANGED <<emergencyAdmin, defaultResolver, treasury, paused,
                 adminPaused, whitelistEnabled, feeBps>>

\* The rate may move at any time, but never past the compiled-in ceiling.
set_fee_bps(g, bps) ==
  /\ IsEmergencyAdmin(g)
  /\ bps <= MAX_FEE_BPS
  /\ feeBps' = bps
  /\ UNCHANGED <<emergencyAdmin, defaultResolver, treasury, paused,
                 adminPaused, whitelistEnabled, allowedToken>>

GovNext ==
  \E g \in Governors :
    \/ initialize_emergency_admin(g)
    \/ \E r \in Resolvers : initialize_default_resolver(g, r)
    \/ \E tr \in Treasuries : initialize_treasury(g, tr)
    \/ \E b \in BOOLEAN : set_paused(g, b)
    \/ \E a \in Organizers, b \in BOOLEAN : set_admin_paused(g, a, b)
    \/ \E b \in BOOLEAN : set_token_whitelist_enabled(g, b)
    \/ \E t \in Tokens, b \in BOOLEAN : set_token_allowed(g, t, b)
    \/ \E bps \in FeeRates : set_fee_bps(g, bps)
=============================================================================
