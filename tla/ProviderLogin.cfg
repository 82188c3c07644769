\* Two logins of the provider with device codes and one of another.
\* The system may stop: login requests are bounded.
CONSTANTS
  claude = claude
  codex = codex
  first = first
  again = again
  other = other
  Providers = {claude, codex}
  Logins = {first, again, other}
  ProviderOf <- TwoAndOne
  Challenging = {codex}
  None = None
SPECIFICATION Spec
CHECK_DEADLOCK FALSE
INVARIANTS
  ListedUntilCleanup
  SpinnerHasReason
  DismissedAreDoomed
SYMMETRY SameProvider
