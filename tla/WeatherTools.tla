---------------------------- MODULE WeatherTools ----------------------------
(***************************************************************************)
(* The four tools of weather_mcp that main registers, as the chain and the *)
(* resilient caller see them: what a ToolDefinition declares, the upstream *)
(* key its handler passes to ctx.resilient.call, and what the WeatherLib   *)
(* call inside it can come to.  The weather itself is opaque.              *)
(***************************************************************************)
EXTENDS Integers

CONSTANTS FiveMin, OneHour, Day  \* the ttls in ticks

geocode_place ==
  [min_tier |-> "free", cost_units |-> 1, ttl |-> Day, upstream |-> "open-meteo-geocoding"]

get_current_weather ==
  [min_tier |-> "free", cost_units |-> 1, ttl |-> FiveMin, upstream |-> "open-meteo"]

get_forecast ==
  [min_tier |-> "free", cost_units |-> 1, ttl |-> OneHour, upstream |-> "open-meteo"]

get_weather_premium ==
  [min_tier |-> "premium", cost_units |-> 3, ttl |-> FiveMin, upstream |-> "openweathermap"]

ToolNames == {"geocode_place", "get_current_weather", "get_forecast", "get_weather_premium"}

Definition ==
  [t \in ToolNames |-> CASE t = "geocode_place"       -> geocode_place
                         [] t = "get_current_weather" -> get_current_weather
                         [] t = "get_forecast"        -> get_forecast
                         [] t = "get_weather_premium" -> get_weather_premium]

(* What an attempt at an HTTP GET can raise: httpx's transport errors, the *)
(* statuses raise_for_status turns into one, and whatever an unexpected    *)
(* body does to the code that reshapes it.  The timeout is _attempt's.     *)
GetErrors == {"UpstreamTimeoutError", "TransportError", "status_5xx_429",
              "status_4xx", "other"}

(* The outcomes of the WeatherLib method behind a tool.  Without an API    *)
(* key premium_onecall raises before it sends anything.                    *)
Keyless(owmKey, t) == t = "get_weather_premium" /\ ~owmKey

LibErrors(owmKey, t) ==
  IF Keyless(owmKey, t) THEN {"MissingApiKeyError"} ELSE GetErrors
=============================================================================
