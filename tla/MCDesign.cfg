CONSTANTS
  None = None
  Tables <- MCTables
  Former <- MCFormer
  Place <- MCPlace
  Target <- MCTarget
  RefColumn <- MCRefColumn
  Questions <- MCQuestions
  Asked <- MCAsked
  TenantQuestion = "core_tenant_model"
  TenantModels = {"single_tenant", "shared_schema_tenant_id"}
  ScaleQuestion = "core_table_scale"
  PairQuestions = {"core_rpo_rto"}
  Sections = {"none", "r1", "r2"}
  Rests <- MCRests
  FirstRest <- MCFirstRest
  TenantTables = {"tenants"}
  Scenario = "availability_ready"
  Projects <- MCAllProjects
SPECIFICATION MCSpec
INVARIANTS FindingsAreReal RefusalsAreForetold ArtifactsAgree AnswersCount
PROPERTY Converges
